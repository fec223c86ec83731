SPECIFICATION Spec
CONSTANT Programs <- Diamonds
INVARIANT ServersUnambiguous
