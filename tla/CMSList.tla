------------------------------ MODULE CMSList ------------------------------
(***************************************************************************)
(* The list of the marshalling back ends (include/ms.h, arch/list.cc).     *)
(*                                                                         *)
(* A CMSList is a doubly linked ring whose head is the list object itself; *)
(* here it is the sequence of its elements.  An element is a record with   *)
(* at least a field prio: the code keeps the priority in the element, and  *)
(* the value survives when the element moves to another list.              *)
(***************************************************************************)
EXTENDS Naturals, Sequences, FiniteSets, SequencesExt

(* CMSBase::add called on the head of the ring: the element becomes the    *)
(* last one and keeps the priority it has.                                 *)
AddLast(list, elem) == Append(list, elem)

(* The elements addWithPrio walks past: the longest prefix without a       *)
(* larger priority.                                                        *)
LeadingUpTo(list, prio) ==
  Cardinality({i \in DOMAIN list : \A j \in 1 .. i : list[j].prio <= prio})

(* Where addWithPrio puts an element of that priority.                     *)
OneTooEarly(list, prio) ==              \* before the last element it passed
  IF LeadingUpTo(list, prio) = 0 THEN 1 ELSE LeadingUpTo(list, prio)

PrioPosition(list, prio) == 1 + LeadingUpTo(list, prio)

(* CMSList::addWithPrio.                                                   *)
Overwrite(list, elem, prio) ==          \* the links of its successor lost
  LET at == PrioPosition(list, prio)
  IN  SubSeq(list, 1, at - 1) \o <<[elem EXCEPT !.prio = prio]>>
        \o SubSeq(list, at + 1, Len(list))

AddWithPrio(list, elem, prio) ==
  InsertAt(list, PrioPosition(list, prio), [elem EXCEPT !.prio = prio])

(* CMSList::removeElement.  The code searches for the address of the       *)
(* element; an address is a position here.                                 *)
RemoveElement(list, position) == RemoveAt(list, position)

(* CMSList::merge: the elements of other go to the end one by one.         *)
MergeLost(list, other) == list          \* the other list forgotten

Merge(list, other) == list \o other

(* getFirstElementWithPrio and hasPrioOrAbove.                             *)
WithPrio(list, prio) == {i \in DOMAIN list : list[i].prio = prio}

HasPrioOrAbove(list, prio) == \E i \in DOMAIN list : list[i].prio >= prio

(* findChunk: how many elements it walks past before the first one with    *)
(* this id, all of them if there is none.                                  *)
WalkTo(list, id) ==
  Cardinality({i \in DOMAIN list : \A j \in 1 .. i : list[j].id # id})
=============================================================================
