---------------------------- MODULE AddressSpace ----------------------------
(***************************************************************************)
(* What the address-space component promises its users, with no page      *)
(* tables, frames, allocator or ledger: each live address space is a view *)
(* from virtual page to the data a user load would read there, a set of   *)
(* VMAs keyed by start, and a program break.  Fork (MmStruct::deep_dup)   *)
(* is one atomic step that gives the new space the view, VMAs and break of *)
(* its parent, and from then on the two views change independently: a     *)
(* write changes exactly one page of exactly one space.                    *)
(*                                                                         *)
(* Mm.tla implements this module under a refinement mapping.              *)
(***************************************************************************)
EXTENDS Naturals

CONSTANTS
  Mms,         \* slots that can hold an address space
  Vas,         \* virtual page numbers
  Data,        \* page contents a user can tell apart
  VmaChoices,  \* VMA descriptors a mapping request can create
  BrkValues,   \* program break values set_brk may be given
  NoPage,      \* sentinel: page not present
  NoVma        \* sentinel: no VMA keyed at this start

VARIABLES aAlive, aView, aVmas, aBrk

avars == <<aAlive, aView, aVmas, aBrk>>

NoView == [va \in Vas |-> NoPage]
NoVmas == [k \in Vas |-> NoVma]

\* Pages va the VMA v spans: [vm_start, vm_end).
Span(v) == {va \in Vas : v.start <= va /\ va < v.end}

\* va lies inside some VMA of the VMA map vs.
Covered(vs, va) == \E k \in Vas : vs[k] # NoVma /\ va \in Span(vs[k])

Init ==
  /\ aAlive = {}
  /\ aView = [m \in Mms |-> NoView]
  /\ aVmas = [m \in Mms |-> NoVmas]
  /\ aBrk = [m \in Mms |-> 0]

\* A fresh, empty space is created.
Create(s) ==
  /\ s \notin aAlive
  /\ aAlive' = aAlive \cup {s}
  /\ aView' = [aView EXCEPT ![s] = NoView]
  /\ aVmas' = [aVmas EXCEPT ![s] = NoVmas]
  /\ aBrk' = [aBrk EXCEPT ![s] = 0]

\* The space dst is created as a copy of src, atomically.
Fork(src, dst) ==
  /\ src \in aAlive
  /\ dst \notin aAlive
  /\ aAlive' = aAlive \cup {dst}
  /\ aView' = [aView EXCEPT ![dst] = aView[src]]
  /\ aVmas' = [aVmas EXCEPT ![dst] = aVmas[src]]
  /\ aBrk' = [aBrk EXCEPT ![dst] = aBrk[src]]

\* A VMA is registered under its start.
AddVma(m, v) ==
  /\ m \in aAlive
  /\ aVmas' = [aVmas EXCEPT ![m][v.start] = v]
  /\ UNCHANGED <<aAlive, aView, aBrk>>

\* A VMA is removed, and every page it spans disappears from the view.
RemoveVma(m, k) ==
  /\ m \in aAlive
  /\ aVmas[m][k] # NoVma
  /\ aVmas' = [aVmas EXCEPT ![m][k] = NoVma]
  /\ aView' = [aView EXCEPT ![m] =
                 [va \in Vas |-> IF va \in Span(aVmas[m][k]) THEN NoPage ELSE @[va]]]
  /\ UNCHANGED <<aAlive, aBrk>>

\* A page inside a VMA becomes present with some content.
Materialize(m, va, d) ==
  /\ m \in aAlive
  /\ aView[m][va] = NoPage
  /\ Covered(aVmas[m], va)
  /\ aView' = [aView EXCEPT ![m][va] = d]
  /\ UNCHANGED <<aAlive, aVmas, aBrk>>

\* A user store changes one present page of one space.
Write(m, va, d) ==
  /\ m \in aAlive
  /\ aView[m][va] # NoPage
  /\ aView' = [aView EXCEPT ![m][va] = d]
  /\ UNCHANGED <<aAlive, aVmas, aBrk>>

SetBrk(m, b) ==
  /\ m \in aAlive
  /\ aBrk' = [aBrk EXCEPT ![m] = b]
  /\ UNCHANGED <<aAlive, aView, aVmas>>

\* The space is discarded.
Destroy(m) ==
  /\ m \in aAlive
  /\ aAlive' = aAlive \ {m}
  /\ aView' = [aView EXCEPT ![m] = NoView]
  /\ aVmas' = [aVmas EXCEPT ![m] = NoVmas]
  /\ aBrk' = [aBrk EXCEPT ![m] = 0]

Next ==
  \/ \E s \in Mms : Create(s)
  \/ \E src, dst \in Mms : Fork(src, dst)
  \/ \E m \in Mms, v \in VmaChoices : AddVma(m, v)
  \/ \E m \in Mms, k \in Vas : RemoveVma(m, k)
  \/ \E m \in Mms, va \in Vas, d \in Data : Materialize(m, va, d) \/ Write(m, va, d)
  \/ \E m \in Mms, b \in BrkValues : SetBrk(m, b)
  \/ \E m \in Mms : Destroy(m)

Spec == Init /\ [][Next]_avars

=============================================================================
