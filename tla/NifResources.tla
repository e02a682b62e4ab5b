---------------------------- MODULE NifResources ----------------------------
(***************************************************************************)
(* Resources of the NIF library (rustler): Rust values in memory that the  *)
(* VM counts references to.  A reference is a ResourceArc of Rust code or  *)
(* a term of an Erlang process; the destructor runs when the last one      *)
(* goes.  ResourceArcs live across calls and move between threads: what    *)
(* matters is how many there are, not who has them.                        *)
(***************************************************************************)
EXTENDS Integers, FiniteSets, FiniteSetsExt

CONSTANTS
  ResourceTypes,     \* types of resources, which on_load opens
  Size,      \* type |-> size_of
  Align,     \* type |-> align_of
  Raws,      \* addresses that enif_alloc_resource returns
  MaxRefs    \* bound on the references

ASSUME NifResourcesAssumption ==
  /\ IsFiniteSet(ResourceTypes) /\ Raws \subseteq Nat
  /\ Size \in [ResourceTypes -> Nat \ {0}] /\ Align \in [ResourceTypes -> Nat \ {0}]
  /\ MaxRefs \in Nat
  /\ "none" \notin ResourceTypes

VARIABLES
  library,   \* the library is "loading", "loaded" or "refused"
  opened,    \* types that are open
  heap,      \* raw address |-> the resource there
  holders,   \* type |-> raw address |-> number of ResourceArcs
  handles,   \* raw address |-> number of terms
  decoding   \* what from_term has found and not yet kept

resVars == <<library, opened, heap, holders, handles, decoding>>

\* type, place of the value, bytes allocated, references the VM counts
NoRes == [type |-> "none", place |-> 0, size |-> 0, count |-> 0]

ResInit ==
  /\ library = "loading" /\ opened = {}
  /\ heap = [r \in Raws |-> NoRes]
  /\ holders = [y \in ResourceTypes |-> [r \in Raws |-> 0]]
  /\ handles = [r \in Raws |-> 0]
  /\ decoding = {}

-----------------------------------------------------------------------------
(* resource_struct_init! in on_load *)

\* handle_nif_init_call: the VM does not load a library whose on_load is false.
LoadResult(ok) == library' = IF ok THEN "loaded" ELSE "refused"

\* open_struct_resource_type, which may fail
OpensType(y) == opened' = opened \cup {y}

\* on_load opens one type after another and ends at the first that fails.
OpenType ==
  /\ library = "loading"
  /\ \E y \in ResourceTypes \ opened :
       \/ /\ OpensType(y)
          /\ IF opened' = ResourceTypes THEN LoadResult(TRUE) ELSE UNCHANGED library
       \/ LoadResult(FALSE) /\ UNCHANGED opened
  /\ UNCHANGED <<heap, holders, handles, decoding>>

-----------------------------------------------------------------------------
(* Alignment *)

\* Mutant of AllocSize: no room for the offset.
AllocSize_Bare(y) == Size[y]

\* get_alloc_size_struct
AllocSize(y) == Size[y] + Align[y]

\* align_alloced_mem_for_struct: the offset is never 0, and at most align_of.
Aligned(y, raw) == raw + (Align[y] - (raw % Align[y]))

-----------------------------------------------------------------------------
(* The count of the VM *)

KeepRef(r) == heap' = [heap EXCEPT ![r].count = @ + 1]

\* enif_release_resource and the collection of a term: resource_destructor
\* reads the value at the aligned address when the count reaches zero.
ReleaseRef(r) ==
  IF heap[r].count = 1 THEN heap' = [heap EXCEPT ![r] = NoRes]
                       ELSE heap' = [heap EXCEPT ![r].count = @ - 1]

References ==
  MapThenSumSet(LAMBDA r : handles[r] +
                  MapThenSumSet(LAMBDA y : holders[y][r], ResourceTypes), Raws)
RefRoom == References < MaxRefs

Held   == {p \in ResourceTypes \X Raws : holders[p[1]][p[2]] > 0}
Handed == {r \in Raws : handles[r] > 0}

Gains(y, r) == holders' = [holders EXCEPT ![y][r] = @ + 1]

\* ResourceArc::new; get_type panics when the type is not open.
NewResource ==
  /\ library = "loaded" /\ RefRoom
  /\ \E y \in opened, r \in {q \in Raws : heap[q] = NoRes} :
       /\ heap' = [heap EXCEPT ![r] = [type |-> y, place |-> Aligned(y, r),
                                       size |-> AllocSize(y), count |-> 1]]
       /\ Gains(y, r)
  /\ UNCHANGED <<library, opened, handles, decoding>>

\* ResourceArc::as_term: the term is a reference of its own.
AsTerm ==
  /\ RefRoom
  /\ \E p \in Held :
       /\ KeepRef(p[2])
       /\ handles' = [handles EXCEPT ![p[2]] = @ + 1]
  /\ UNCHANGED <<library, opened, holders, decoding>>

\* enif_get_resource compares the types.
GetResource(y, r) == IF heap[r].type = y THEN {<<y, r>>} ELSE {}

\* from_term: BadArg when the term is a resource of another
\* type; the term is the call's argument, which is not collected before it ends.
FromTermFinds ==
  /\ decoding = {} /\ RefRoom
  /\ \E r \in Handed, y \in ResourceTypes :
       decoding' = GetResource(y, r)
  /\ UNCHANGED <<library, opened, heap, holders, handles>>

\* Mutant of FromTermKeeps: the count of the VM is left as it is.
FromTermKeeps_Not ==
  /\ \E d \in decoding : Gains(d[1], d[2])
  /\ decoding' = {}
  /\ UNCHANGED <<library, opened, heap, handles>>

\* from_term, enif_keep_resource
FromTermKeeps ==
  /\ \E d \in decoding : KeepRef(d[2]) /\ Gains(d[1], d[2])
  /\ decoding' = {}
  /\ UNCHANGED <<library, opened, handles>>

\* ResourceArc::clone
CloneArc ==
  /\ RefRoom
  /\ \E p \in Held : KeepRef(p[2]) /\ Gains(p[1], p[2])
  /\ UNCHANGED <<library, opened, handles, decoding>>

\* ResourceArc::drop
DropArc ==
  /\ \E p \in Held :
       /\ ReleaseRef(p[2])
       /\ holders' = [holders EXCEPT ![p[1]][p[2]] = @ - 1]
  /\ UNCHANGED <<library, opened, handles, decoding>>

\* The collector takes a term, but the last one only when no call decodes it.
CollectTerm ==
  /\ \E r \in Handed :
       /\ handles[r] > Cardinality({d \in decoding : d[2] = r})
       /\ ReleaseRef(r)
       /\ handles' = [handles EXCEPT ![r] = @ - 1]
  /\ UNCHANGED <<library, opened, holders, decoding>>

ResNext ==
  \/ OpenType \/ NewResource \/ AsTerm \/ FromTermFinds \/ FromTermKeeps
  \/ CloneArc \/ DropArc \/ CollectTerm

ResSpec == ResInit /\ [][ResNext]_resVars

-----------------------------------------------------------------------------
(* Properties *)

\* The value behind every ResourceArc and every term is there, and it is gone
\* when the last of them is: the VM counts exactly the references there are, and
\* those to one value are of its type.
NoDanglingReference ==
  \A r \in Raws :
    /\ \A y \in ResourceTypes \ {heap[r].type} : holders[y][r] = 0
    /\ heap[r].count =
         handles[r] + IF heap[r].type = "none" THEN 0 ELSE holders[heap[r].type][r]
    /\ heap[r].count = 0 <=> heap[r] = NoRes

\* Every ResourceArc finds a value of its type at its inner pointer, aligned and
\* inside of what was allocated, whatever address the VM returned and whichever
\* of new, from_term and the destructor works out the pointer.
ArcReadsWhatWasWritten ==
  \A p \in Held :
    LET res == heap[p[2]]  inner == Aligned(p[1], p[2]) IN
    /\ res.type = p[1] /\ res.place = inner
    /\ inner % Align[p[1]] = 0
    /\ inner >= p[2] /\ inner + Size[p[1]] <= p[2] + res.size
=============================================================================
