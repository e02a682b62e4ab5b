------------------------------ MODULE NifCalls ------------------------------
(***************************************************************************)
(* A call of a NIF: handle_nif_call around the functions of the ed25519    *)
(* library, and the binaries they work with.  An OwnedBinary is a buffer   *)
(* that Rust frees when it is dropped, also by a panic, unless it has been *)
(* released to the VM; a Binary is a view of a buffer of the VM.           *)
(*                                                                         *)
(* A function is the sequence of the steps at which it can end early.  The *)
(* function "any" takes any steps: it stands for users of the rest of the  *)
(* interface of OwnedBinary and Binary.                                    *)
(***************************************************************************)
EXTENDS Integers, Sequences, FiniteSets

CONSTANTS
  Buffers,    \* binaries of the VM's allocator
  Sizes,      \* their sizes
  Usize,      \* 2^64: offsets and lengths are usize
  MaxSteps    \* bound on the steps of the function "any"

ASSUME NifCallsAssumption ==
  /\ Sizes \subseteq Nat /\ Usize \in Nat \ {0}
  /\ \A n \in Sizes : n < Usize
  /\ MaxSteps \in Nat

VARIABLES
  mem,      \* buffer |-> owner and size
  owned,    \* the OwnedBinary values of the call
  views,    \* the Binary values of the call
  call,     \* the function, its arguments and where it is
  result,   \* how the call ended
  broken    \* history: a buffer was freed that was not Rust's to free

callVars == <<mem, owned, views, call, result, broken>>

Ed25519 == {"keypair", "sign", "valid_signature", "private_key_to_public_key"}
Arity == [f \in Ed25519 \cup {"any"} |->
            CASE f = "keypair" -> 0 [] f = "sign" -> 2
              [] f = "valid_signature" -> 3 [] OTHER -> 1]

\* An argument is a binary of the length that from_bytes wants, a binary of
\* another length, or not a binary.
ArgKinds == {"fits", "length", "other"}

\* "decode i": args[i].decode()?; "parse i": from_bytes(...).unwrap();
\* "new" and "release": to_binary(...).release(env).
DecodeArg(i) == <<"decode", i>>
ParseArg(i)  == <<"parse", i>>
NewBin       == <<"new", 0>>
ReleaseBin   == <<"release", 0>>

\* keypair: the public key and then the key pair.
keypair == <<NewBin, ReleaseBin, NewBin, ReleaseBin>>

sign == <<DecodeArg(1), DecodeArg(2), ParseArg(2), NewBin, ReleaseBin>>

valid_signature == <<DecodeArg(1), DecodeArg(2), DecodeArg(3), ParseArg(1), ParseArg(3)>>

private_key_to_public_key == <<DecodeArg(1), ParseArg(1), NewBin, ReleaseBin>>

Body(f) == CASE f = "keypair" -> keypair
             [] f = "sign" -> sign
             [] f = "valid_signature" -> valid_signature
             [] f = "private_key_to_public_key" -> private_key_to_public_key

NoCall == [fun |-> "none", args |-> <<>>, step |-> 0]
FreeBuffer   == [owner |-> "free", size |-> 0]

Unused == {b \in Buffers : mem[b].owner = "free"}

CallInit ==
  /\ mem = [b \in Buffers |-> FreeBuffer]
  /\ owned = {} /\ views = {}
  /\ call = NoCall /\ result = "none" /\ broken = FALSE

-----------------------------------------------------------------------------
\* handle_nif_call: the export table gives the function as many arguments as it
\* has.  The function "any" has a binary.
BeginCall ==
  /\ call = NoCall
  /\ \E f \in Ed25519 :
       \E as \in [1..Arity[f] -> ArgKinds] :
         call' = [fun |-> f, args |-> as, step |-> 1]
  /\ result' = "none"
  /\ UNCHANGED <<mem, owned, views, broken>>

BeginAny ==
  /\ call = NoCall
  /\ call' = [fun |-> "any", args |-> <<"fits">>, step |-> 1]
  /\ \E b \in Unused, n \in Sizes :
       /\ mem' = [mem EXCEPT ![b] = [owner |-> "vm", size |-> n]]
       /\ views' = {[buf |-> b, len |-> n, off |-> 0]}
  /\ result' = "none"
  /\ UNCHANGED <<owned, broken>>

\* The function is at step s, or is free to take it.
AtStep(s) ==
  \/ call.fun \in Ed25519 /\ call.step <= Len(Body(call.fun)) /\ Body(call.fun)[call.step] = s
  \/ call.fun = "any" /\ call.step <= MaxSteps

NextStep == call' = [call EXCEPT !.step = @ + 1]

\* Rust frees a buffer (enif_release_binary).
FreedIn(m, bs) == [b \in Buffers |-> IF b \in bs THEN FreeBuffer ELSE m[b]]

\* The function is left, by return or by unwinding: its OwnedBinary values are
\* dropped, and what it returns, or what the VM raises for it, is the result.
\* The terms of the environment, but for the result, are garbage.
Leave(how) ==
  /\ call' = NoCall /\ result' = how
  /\ owned' = {} /\ views' = {}
  /\ broken' = (broken \/ \E b \in owned : mem[b].owner # "rust")
  /\ mem' = [b \in Buffers |->
               IF b \in owned \/ mem[b].owner = "vm" THEN FreeBuffer ELSE mem[b]]

\* catch_unwind: raise_exception(nif_panic)
Unwinds == Leave("nif_panic")

-----------------------------------------------------------------------------
(* The steps *)

\* Binary::from_term: BadArg for a term that is not a binary.
DecodeBinary ==
  \E i \in 1..3 :
    /\ call.fun \in Ed25519 /\ AtStep(DecodeArg(i))
    /\ IF call.args[i] = "other" THEN Leave("badarg")
       ELSE NextStep /\ UNCHANGED <<mem, owned, views, result, broken>>

\* Keypair::, Signature:: and PublicKey::from_bytes, unwrapped
FromBytes ==
  \E i \in 1..3 :
    /\ call.fun \in Ed25519 /\ AtStep(ParseArg(i))
    /\ IF call.args[i] = "length" THEN Unwinds
       ELSE NextStep /\ UNCHANGED <<mem, owned, views, result, broken>>

\* enif_alloc_binary
Alloc(m, b, n) == [m EXCEPT ![b] = [owner |-> "rust", size |-> n]]

\* OwnedBinary::new, unwrapped, or from_unowned with as many bytes as a view,
\* or Term::to_binary: the same but for what is written.
NewOwned ==
  /\ AtStep(NewBin)
  /\ \/ \E b \in Unused, n \in Sizes :
          /\ mem' = Alloc(mem, b, n)
          /\ owned' = owned \cup {b}
          /\ NextStep
          /\ UNCHANGED <<views, result, broken>>
     \/ Unwinds

\* bin.release = false: the drop at the end of from_owned frees nothing.
ReleasedFrom(b) ==
  /\ mem' = [mem EXCEPT ![b].owner = "vm"]
  /\ UNCHANGED broken

\* OwnedBinary::release, Binary::from_owned
ReleaseOwned ==
  /\ AtStep(ReleaseBin)
  /\ \E b \in owned :
       /\ ReleasedFrom(b)
       /\ owned' = owned \ {b}
       /\ views' = views \cup {[buf |-> b, off |-> 0, len |-> mem[b].size]}
  /\ NextStep
  /\ UNCHANGED result

\* realloc_or_copy: the buffer grows or shrinks in place, or a new one takes its
\* place and the old one is dropped; without memory for it the unwrap panics.
ReallocOrCopy ==
  /\ call.fun = "any" /\ AtStep(NewBin)
  /\ \E b \in owned, n \in Sizes :
       \/ /\ mem' = [mem EXCEPT ![b].size = n]
          /\ NextStep
          /\ UNCHANGED <<owned, views, result, broken>>
       \/ \E c \in Unused :
            /\ mem' = FreedIn(Alloc(mem, c, n), {b})
            /\ owned' = (owned \ {b}) \cup {c}
            /\ NextStep
            /\ UNCHANGED <<views, result, broken>>
       \/ Unwinds

\* Mutant of SubFits: the sum is allowed to wrap around.
SubFits_Wraps(v, off, len) == (off + len) % Usize <= v.len

\* checked_add, and the bound
SubFits(v, off, len) == off + len < Usize /\ off + len <= v.len

\* make_subbinary: BadArg is the caller's to return or not.
MakeSubbinary ==
  /\ call.fun = "any" /\ AtStep(ReleaseBin)
  /\ \E v \in views, off \in 0..(Usize - 1), len \in 0..(Usize - 1) :
       IF SubFits(v, off, len)
       THEN /\ views' = views \cup {[buf |-> v.buf, off |-> v.off + off, len |-> len]}
            /\ NextStep
            /\ UNCHANGED <<mem, owned, result, broken>>
       ELSE Leave("badarg")

\* The function panics, or returns an Error.
FailsItself ==
  /\ call.fun = "any"
  /\ Unwinds \/ \E e \in {"badarg", "atom", "raise"} : Leave(e)

\* Ok(term)
Ends == Leave("term")

ReturnsOk ==
  /\ \/ call.fun \in Ed25519 /\ call.step > Len(Body(call.fun))
     \/ call.fun = "any"
  /\ Ends

CallStep ==
  \/ DecodeBinary \/ FromBytes \/ NewOwned \/ ReleaseOwned \/ ReallocOrCopy
  \/ MakeSubbinary \/ FailsItself \/ ReturnsOk

CallNext == BeginCall \/ BeginAny \/ CallStep

CallSpec == CallInit /\ [][CallNext]_callVars

-----------------------------------------------------------------------------
(* Properties *)

\* Every buffer has one owner: a call that has ended, in whichever way, leaves
\* none behind that Rust would have to free, and Rust frees none of the VM's.  A
\* Binary, however often it was cut, lies inside a buffer that the VM keeps.
BinariesAreSound ==
  /\ ~broken
  /\ \A b \in Buffers : mem[b].owner = "rust" <=> b \in owned
  /\ call = NoCall => \A b \in Buffers : mem[b].owner # "rust"
  /\ \A v \in views : mem[v.buf].owner = "vm" /\ v.off + v.len <= mem[v.buf].size
=============================================================================
