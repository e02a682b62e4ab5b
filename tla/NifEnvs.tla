------------------------------- MODULE NifEnvs -------------------------------
(***************************************************************************)
(* Process-independent environments of the NIF library (rustler): OwnedEnv *)
(* and the terms that are saved in one and loaded later, on any thread.    *)
(* Every generation of an environment has an Arc; a SavedTerm holds a weak *)
(* reference to it, and load succeeds when the Arc is still there and has  *)
(* the address of the environment it loads into.  Both are Send: an        *)
(* OwnedEnv is moved from thread to thread between two uses of it, and any *)
(* thread may have clones of any SavedTerm.                                *)
(*                                                                         *)
(* An environment is an address, which the VM gives again to a later one;  *)
(* a term is alive while its environment is allocated and not cleared.     *)
(* A thread with several OwnedEnvs is a thread for each of them, here.     *)
(***************************************************************************)
EXTENDS Integers, FiniteSets

CONSTANTS
  Threads,    \* threads that use environments
  Managed,    \* those that belong to the Erlang VM
  Jobs,       \* those that thread::spawn made
  Addrs,      \* addresses of environments
  MaxArcs,    \* bound on the generations
  MaxSaved    \* bound on the saved terms

ASSUME NifEnvsAssumption ==
  /\ Managed \subseteq Threads /\ Jobs \subseteq Threads \ Managed
  /\ Addrs # {} /\ MaxArcs \in Nat /\ MaxSaved \in Nat

VARIABLES
  envs,    \* address |-> allocated or not, and how often it was filled anew
  arcs,    \* generation |-> address and number of strong references
  made,    \* number of generations made
  own,     \* thread |-> generation its OwnedEnv refers to, 0 when it has none
  at,      \* thread |-> where it is
  arg,     \* thread |-> the saved terms it is loading or has loaded
  saved,   \* the SavedTerms
  sent,    \* job |-> messages to the process that started it
  late     \* history: threads whose load found an Arc that no OwnedEnv uses

envVars == <<envs, arcs, made, own, at, arg, saved, sent, late>>

Places == {"idle", "loading", "using", "dropping", "panicked", "done"}
Saved  == [arc : 1..MaxArcs, addr : Addrs, fill : Nat]

Alive(s) == envs[s.addr].live /\ envs[s.addr].fill = s.fill

\* The environment of the thread's run closure; a thread without an OwnedEnv
\* has the one of the process that called it, which is no OwnedEnv's.
Target(t) == IF own[t] = 0 THEN {} ELSE {arcs[own[t]].addr}

EnvInit ==
  /\ envs = [a \in Addrs |-> [live |-> FALSE, fill |-> 0]]
  /\ arcs = [g \in 1..MaxArcs |-> [addr |-> CHOOSE a \in Addrs : TRUE, strong |-> 0]]
  /\ made = 0 /\ saved = {} /\ late = {}
  /\ own = [t \in Threads |-> 0]
  /\ at = [t \in Threads |-> "idle"]
  /\ arg = [t \in Threads |-> {}]
  /\ sent = [t \in Jobs |-> 0]

-----------------------------------------------------------------------------
(* OwnedEnv *)

\* OwnedEnv::new: any address that is free.
NewEnv(t) ==
  /\ at[t] = "idle" /\ own[t] = 0 /\ made < MaxArcs
  /\ \E a \in {b \in Addrs : ~envs[b].live} :
       /\ envs' = [envs EXCEPT ![a] = [live |-> TRUE, fill |-> @.fill + 1]]
       /\ arcs' = [arcs EXCEPT ![made + 1] = [addr |-> a, strong |-> 1]]
  /\ made' = made + 1
  /\ own' = [own EXCEPT ![t] = made + 1]
  /\ UNCHANGED <<at, arg, saved, sent, late>>

\* unsafe impl Send for OwnedEnv: it is moved to another thread.
MoveEnv(t, u) ==
  /\ at[t] = "idle" /\ own[t] # 0 /\ t \notin Jobs
  /\ at[u] = "idle" /\ own[u] = 0 /\ u \notin Jobs
  /\ own' = [own EXCEPT ![u] = own[t], ![t] = 0]
  /\ UNCHANGED <<envs, arcs, made, at, arg, saved, sent, late>>

\* OwnedEnv::save: the term is brought into the environment (in_env).
Save(t) ==
  /\ at[t] = "idle" /\ own[t] # 0 /\ t \notin Jobs
  /\ Cardinality(saved) < MaxSaved
  /\ LET a == arcs[own[t]].addr
     IN  saved' = saved \cup {[arc |-> own[t], addr |-> a, fill |-> envs[a].fill]}
  /\ UNCHANGED <<envs, arcs, made, own, at, arg, sent, late>>

\* Mutant of NewGeneration: the Arc stays, and with it the SavedTerms.
NewGeneration_Same(t) == UNCHANGED <<arcs, made, own>>

\* self.env = Arc::new(c_env), which gives up the old one
NewGeneration(t) ==
  /\ made < MaxArcs
  /\ arcs' = [arcs EXCEPT ![own[t]].strong = @ - 1,
                          ![made + 1] = [addr |-> arcs[own[t]].addr, strong |-> 1]]
  /\ made' = made + 1
  /\ own' = [own EXCEPT ![t] = made + 1]

Refill(a) == envs' = [envs EXCEPT ![a].fill = @ + 1]

\* OwnedEnv::clear
Clear(t) ==
  /\ at[t] = "idle" /\ own[t] # 0 /\ t \notin Jobs
  /\ NewGeneration(t)
  /\ Refill(arcs[own[t]].addr)
  /\ UNCHANGED <<at, arg, saved, sent, late>>

\* OwnedEnv::send_and_clear: a managed thread panics.  enif_send empties the
\* environment unless there is no such process any more.
SendAndClear(t) ==
  /\ at[t] \in {"idle", "using"} /\ own[t] # 0 /\ t \notin Managed
  /\ t \in Jobs => sent[t] = 0
  /\ NewGeneration(t)
  /\ Refill(arcs[own[t]].addr) \/ UNCHANGED envs
  /\ at' = [at EXCEPT ![t] = "idle"]
  /\ arg' = [arg EXCEPT ![t] = {}]
  /\ sent' = IF t \in Jobs THEN [sent EXCEPT ![t] = @ + 1] ELSE sent
  /\ UNCHANGED <<saved, late>>

\* drop frees the environment; the field, and with it the Arc, goes after it.
\* A job's environment is dropped when it has answered.
DropFrees(t) ==
  /\ at[t] = "idle" /\ own[t] # 0
  /\ t \in Jobs => sent[t] = 1
  /\ envs' = [envs EXCEPT ![arcs[own[t]].addr].live = FALSE]
  /\ at' = [at EXCEPT ![t] = "dropping"]
  /\ UNCHANGED <<arcs, made, own, arg, saved, sent, late>>

DropReleases(t) ==
  /\ at[t] = "dropping"
  /\ arcs' = [arcs EXCEPT ![own[t]].strong = @ - 1]
  /\ own' = [own EXCEPT ![t] = 0]
  /\ at' = [at EXCEPT ![t] = IF t \in Jobs THEN "done" ELSE "idle"]
  /\ UNCHANGED <<envs, made, arg, saved, sent, late>>

-----------------------------------------------------------------------------
(* SavedTerm::load, in the run closure of the thread's environment *)

\* A panic ends the closure; a job's is caught and answered.
Panicked(t) == IF t \in Jobs THEN "panicked" ELSE "idle"

\* A generation belongs to an OwnedEnv that is not being dropped.
InUse(g) == \E u \in Threads : own[u] = g /\ at[u] # "dropping"

\* env_generation.upgrade(): none when nobody holds the Arc.
LoadUpgrades(t) ==
  /\ at[t] = "idle"
  /\ t \in Jobs => own[t] # 0 /\ sent[t] = 0
  /\ \E s \in saved :
       IF arcs[s.arc].strong = 0
       THEN /\ at' = [at EXCEPT ![t] = Panicked(t)]
            /\ UNCHANGED <<arcs, arg, late>>
       ELSE /\ at' = [at EXCEPT ![t] = "loading"]
            /\ arg' = [arg EXCEPT ![t] = {s}]
            /\ arcs' = [arcs EXCEPT ![s.arc].strong = @ + 1]
            /\ late' = IF InUse(s.arc) THEN late \ {t} ELSE late \cup {t}
  /\ UNCHANGED <<envs, made, own, saved, sent>>

\* **env_arc == env.as_c_arg()
Matches(t, s) == arcs[s.arc].addr \in Target(t)

\* The upgraded Arc is given up when load returns or panics.
LoadCompares(t) ==
  /\ at[t] = "loading"
  /\ \E s \in arg[t] :
       /\ IF Matches(t, s)
          THEN at' = [at EXCEPT ![t] = "using"] /\ UNCHANGED arg
          ELSE /\ at' = [at EXCEPT ![t] = Panicked(t)]
               /\ arg' = [arg EXCEPT ![t] = {}]
       /\ arcs' = [arcs EXCEPT ![s.arc].strong = @ - 1]
  /\ UNCHANGED <<envs, made, own, saved, sent, late>>

\* Env::pid panics in the environment of an OwnedEnv.
HasPid(t) == own[t] = 0

\* Env::send in the closure: the message is a copy and nothing is cleared.  On a
\* managed thread only the environment of the calling process may send.
SendInRun(t) ==
  /\ at[t] = "using" /\ t \in Managed /\ ~HasPid(t)
  /\ at' = [at EXCEPT ![t] = Panicked(t)]
  /\ arg' = [arg EXCEPT ![t] = {}]
  /\ UNCHANGED <<envs, arcs, made, own, saved, sent, late>>

\* The closure ends, and with it the lifetime of the term.
RunEnds(t) ==
  /\ at[t] = "using" /\ t \notin Jobs
  /\ at' = [at EXCEPT ![t] = "idle"]
  /\ arg' = [arg EXCEPT ![t] = {}]
  /\ UNCHANGED <<envs, arcs, made, own, saved, sent, late>>

-----------------------------------------------------------------------------
(* thread::spawn *)

\* thread_fn panics by itself.
JobPanics(t) ==
  /\ t \in Jobs /\ at[t] \in {"idle", "using"} /\ own[t] # 0 /\ sent[t] = 0
  /\ at' = [at EXCEPT ![t] = "panicked"]
  /\ arg' = [arg EXCEPT ![t] = {}]
  /\ UNCHANGED <<envs, arcs, made, own, saved, sent, late>>

\* Mutant of CatchUnwind: the panic ends the thread.
CatchUnwind_Not(t) ==
  /\ at[t] = "panicked"
  /\ at' = [at EXCEPT ![t] = "done"]
  /\ UNCHANGED <<envs, arcs, made, own, arg, saved, sent, late>>

\* catch_unwind: {error, reason} is the result, in the same environment.
CatchUnwind(t) ==
  /\ at[t] = "panicked"
  /\ at' = [at EXCEPT ![t] = "using"]
  /\ UNCHANGED <<envs, arcs, made, own, arg, saved, sent, late>>

-----------------------------------------------------------------------------
EnvStep(t) ==
  \/ NewEnv(t) \/ Save(t) \/ Clear(t) \/ SendAndClear(t)
  \/ \E u \in Threads : MoveEnv(t, u)
  \/ DropFrees(t) \/ DropReleases(t)
  \/ LoadUpgrades(t) \/ LoadCompares(t) \/ SendInRun(t) \/ RunEnds(t)
  \/ JobPanics(t) \/ CatchUnwind(t)

EnvNext == \E t \in Threads : EnvStep(t)

EnvSpec == EnvInit /\ [][EnvNext]_envVars

-----------------------------------------------------------------------------
(* Properties *)

\* A term that load returned is alive as long as the closure uses it: what the
\* documentation of load says, which does not hold.
LoadedTermIsAlive ==
  \A t \in Threads : at[t] = "using" => \A s \in arg[t] : Alive(s)

\* It is, whichever thread has the OwnedEnv and whichever have clones of the term,
\* unless load finds an Arc that no OwnedEnv uses any more: one that drop has yet to
\* give up after the free, or one that nothing but another load still holds.
OnlyLateLoadsAreStale ==
  \A t \in Threads : at[t] = "using" /\ t \notin late => \A s \in arg[t] : Alive(s)

\* thread::spawn answers exactly once, whatever its closure does, and leaves no
\* environment behind.
JobAnswersOnce ==
  \A t \in Jobs : at[t] = "done" =>
    /\ sent[t] = 1
    /\ \A a \in Addrs : envs[a].live => \E u \in Threads : a \in Target(u)
=============================================================================
