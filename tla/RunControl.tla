---------------------------- MODULE RunControl -----------------------------
(***************************************************************************)
(* The run table of the native program (RunControl.hs): retained searches  *)
(* under keys that name a run and a revision.  Advancing a run consumes    *)
(* the revision of its key.  The table is an MVar that one worker holds at *)
(* a time: an action here is what modifyMVar installs, and an operation    *)
(* that is interrupted before leaves the table as it was.                  *)
(***************************************************************************)
EXTENDS Integers

CONSTANTS
  MaxRuns,      \* bound on the runs of a session
  MaxRevision,  \* bound on the revisions of a run
  NoKey         \* the answer carries no key

VARIABLES
  serial,       \* the number of the next run
  entries       \* the revision of each retained run

store == <<serial, entries>>

Key == [run : Nat, revision : Nat]

\* The keys a client may send, issued or not.
SentKeys == [run : 0..MaxRuns - 1, revision : 0..MaxRevision]

ASSUME RunAssumption ==
  MaxRuns \in Nat \ {0} /\ MaxRevision \in Nat /\ NoKey \notin Key

StoreOK == serial \in Nat /\ DOMAIN entries \subseteq 0..serial - 1
                          /\ \A r \in DOMAIN entries : entries[r] \in Nat

InitStore == serial = 0 /\ entries = [r \in {} |-> 0]

\* Wrong: any revision of the run will do.
ResolvesAnyRevision(key) == key.run \in DOMAIN entries

\* A key of another session or epoch fails like the key of an unknown run.
Resolves(key) == key.run \in DOMAIN entries /\ entries[key.run] = key.revision

Current(r) == [run |-> r, revision |-> entries[r]]

NextKey(key) == [key EXCEPT !.revision = @ + 1]

StartRun ==
  /\ serial < MaxRuns
  /\ serial' = serial + 1
  /\ entries' = [r \in DOMAIN entries \cup {serial} |-> IF r = serial THEN 0 ELSE entries[r]]

\* Refutation, Candidate, Paused and Failed retain the run at a new revision.
Retain(key) ==
  /\ key.revision < MaxRevision
  /\ entries' = [entries EXCEPT ![key.run] = key.revision + 1]
  /\ UNCHANGED serial

\* Exhausted, and discard.
Retire(key) ==
  /\ entries' = [r \in DOMAIN entries \ {key.run} |-> entries[r]]
  /\ UNCHANGED serial

=============================================================================
