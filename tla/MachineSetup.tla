---------------------------- MODULE MachineSetup ----------------------------
(* How a machine becomes a worker: librechat-code pair (cli.ts), setup with  *)
(* a pairing code (setup.ts) and setup approved in the browser               *)
(* (browser-setup.ts), several of them at once on the same files, with       *)
(* crashes and reruns.  Paths are reserved by an empty file before anything  *)
(* is asked of the server, files are published by rename, and what is left   *)
(* of a reservation is released (storage.ts).                                *)
EXTENDS Integers, Sequences, FiniteSets, SequencesExt

CONSTANTS
    Runs,       \* commands started, in any order
    Mixes,      \* which commands they may be: [Runs -> {"pair", "setup", "browser"}]
    MaxFaults,  \* bound on lost messages, failures of the disk and crashes
    None

VARIABLES
    kind,
    file,       \* the profile, the identity and the journal of the attempt
    pc, made,   \* [Runs -> the reservations it has created]
    attempt,    \* [Runs -> the browser attempt it works on]
    status,     \* [Runs -> the state of the session it has last seen]
    session,    \* [Runs -> what the server thinks of the request with this key]
    sent,       \* keys a browser setup has shown to the server
    enrolled,   \* keys the server trusts
    saved,      \* keys that have been in the identity file
    raced,      \* a release removed what had just been published
    faults

vars == <<kind, file, pc, made, attempt, status, session, sent, enrolled, saved, raced, faults>>
remote == <<session, sent, enrolled>>
local == <<made, attempt, status>>

(* A file knows who has created it; an empty one holds None.  The identity   *)
(* holds a key, named after the run that has made it.                        *)
Absent == [by |-> None, holds |-> None]
Paths == {"profile", "identity", "journal"}
Exists(path) == file[path] # Absent
Empty(path) == file[path].holds = None
Publish(p, path, value) == file' = [file EXCEPT ![path] = [by |-> p, holds |-> value]]

Init ==
    /\ kind \in Mixes /\ file = [path \in Paths |-> Absent]
    /\ pc = [p \in Runs |-> "new"] /\ made = [p \in Runs |-> <<>>]
    /\ attempt = [p \in Runs |-> None] /\ status = [p \in Runs |-> "none"]
    /\ session = [k \in Runs |-> "none"]
    /\ sent = {} /\ enrolled = {} /\ saved = {} /\ raced = FALSE /\ faults = 0

Fault == faults < MaxFaults /\ faults' = faults + 1
Go(p, where) == pc' = [pc EXCEPT ![p] = where]
-----------------------------------------------------------------------------
First(p) == IF kind[p] = "pair" THEN "claimIdentity" ELSE "claimProfile"
Claimed == [claimProfile |-> "profile", claimIdentity |-> "identity", claimJournal |-> "journal"]
Then(p) ==
    CASE pc[p] = "claimProfile" -> "claimIdentity"
      [] pc[p] = "claimIdentity" -> IF kind[p] = "browser" THEN "claimJournal" ELSE "redeem"
      [] OTHER -> "go"
createOnly(p) == kind[p] = "setup" \/ (kind[p] = "browser" /\ attempt[p] = None)

(* The lock of a browser setup goes with its process.                        *)
Locked == \E q \in Runs : kind[q] = "browser" /\ pc[q] \notin {"new", "end", "dead"}

(* loadBrowserSetupAttempt: an empty or foreign one is refused.              *)
Readable ==
    /\ ~Empty("journal")
    /\ file["journal"].holds.stage = "completed" => file["identity"].holds = file["journal"].holds.key
Begin(p) ==
    /\ pc[p] = "new"
    /\ \/ kind[p] # "browser" /\ Go(p, First(p)) /\ UNCHANGED attempt
       \/ /\ kind[p] = "browser" /\ Locked /\ Go(p, "end") /\ UNCHANGED attempt
       \/ /\ kind[p] = "browser" /\ ~Locked
          /\ IF Exists("journal") /\ ~Readable THEN Go(p, "end") /\ UNCHANGED attempt
             ELSE Go(p, First(p)) /\ attempt' = [attempt EXCEPT ![p] = file["journal"].holds]
    /\ UNCHANGED <<kind, file, made, status, remote, saved, raced, faults>>

(* assertIdentityPathIsPrivate: claim the path, or judge what is there; the  *)
(* path may turn out to be unfit.                                            *)
Reserve(p) ==
    /\ pc[p] \in DOMAIN Claimed
    /\ LET path == Claimed[pc[p]] IN
       \/ /\ ~Exists(path) /\ Publish(p, path, None) /\ Go(p, Then(p))
          /\ made' = [made EXCEPT ![p] = Append(@, path)] /\ UNCHANGED faults
       \/ /\ Exists(path) /\ Go(p, IF createOnly(p) THEN "release" ELSE Then(p))
          /\ UNCHANGED <<file, made, faults>>
       \/ /\ Fault /\ Go(p, "release") /\ UNCHANGED <<file, made>>
    /\ UNCHANGED <<kind, attempt, status, remote, saved, raced>>

(* pairBridgeWorker: the code is spent, and the answer may be lost.          *)
Redeem(p) ==
    /\ pc[p] = "redeem"
    /\ \/ enrolled' = enrolled \cup {p} /\ Go(p, "identity") /\ UNCHANGED faults
       \/ Fault /\ Go(p, "release") /\ (enrolled' = enrolled \/ enrolled' = enrolled \cup {p})
    /\ UNCHANGED <<kind, file, local, session, sent, saved, raced>>

(* savePrivateJson: the rename may not happen, or happen and the rest fail.  *)
Save(p, path, value, next) ==
    \/ Publish(p, path, value) /\ Go(p, next) /\ UNCHANGED faults
    \/ Fault /\ Go(p, "release") /\ (Publish(p, path, value) \/ UNCHANGED file)

EnrolledKey(p) == IF kind[p] = "browser" THEN attempt[p].key ELSE p
AfterIdentity(p) ==
    CASE kind[p] = "pair" -> "end"
      [] kind[p] = "setup" -> "profile"
      [] OTHER -> IF attempt[p].stage = "completed" THEN "checkProfile" ELSE "complete"
SaveIdentity(p) ==
    /\ pc[p] = "identity" /\ Save(p, "identity", EnrolledKey(p), AfterIdentity(p))
    /\ saved' = IF file'["identity"].holds = EnrolledKey(p) THEN saved \cup {EnrolledKey(p)} ELSE saved
    /\ UNCHANGED <<kind, local, remote, raced>>

(* A profile that cannot be saved leaves the identity in place.              *)
SaveProfile(p) ==
    /\ pc[p] = "profile" /\ Save(p, "profile", "profile", "release")
    /\ UNCHANGED <<kind, local, remote, saved, raced>>
-----------------------------------------------------------------------------
(* The journal is written before the server hears of the key, and again with *)
(* everything the server has said.                                           *)
Journal(p, stage, next) ==
    LET a == [key |-> IF attempt[p] = None THEN p ELSE attempt[p].key, stage |-> stage] IN
    /\ attempt' = [attempt EXCEPT ![p] = a] /\ Save(p, "journal", a, next)
    /\ UNCHANGED <<kind, made, status, saved, raced>>

Choose(p) ==
    /\ pc[p] = "go"
    /\ \/ attempt[p] = None /\ Journal(p, "request", "start") /\ UNCHANGED remote
       \/ /\ attempt[p] # None
          /\ Go(p, CASE attempt[p].stage \in {"enrolled", "completed"} -> "check"
                     [] attempt[p].stage = "approved" /\ session[attempt[p].key] = "expired" -> "recover"
                     [] OTHER -> "start")
          /\ UNCHANGED <<kind, file, local, remote, saved, raced, faults>>

(* setup.start and setup.poll                                                *)
Ask(p) ==
    /\ pc[p] \in {"start", "poll"} /\ sent' = sent \cup {attempt[p].key}
    /\ LET k == attempt[p].key
           now == IF session[k] = "none" THEN "pending" ELSE session[k] IN
       /\ session' = [session EXCEPT ![k] = now]
       /\ \/ Go(p, "status") /\ status' = [status EXCEPT ![p] = now] /\ UNCHANGED faults
          \/ Fault /\ Go(p, "release") /\ UNCHANGED status
    /\ UNCHANGED <<kind, file, made, attempt, enrolled, saved, raced>>

Answer(p) ==
    /\ pc[p] = "status" /\ UNCHANGED remote
    /\ \/ status[p] \in {"approved", "completed"} /\ Journal(p, "approved", "redeemKey")
       \/ /\ status[p] \notin {"approved", "completed"}
          /\ Go(p, IF status[p] = "pending" THEN "poll" ELSE "release")
          /\ UNCHANGED <<kind, file, local, saved, raced, faults>>

(* setup.complete enrolls the key, once for all; the credential is recorded  *)
(* before it is published.                                                   *)
RedeemKey(p) ==
    LET k == attempt[p].key IN
    /\ pc[p] = "redeemKey"
    /\ IF session[k] \in {"approved", "completed"}
       THEN /\ session' = [session EXCEPT ![k] = "completed"] /\ enrolled' = enrolled \cup {k}
            /\ \/ Go(p, "record") /\ UNCHANGED faults
               \/ Fault /\ Go(p, "release")
       ELSE Go(p, "release") /\ UNCHANGED <<session, enrolled, faults>>
    /\ UNCHANGED <<kind, file, local, sent, saved, raced>>

(* After the session only the key can prove the enrollment.                  *)
Recover(p) ==
    /\ pc[p] = "recover"
    /\ \/ attempt[p].key \in enrolled /\ Go(p, "record") /\ UNCHANGED faults
       \/ attempt[p].key \notin enrolled /\ Go(p, "release") /\ UNCHANGED faults
       \/ Fault /\ Go(p, "release")
    /\ UNCHANGED <<kind, file, local, remote, saved, raced>>

Record(p) == pc[p] = "record" /\ Journal(p, "enrolled", "check") /\ UNCHANGED remote

(* publish: assertEmptyOrMatching, identity first.                           *)
Check(p) ==
    /\ pc[p] \in {"check", "checkProfile"}
    /\ Go(p, IF pc[p] = "check"
             THEN IF ~Exists("identity") THEN "release"
                  ELSE IF Empty("identity") THEN "identity"
                  ELSE IF file["identity"].holds = EnrolledKey(p) THEN AfterIdentity(p) ELSE "release"
             ELSE IF Exists("profile") /\ Empty("profile") THEN "profile" ELSE "release")
    /\ UNCHANGED <<kind, file, local, remote, saved, raced, faults>>

Complete(p) == pc[p] = "complete" /\ Journal(p, "completed", "checkProfile") /\ UNCHANGED remote

(* The person decides, the session runs out, or the setup is cancelled,      *)
(* which a recorded enrollment refuses (cancelBrowserSetup).                 *)
Decide(k) ==
    /\ \/ session[k] = "pending" /\ \E s \in {"approved", "denied"} : session' = [session EXCEPT ![k] = s]
       \/ session[k] \in {"pending", "approved", "completed"} /\ session' = [session EXCEPT ![k] = "expired"]
       \/ /\ session[k] \in {"pending", "approved"} /\ ~Empty("journal")
          /\ file["journal"].holds.key = k /\ file["journal"].holds.stage \in {"request", "approved"}
          /\ session' = [session EXCEPT ![k] = "cancelled"]
    /\ UNCHANGED <<kind, file, pc, local, sent, enrolled, saved, raced, faults>>
-----------------------------------------------------------------------------
(* (Takes whatever is at a path it has created for its own.)                 *)
MineByName(p, path) == Exists(path)

(* release: only the placeholder of this run, still empty, is dropped ...    *)
Mine(p, path) == file[path] = [by |-> p, holds |-> None]
Look(p) ==
    /\ pc[p] = "release"
    /\ IF made[p] = <<>> THEN Go(p, "end") /\ UNCHANGED made
       ELSE IF Mine(p, Last(made[p])) THEN Go(p, "remove") /\ UNCHANGED made
       ELSE UNCHANGED pc /\ made' = [made EXCEPT ![p] = Front(@)]
    /\ UNCHANGED <<kind, file, attempt, status, remote, saved, raced, faults>>

(* ... a moment after it was looked at.                                      *)
Drop(p) ==
    /\ pc[p] = "remove" /\ Go(p, "release") /\ made' = [made EXCEPT ![p] = Front(@)]
    /\ file' = [file EXCEPT ![Last(made[p])] = Absent] /\ raced' = (raced \/ ~Mine(p, Last(made[p])))
    /\ UNCHANGED <<kind, attempt, status, remote, saved, faults>>

Crash(p) ==
    /\ pc[p] \notin {"new", "end", "dead"} /\ Fault /\ Go(p, "dead")
    /\ made' = [made EXCEPT ![p] = <<>>] /\ attempt' = [attempt EXCEPT ![p] = None]
    /\ UNCHANGED <<kind, file, status, remote, saved, raced>>

Next ==
    \/ \E p \in Runs :
        \/ Begin(p) \/ Reserve(p) \/ Redeem(p) \/ SaveIdentity(p) \/ SaveProfile(p)
        \/ Choose(p) \/ Ask(p) \/ Answer(p) \/ RedeemKey(p) \/ Recover(p) \/ Record(p)
        \/ Check(p) \/ Complete(p) \/ Look(p) \/ Drop(p) \/ Crash(p)
    \/ \E k \in Runs : Decide(k)

Spec == Init /\ [][Next]_vars
-----------------------------------------------------------------------------
TypeOK ==
    /\ DOMAIN file = Paths /\ sent \subseteq Runs /\ enrolled \subseteq Runs /\ saved \subseteq Runs
    /\ \A p \in Runs : Len(made[p]) <= 3

(* Commands of one kind that do not mean to replace an identity.             *)
Alike == \A p, q \in Runs : kind[p] = kind[q] /\ kind[p] # "pair"

(* A key the server has seen is in the journal, and no other is ever shown.  *)
KeyFirst == \A k \in sent : ~Empty("journal") /\ file["journal"].holds.key = k

(* An enrolled key is not lost: the journal or the identity has it.          *)
KeyKept ==
    \A k \in enrolled \cap sent :
        file["journal"].holds.stage # "completed" \/ file["identity"].holds = k

(* An identity is not replaced or removed, and a profile is saved after it.  *)
IdentityStays == \A k \in saved : file["identity"].holds = k
ProfileLast == ~Empty("profile") => saved # {}

(* Commands of different kinds may replace each other's identity, but there  *)
(* is one, unless a release removed what was published after it had looked.  *)
PairedOrRaced == saved # {} => ~Empty("identity") \/ raced

(* Every request of a browser setup is made with a key that is on disk and   *)
(* stays the only one.  Browser setups, or setups with a code, do not touch  *)
(* an identity another has saved, and whatever crashes, an enrolled key can  *)
(* be found again (setupBrowserWorker, setupWorker, pair,                    *)
(* assertIdentityPathIsPrivate, savePrivateJson).                            *)
SetupSafe ==
    /\ TypeOK /\ KeyFirst /\ PairedOrRaced /\ ProfileLast
    /\ Alike => KeyKept /\ IdentityStays
=============================================================================
