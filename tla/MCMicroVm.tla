----------------------------- MODULE MCMicroVm ------------------------------
(* MicroVMs on small instances: a runtime session, and a hosted            *)
(* application of two revisions.                                           *)
EXTENDS RuntimeSession, Sequences, TLC

CONSTANTS r1, r2, a, b

VARIABLES
    which,  \* the component this behaviour is about
    y1, y2, y3, y4, y5, y6, y7, y8, y9, y10, y11, y12, y13, y14, y15, y16  \* its variables

shared == <<y1, y2, y3, y4, y5, y6, y7, y8, y9, y10, y11, y12, y13, y14, y15,
            y16>>

H == INSTANCE HostedApp WITH
    Calls <- {a, b}, Revs <- {r1, r2}, MaxGen <- 2, MaxSource <- 2,
    MaxFaults <- 1, Late <- FALSE, appLock <- y1, record <- y2, age <- y3,
    retained <- y4, gen <- y5, vm <- y6, app <- y7, rerun <- y8, stray <- y9,
    op <- y10, want <- y11, pc <- y12, seen <- y13, fix <- y14, tok <- y15,
    faults <- y16

(* Each behaviour is one of one component; variables it has no use for     *)
(* stay None.                                                              *)
Rests == Init

UnionInit ==
    \/ /\ which = "session" /\ Init
       /\ y1 = None /\ y2 = None /\ y3 = None /\ y4 = None /\ y5 = None
       /\ y6 = None /\ y7 = None /\ y8 = None /\ y9 = None /\ y10 = None
       /\ y11 = None /\ y12 = None /\ y13 = None /\ y14 = None /\ y15 = None
       /\ y16 = None
    \/ /\ which = "app" /\ H!Init /\ Rests

UnionNext ==
    \/ which = "session" /\ Next /\ UNCHANGED <<which, shared>>
    \/ /\ which = "app" /\ H!Next
       /\ UNCHANGED <<which, vars>>

UnionSpec == UnionInit /\ [][UnionNext]_<<which, vars, shared>>

Symmetry == Permutations({a, b}) \cup Permutations({r1, r2})

(* What a publisher may rely on: no machine is lost, and the one that runs *)
(* shows the exact revision.                                               *)
AppSafe == which = "app" => H!AppSafe

=============================================================================
