---------------------------- MODULE MCWorkClaims ----------------------------
(***************************************************************************)
(* Two small instances of WorkClaims over the same variables, each         *)
(* explored in full: a behaviour belongs to one of them.  The constants of *)
(* the module itself cover both, and the properties are stated with them.  *)
(***************************************************************************)
EXTENDS WorkClaims

CONSTANTS o, w1, w2, c1, c2, p, main, feature,
          Instances     \* the instances a run explores

VARIABLE instance

AllPaths   == {<<>>, <<"a">>, <<"a", "b">>, <<"c">>}
AllTasks   == AllPaths \ {<<>>}
TheChoice  == {<<"a">>}
AtRoot     == [s \in Sessions |-> <<>>]
OnePeer    == [s \in Sessions \ Owners |-> p]
\* Every grant at once, and none.
AllOrNothing == {{}, Capabilities}

\* Two workers on one peer credential: a task with a subtask, and a sibling task.
Workers == INSTANCE WorkClaims WITH
    Paths <- AllPaths, Tasks <- AllTasks, Choices <- {}, MemberPaths <- {<<>>},
    Sessions <- {w1, w2}, Owners <- {}, Names <- {main}, Grants <- {Capabilities},
    Lease <- 2, MaxPending <- 1, MaxProposals <- 0,
    Attachment <- [s \in {w1, w2} |-> <<>>], PeerOf <- [s \in {w1, w2} |-> p]

\* An owner and a worker: a choice between two branches, and a task inside it.
Branches == INSTANCE WorkClaims WITH
    Paths <- AllPaths \ {<<"c">>}, Tasks <- {<<"a", "b">>}, Choices <- TheChoice,
    MemberPaths <- {<<>>, <<"a", "b">>}, Sessions <- {o, w1}, Owners <- {o},
    Lease <- 1, MaxPending <- 0, MaxProposals <- 1,
    Attachment <- [s \in {o, w1} |-> <<>>], PeerOf <- [s \in {w1} |-> p]

MCInit == instance \in Instances /\ Init

MCNext ==
    /\ instance' = instance
    /\ \/ instance = "workers" /\ Workers!Next
       \/ instance = "branches" /\ Branches!Next

MCSpec == MCInit /\ [][MCNext]_<<vars, instance>> /\ Fairness

\* `step` labels the step just taken and is read primed only: it splits no states.
StateView == <<claims, granted, member, done, proposals, evals, crashed, instance>>
=============================================================================
