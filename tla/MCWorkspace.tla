---------------------------- MODULE MCWorkspace ----------------------------
(***************************************************************************)
(* The parts of a room beside its runs: the board, the members, playbooks, *)
(* deliveries, impact queries and evidence reports.  No two of the modules *)
(* share a variable, so what each can reach beside the others is what it   *)
(* can reach alone; `part` names the one that moves.                       *)
(***************************************************************************)
EXTENDS Board, Room, Playbooks, Delivery, Impact, Evidence, FiniteSetsExt, TLC

CONSTANTS a1, a2, b1, b2, c1, c2

VARIABLE part

Parts == {"board", "room", "playbooks", "delivery", "impact", "evidence"}

\* A symmetric pair of values serves as members in one part, as requests in another.
Symmetric == Permutations({a1, a2}) \cup Permutations({b1, b2}) \cup Permutations({c1, c2})

Loopless == {e \in (1 .. NFiles) \X (1 .. NFiles) : e[1] # e[2]}
ImportsLookedAt == UNION {kSubset(k, Loopless) : k \in 0 .. 3}
QueriesLookedAt == {{1}, {3}, {1, 2}}
BlobsLookedAt == {{}, {2}}
Bounds(f, e, n, d) == [files |-> f, edges |-> e, nodes |-> n, depth |-> d]
LimitsLookedAt == {Bounds(4, 9, 9, 2), Bounds(3, 9, 9, 3), Bounds(4, 2, 9, 3), Bounds(4, 9, 2, 3)}

\* Repositories and titles are interchangeable: one first choice stands for all.
DeliveryFirst == active = (CHOOSE r \in Repositories : TRUE) /\ heading = CHOOSE h \in Headings : TRUE
\* One initial state stands for all while another part moves.
ImpactAtRest == imports = {} /\ blobs = {} /\ seeds = {1} /\ limit = Bounds(4, 9, 9, 2)

WorkspaceInit ==
    /\ part \in Parts
    /\ BoardInit /\ RoomInit /\ PlaybooksInit /\ DeliveryInit
    /\ ImpactInit /\ EvidenceInit
    /\ DeliveryFirst
    /\ part # "impact" => ImpactAtRest

WorkspaceNext ==
    /\ UNCHANGED part
    /\ \/ /\ part = "board" /\ BoardNext
          /\ UNCHANGED <<roomVars, playbookVars, deliveryVars, impactVars, evidenceVars>>
       \/ /\ part = "room" /\ RoomNext
          /\ UNCHANGED <<boardVars, playbookVars, deliveryVars, impactVars, evidenceVars>>
       \/ /\ part = "playbooks" /\ PlaybooksNext
          /\ UNCHANGED <<boardVars, roomVars, deliveryVars, impactVars, evidenceVars>>
       \/ /\ part = "delivery" /\ DeliveryNext
          /\ UNCHANGED <<boardVars, roomVars, playbookVars, impactVars, evidenceVars>>
       \/ /\ part = "impact" /\ ImpactNext
          /\ UNCHANGED <<boardVars, roomVars, playbookVars, deliveryVars, evidenceVars>>
       \/ /\ part = "evidence" /\ EvidenceNext
          /\ UNCHANGED <<boardVars, roomVars, playbookVars, deliveryVars, impactVars>>

WorkspaceSpec ==
    /\ WorkspaceInit
    /\ [][WorkspaceNext]_<<part, boardVars, roomVars, playbookVars, deliveryVars, impactVars, evidenceVars>>
=============================================================================
