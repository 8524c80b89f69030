------------------------------- MODULE Impact -------------------------------
(***************************************************************************)
(* "What would touching this affect?"  The import graph of a repository is *)
(* scanned file by file under hard bounds, then walked backwards from the  *)
(* seeds, breadth first, under others.  A bound that cuts the answer short *)
(* sets a flag.  Files are numbered in the order git lists them, which is  *)
(* also the order in which importers are visited.                          *)
(***************************************************************************)
EXTENDS Naturals, FiniteSets, Sequences

CONSTANTS
    NFiles,
    ImportRelations,   \* bound: the import relations looked at
    Queries,        \* bound: the sets of seeds looked at
    Blobs,          \* bound: the sets of files looked at that exceed max_file_bytes
    Limits          \* GraphLimits and ImpactLimits: files, edges, nodes, depth

Files == 1 .. NFiles

ASSUME KnownLimits ==
    NFiles \in Nat /\ Limits \subseteq [files : Nat, edges : Nat, nodes : Nat, depth : Nat]
ASSUME ImportsAreEdges == ImportRelations \subseteq SUBSET (Files \X Files)
ASSUME SeedsAreFiles == Queries \subseteq SUBSET Files /\ Blobs \subseteq SUBSET Files

VARIABLES
    limit,
    imports,    \* the repository: <<importer, imported>>
    blobs,      \* its files that are too large to be read
    seeds,
    edges,      \* the graph as built so far
    next,       \* the file to be scanned, 0 once the graph is built
    depth,      \* seen: the files found, with their distance
    queue,
    truncated,
    finished

\* sorted(...): the files of S, each once, in their order.
InOrder(S) ==
    CHOOSE s \in [1 .. Cardinality(S) -> S] :
        \A i, j \in 1 .. Cardinality(S) : i < j => s[i] < s[j]

impactVars == <<limit, imports, blobs, seeds, edges, next, depth, queue, truncated, finished>>

ImpactInit ==
    /\ limit \in Limits
    /\ imports \in ImportRelations /\ blobs \in Blobs
    /\ seeds \in Queries /\ \A f \in seeds : f <= limit.files
    /\ edges = {}
    /\ next = 1
    /\ depth = [f \in seeds |-> 0]
    /\ queue = InOrder(seeds)
    /\ truncated = FALSE
    /\ finished = FALSE

\* build_import_graph: the next of the first sources, unless there are
\* edges enough.  A file that cannot be read costs its own edges and no more.
ScanFile ==
    /\ next \in 1 .. limit.files /\ next <= NFiles /\ Cardinality(edges) < limit.edges
    /\ edges' = IF next \in blobs THEN edges
                ELSE edges \cup {e \in imports : e[1] = next /\ e[2] # next}
    /\ next' = next + 1
    /\ UNCHANGED <<limit, imports, blobs, seeds, depth, queue, truncated, finished>>

\* Faulty variant: the files that were left out are forgotten.
ForgetRest ==
    /\ next > 0
    /\ next > NFiles \/ next > limit.files \/ Cardinality(edges) >= limit.edges
    /\ truncated' = (next <= limit.files /\ next <= NFiles)
    /\ next' = 0
    /\ UNCHANGED <<limit, imports, blobs, seeds, edges, depth, queue, finished>>

GraphBuilt ==
    /\ next > 0
    /\ next > NFiles \/ next > limit.files \/ Cardinality(edges) >= limit.edges
    /\ truncated' = (next <= NFiles)
    /\ next' = 0
    /\ UNCHANGED <<limit, imports, blobs, seeds, edges, depth, queue, finished>>

\* The importers of a file that were not seen yet.
Unseen(f) == {e[1] : e \in {x \in edges : x[2] = f}} \ DOMAIN depth

\* compute_impact: one turn of its loop.
Visit ==
    /\ next = 0 /\ ~finished /\ queue # <<>> /\ Cardinality(DOMAIN depth) <= limit.nodes
    /\ LET f == Head(queue)
           found == IF depth[f] < limit.depth THEN Unseen(f) ELSE {}
       IN /\ depth' = [g \in DOMAIN depth \cup found |->
                         IF g \in found THEN depth[f] + 1 ELSE depth[g]]
          /\ queue' = Tail(queue) \o InOrder(found)
    /\ UNCHANGED <<limit, imports, blobs, seeds, edges, next, truncated, finished>>

\* The loop ends: there is nothing left to visit, or too much has been seen.
Finish ==
    /\ next = 0 /\ ~finished
    /\ queue = <<>> \/ Cardinality(DOMAIN depth) > limit.nodes
    /\ truncated' = (truncated \/ queue # <<>>)
    /\ finished' = TRUE
    /\ UNCHANGED <<limit, imports, blobs, seeds, edges, next, depth, queue>>

ImpactNext == ScanFile \/ GraphBuilt \/ Visit \/ Finish

ImpactSpec == ImpactInit /\ [][ImpactNext]_impactVars

-----------------------------------------------------------------------------
(* The reference: what reaches a seed along at most k imports. *)

Affected(relation) ==
    LET within[k \in 0 .. NFiles] ==
          IF k = 0 THEN seeds
          ELSE within[k - 1] \cup {e[1] : e \in {x \in relation : x[2] \in within[k - 1]}}
    IN within

ImpactTypeOK ==
    /\ edges \subseteq imports
    /\ next \in 0 .. NFiles + 1
    /\ DOMAIN depth \subseteq Files
    /\ \A f \in DOMAIN depth : depth[f] \in 0 .. limit.depth
    /\ \A i \in 1 .. Len(queue) : queue[i] \in DOMAIN depth
    /\ {truncated, finished} \subseteq BOOLEAN

\* "depth is the true shortest distance from a seed", in the graph that was
\* built and also when the walk was cut short (compute_impact).
DepthIsDistance ==
    next = 0 => \A f \in DOMAIN depth :
        /\ f \in Affected(edges)[depth[f]]
        /\ \A k \in 0 .. NFiles : k < depth[f] => f \notin Affected(edges)[k]

\* "So nobody mistakes a partial answer for a complete one": an answer without
\* the flag names every file within the depth limit, in the repository as it is,
\* whatever limit was met.  The limit on a file's size is the exception.
UnflaggedIsComplete ==
    finished /\ ~truncated /\ blobs = {} =>
        DOMAIN depth = Affected(imports)[IF limit.depth < NFiles THEN limit.depth ELSE NFiles]

\* What an answer of compute_impact says: distances that are right, and whether
\* it is all there is.
AnswerIsHonest == DepthIsDistance /\ UnflaggedIsComplete

\* What the comment on GraphLimits says of all its bounds (graph.py): exceeding
\* one sets the flag.  A file that is too large is skipped without it.
PartialIsFlagged ==
    finished /\ ~truncated =>
        DOMAIN depth = Affected(imports)[IF limit.depth < NFiles THEN limit.depth ELSE NFiles]

-----------------------------------------------------------------------------
(* Critical paths: the runtime's match "mirrors" the one of the risk signals
   (impact.py).  An entry names a directory in one of the ways teams write it;
   a file lies under that directory, or beside it under a longer name. *)
Entries == {"dir", "dir/", "dir/*"}
Places == {"under", "longer name", "elsewhere"}

\* matchesCriticalPath of lib/agent/signals.ts: stars are dropped, any prefix counts.
SignalsMatch(entry, place) == place = "under" \/ (place = "longer name" /\ entry = "dir")

\* _matches_critical of impact.py: whole path segments, and a star is a name.
ImpactMatch(entry, place) == place = "under" /\ entry # "dir/*"

\* "A file flagged critical in the room's risk signals must not be un-flagged here."
CriticalAgrees == \A e \in Entries, p \in Places : SignalsMatch(e, p) => ImpactMatch(e, p)
=============================================================================
