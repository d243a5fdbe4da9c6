--------------------------- MODULE GraphTraversal ---------------------------
(***************************************************************************)
(* PostgreSQLGraphTraversal.expand: a bounded breadth-first expansion of   *)
(* the retrieved chunks along the stored relationships.  Each level is two *)
(* statements in a READ COMMITTED transaction, so the current versions may *)
(* move between any two of them.                                           *)
(***************************************************************************)
EXTENDS Integers, SequencesExt, Lists

CONSTANTS
    Source, Version, ChunkId,
    Holds,         \* <<source, version>> -> its chunk ids
    Link,          \* sf.relationships, of the types asked for:
                   \*   [owner, version, from, to], from and to being nodes
    Published,     \* source -> the version that is current first
    Republished,   \* source -> the versions that an import may make current
    Visible,       \* the nodes that ACL and security model let the subject see
    Score,         \* the scores of hits
    Relevance,     \* node -> score of the node when the search returns it
    Share,         \* <<score, depth>> -> what is left of a score at a depth,
                   \*   score / (depth + 1)
    Place,         \* node -> its place in the order of source_id, chunk_id
    MaxDepth, MaxNodes, Direction,
    Missing        \* current version of a source without one

Node == Source \X ChunkId

ASSUME GraphAssumption ==
    /\ IsFiniteSet(Source) /\ IsFiniteSet(ChunkId)
    /\ Holds \in [Source \X Version -> SUBSET ChunkId]
    /\ Link \subseteq [owner : Source, version : Version, from : Node, to : Node]
    /\ Published \in [Source -> Version \cup {Missing}]
    /\ Republished \in [Source -> SUBSET (Version \cup {Missing})]
    /\ Visible \subseteq Node
    /\ Score \subseteq Int /\ IsFiniteSet(Score)
    /\ Relevance \in [Node -> Score]
    /\ Share \in [Score \X (1..MaxDepth) -> Score]
    /\ Place \in [Node -> Nat] /\ \A m, n \in Node : Place[m] = Place[n] => m = n
    /\ MaxDepth \in Nat \ {0} /\ MaxNodes \in Nat \ {0}
    /\ Direction \in {"outgoing", "incoming", "both"}
    /\ Missing \notin Version

VARIABLES
    current,      \* sf.sources.current_version
    expansion     \* the locals of expand(); worth are the scores of the seeds

graphVars == <<current, expansion>>

\* frontier and proposals are partial functions from nodes to inherited scores.
NoExpansion ==
    [pc |-> "off", depth |-> 0, seeds |-> {}, worth |-> <<>>, frontier |-> <<>>,
     visited |-> {}, proposals |-> <<>>, expanded |-> <<>>, steady |-> TRUE]

GraphTypeOK ==
    /\ current \in [Source -> Version \cup {Missing}]
    /\ expansion.pc \in {"off", "read", "load", "done"}
    /\ expansion.depth \in 0..MaxDepth
    /\ expansion.seeds \subseteq expansion.visited /\ expansion.visited \subseteq Node
    /\ DOMAIN expansion.frontier \subseteq expansion.visited
    /\ DOMAIN expansion.proposals \subseteq Node \ expansion.visited
    /\ expansion.expanded \in
          Seq([node : Visible, depth : 1..MaxDepth, score : Score])
    /\ expansion.steady \in BOOLEAN

GraphInit == current = Published /\ expansion = NoExpansion

-----------------------------------------------------------------------------
(* What a statement sees *)

IsCurrent(n) ==
    current[n[1]] # Missing /\ n[2] \in Holds[<<n[1], current[n[1]]>>]

LiveLinks == {l \in Link : current[l.owner] = l.version}

\* m has a relationship to n that the direction of the request follows.
Leads(m, n) == \E l \in LiveLinks :
    \/ Direction \in {"outgoing", "both"} /\ l.from = m /\ l.to = n
    \/ Direction \in {"incoming", "both"} /\ l.from = n /\ l.to = m

Highest(S) == CHOOSE x \in S : \A y \in S : y <= x

-----------------------------------------------------------------------------
(* expand *)

\* worth: the nodes of the request's hits, with their scores.
BeginExpansion(worth) ==
    expansion' = [NoExpansion EXCEPT !.pc = "read", !.depth = 1,
                    !.seeds = DOMAIN worth, !.worth = worth, !.visited = DOMAIN worth,
                    !.frontier = worth]

\* _proposals, with _select_proposal keeping the best parent of each node.
ReadRelationships ==
    LET frontier == expansion.frontier
        reached == {n \in Node \ expansion.visited : \E m \in DOMAIN frontier : Leads(m, n)}
    IN
    /\ expansion.pc = "read"
    /\ expansion' = [expansion EXCEPT
          !.proposals = [n \in reached |->
                           Highest({frontier[m] : m \in {x \in DOMAIN frontier : Leads(x, n)}})],
          !.pc = IF reached = {} THEN "done" ELSE "load"]
    /\ UNCHANGED current

\* Best score first, then by source and chunk identifier.
Better(proposals, m, n) ==
    \/ proposals[m] > proposals[n]
    \/ proposals[m] = proposals[n] /\ Place[m] < Place[n]

Smaller(m, n) == IF m < n THEN m ELSE n

ByScore(nodes, score) ==
    Ordered(nodes, {mn \in nodes \X nodes : Better(score, mn[1], mn[2])})

\* The proposals that the second statement returns, in the order in which they are taken.
Loaded ==
    ByScore({n \in DOMAIN expansion.proposals : IsCurrent(n) /\ n \in Visible},
            expansion.proposals)

\* Mutant: what was taken may be proposed again.
TakeUnvisited(taken, crossed, full) ==
    LET last == full \/ crossed = {} \/ expansion.depth = MaxDepth IN
    expansion' = [expansion EXCEPT
        !.expanded = @ \o [i \in 1..Len(taken) |->
              [node |-> taken[i], depth |-> expansion.depth,
               score |-> expansion.proposals[taken[i]]]],
        !.frontier = [n \in crossed |-> expansion.proposals[n]],
        !.proposals = <<>>,
        !.depth = IF last THEN @ ELSE @ + 1,
        !.pc = IF last THEN "done" ELSE "read"]

\* A level ends the expansion when it is the last one or found nothing new.
Take(taken, crossed, full) ==
    LET last == full \/ crossed = {} \/ expansion.depth = MaxDepth IN
    expansion' = [expansion EXCEPT
        !.expanded = @ \o [i \in 1..Len(taken) |->
              [node |-> taken[i], depth |-> expansion.depth,
               score |-> expansion.proposals[taken[i]]]],
        !.visited = @ \cup ToSet(taken),
        !.frontier = [n \in crossed |-> expansion.proposals[n]],
        !.proposals = <<>>,
        !.depth = IF last THEN @ ELSE @ + 1,
        !.pc = IF last THEN "done" ELSE "read"]

Room == MaxNodes - Len(expansion.expanded)

\* Mutants: forbidden and unpublished nodes are crossed; the limit holds for each level.
LoadChunksCrossing ==
    LET taken == SubSeq(Loaded, 1, Smaller(Len(Loaded), Room)) IN
    /\ expansion.pc = "load"
    /\ Take(taken, DOMAIN expansion.proposals, Len(taken) = Room)
    /\ UNCHANGED current
LoadChunksPerLevel ==
    LET taken == SubSeq(Loaded, 1, Smaller(Len(Loaded), MaxNodes)) IN
    /\ expansion.pc = "load"
    /\ Take(taken, ToSet(taken), Len(taken) = MaxNodes)
    /\ UNCHANGED current

\* _load_chunks and the loop over its rows, which returns as soon as there are
\* max_nodes hits.  A proposal without a row is neither returned nor crossed.
LoadChunks ==
    LET taken == SubSeq(Loaded, 1, Smaller(Len(Loaded), Room)) IN
    /\ expansion.pc = "load"
    /\ Take(taken, ToSet(taken), Len(taken) = Room)
    /\ UNCHANGED current

Expand == ReadRelationships \/ LoadChunks

\* An import makes another version of a source current, or deletes the source.  What it
\* does while no expansion runs is the choice of Published.
Republish(s) ==
    /\ expansion.pc \in {"read", "load"}
    /\ \E v \in Republished[s] \ {current[s]} : current' = [current EXCEPT ![s] = v]
    /\ expansion' = [expansion EXCEPT !.steady = FALSE]

-----------------------------------------------------------------------------
(* Properties *)

NodesFound == {expansion.expanded[i].node : i \in 1..Len(expansion.expanded)}

\* Whatever is published meanwhile, an expansion returns at most max_nodes hits,
\* never the same chunk twice, never one of its seeds, and depths that only grow.
ExpansionBounded ==
    LET found == expansion.expanded IN
    /\ Len(found) <= MaxNodes
    /\ NodesFound \cap expansion.seeds = {}
    /\ \A i, j \in 1..Len(found) : i < j =>
          found[i].node # found[j].node /\ found[i].depth <= found[j].depth

\* The nodes within d visible and current hops of a set of seeds.
Within(seeds) ==
    LET reach[d \in 0..MaxDepth] ==
          IF d = 0 THEN seeds
          ELSE reach[d - 1] \cup
               {n \in Visible : IsCurrent(n) /\ \E m \in reach[d - 1] : Leads(m, n)}
    IN reach

\* The number of hops to a node, and the score of the best seed at that distance.
Distance(seeds, n) == CHOOSE d \in 0..MaxDepth :
    n \in Within(seeds)[d] /\ \A e \in 0..(d - 1) : n \notin Within(seeds)[e]
BestSeed(seeds, worth, n) ==
    Highest({worth[s] : s \in {x \in seeds : n \in Within({x})[Distance(seeds, n)]}})

Ahead(seeds, worth, m, n) ==
    \/ Distance(seeds, m) < Distance(seeds, n)
    \/ /\ Distance(seeds, m) = Distance(seeds, n)
       /\ \/ BestSeed(seeds, worth, m) > BestSeed(seeds, worth, n)
          \/ BestSeed(seeds, worth, m) = BestSeed(seeds, worth, n) /\ Place[m] < Place[n]

\* An expansion during which nothing was published is what a definition by paths says:
\* every hit at its shortest distance over visible chunks, with the score of the best
\* seed at that distance; all of them, or the best max_nodes of them.
ExpansionIsShortest ==
    LET seeds == expansion.seeds
        worth == expansion.worth
        reachable == Within(seeds)[MaxDepth] \ seeds
    IN
    expansion.pc = "done" /\ expansion.steady =>
        /\ NodesFound \subseteq reachable
        /\ \A i \in 1..Len(expansion.expanded) : LET hit == expansion.expanded[i] IN
              /\ hit.depth = Distance(seeds, hit.node)
              /\ hit.score = BestSeed(seeds, worth, hit.node)
        /\ \A n \in reachable \ NodesFound :
              /\ Len(expansion.expanded) = MaxNodes
              /\ \A m \in NodesFound : Ahead(seeds, worth, m, n)
=============================================================================
