------------------------------ MODULE BlockSync ------------------------------
(***************************************************************************)
(* Block download between full nodes, apps/node/src/p2p.ts: the only way   *)
(* blocks travel from node to node, since broadcasting one throws.  Each   *)
(* node runs passes over its peers; with each peer it holds one            *)
(* conversation, get_tip, locate (once or twice), then get_blocks page by  *)
(* page, and decides after every reply with the chain it has by then.      *)
(* Replies may come late, or never.                                        *)
(*                                                                         *)
(* A block is its path from genesis: a sequence of [by, work], one for     *)
(* each block below it, so its height is the length and its ancestors are  *)
(* the prefixes; genesis is the empty sequence.  What consensus makes of   *)
(* blocks is the fork choice proved of Chain; all blocks here are valid.   *)
(***************************************************************************)
EXTENDS Integers, Sequences, SequencesExt, FiniteSets

CONSTANTS
  Nodes,
  Networks,             \* see NetworkType
  Works,                \* the work a block may carry
  NoReply,              \* what a pending request has
  MaxTimeouts           \* bound on requests that get no answer

\* A network: the full nodes each node is connected to, in order; the nodes that
\* mine, whether they go on after the partition heals, and a bound on the heights;
\* the heights up to which the nodes agreed when they parted; and the constants
\* LOCATE_MAX_HASHES, BLOCKS_PAGE_SIZE and MAX_BLOCKS_PER_SYNC_RUN.
NetworkType ==
  [peers: [Nodes -> Seq(Nodes)], miners: SUBSET Nodes, mineWhileLinked: BOOLEAN,
   maxHeight: Nat, sharedHeights: SUBSET Nat,
   locateMaxHashes: Nat \ {0}, blocksPageSize: Nat \ {0}, maxBlocksPerRun: Nat \ {0}]

ASSUME SyncAssumption == Works \subseteq Nat \ {0} /\ Networks \subseteq NetworkType

VARIABLES
  network,              \* the network, which stays as it is
  linked,               \* whether the nodes can reach each other
  known,                \* node -> blocks its chain holds
  best,                 \* node -> its best block
  targets,              \* node -> peers left in the pass under way
  sync,                 \* node -> its conversation, or Idle
  timeouts

vars == <<network, linked, known, best, targets, sync, timeouts>>

-----------------------------------------------------------------------------
\* Chains.

Genesis == <<>>
Height(block) == Len(block)
totalWork(block) == FoldLeft(LAMBDA sum, part : sum + part.work, 0, block)
chainAtHeight(head, height) == SubSeq(head, 1, height)

\* Defect: a block can only extend the best one.
addBlock_NoReorg(chain, block) ==
  IF block \in chain.known \/ Front(block) \notin chain.known THEN chain
  ELSE [known |-> chain.known \cup {block},
        best  |-> IF Front(block) = chain.best THEN block ELSE chain.best]

\* ConsensusChain.addBlock on [known, best] ...
addBlock(chain, block) ==
  IF block \in chain.known \/ Front(block) \notin chain.known THEN chain
  ELSE [known |-> chain.known \cup {block},
        best  |-> IF totalWork(block) > totalWork(chain.best) THEN block ELSE chain.best]

\* ... through handlePeerBlock, which swallows what it throws.
handlePeerBlocks(node, blocks) ==
  FoldLeft(addBlock, [known |-> known[node], best |-> best[node]], blocks)

-----------------------------------------------------------------------------
\* Conversations.

Idle == [peer |-> "none"]

Ask(node, session, request) ==
  sync' = [sync EXCEPT ![node] =
             [session EXCEPT !.request = request, !.reply = NoReply]]

Finish(node) == sync' = [sync EXCEPT ![node] = Idle]

Awaits(node, type) ==
  /\ sync[node] # Idle
  /\ sync[node].request.type = type
  /\ sync[node].reply = NoReply

Answered(node, type) ==
  /\ sync[node] # Idle
  /\ sync[node].request.type = type
  /\ sync[node].reply # NoReply

\* The peer answers from the chain it has when it reads the request.
Answer(node, reply) ==
  /\ sync' = [sync EXCEPT ![node].reply = reply]
  /\ UNCHANGED <<network, linked, known, best, targets, timeouts>>

serveTip(node) == Awaits(node, "get_tip") /\ Answer(node, best[sync[node].peer])

\* The position of the first hash the peer's chain holds, zero for none.
serveLocate(node) ==
  /\ Awaits(node, "locate")
  /\ LET hashes == SubSeq(sync[node].request.hashes, 1,
                          IF Len(sync[node].request.hashes) > network.locateMaxHashes
                          THEN network.locateMaxHashes ELSE Len(sync[node].request.hashes))
     IN  Answer(node, SelectInSeq(hashes, LAMBDA hash : hash \in known[sync[node].peer]))

serveBlocks(node) ==
  /\ Awaits(node, "get_blocks")
  /\ LET head  == best[sync[node].peer]
         start == sync[node].request.start
         stop  == IF start + network.blocksPageSize - 1 < Height(head)
                  THEN start + network.blocksPageSize - 1 ELSE Height(head)
     IN  Answer(node, [i \in 1..(stop - start + 1) |-> chainAtHeight(head, start + i - 1)])

-----------------------------------------------------------------------------
\* syncWithSocket and locateForkAnchor, from reply to reply.

CeilDiv(a, b) == (a + b - 1) \div b

\* Own blocks at high, high - step, ... down to low.
SamplesBetween(node, low, high, step) ==
  LET heights == SelectSeq([i \in 1..((high - low) \div step + 1) |-> high - (i - 1) * step],
                           LAMBDA height : height <= Height(best[node]))
  IN  [i \in DOMAIN heights |-> chainAtHeight(best[node], heights[i])]

Samples(node) ==
  LET height == Height(best[node])
      some   == SamplesBetween(node, 0, height, CeilDiv(height + 1, network.locateMaxHashes))
  IN  IF Last(some) = Genesis THEN some ELSE Append(some, Genesis)

RefineSamples(node, anchor, upper) ==
  LET step == CeilDiv(upper - anchor, network.locateMaxHashes)
  IN  SamplesBetween(node, anchor + 1, upper - step, step)

\* Defect: a page starts one height too late.
GetBlocks_Late(height) == [type |-> "get_blocks", start |-> height + 1]

GetBlocks(height) == [type |-> "get_blocks", start |-> height]
Locate(hashes, refines) == [type |-> "locate", hashes |-> hashes, refines |-> refines]

\* A peer is of interest only when its chain is both longer and heavier.
WorthFetching(node, tip) ==
  /\ Height(tip) > Height(best[node])
  /\ totalWork(tip) > totalWork(best[node])

receiveTip(node) ==
  LET tip == sync[node].reply
  IN  /\ Answered(node, "get_tip")
      /\ \/ /\ ~WorthFetching(node, tip)
            /\ Finish(node)
         \/ /\ WorthFetching(node, tip)
            /\ Ask(node, [sync[node] EXCEPT !.tip = Height(tip)],
                   IF tip \in known[node] THEN GetBlocks(Height(best[node]) + 1)
                   ELSE Locate(Samples(node), FALSE))
      /\ UNCHANGED <<network, linked, known, best, targets, timeouts>>

\* The anchor is the highest sample the peer holds; a second round looks for
\* a higher one below the next sample.
receiveAnchor(node) ==
  LET session == sync[node]
      index   == session.reply
      hashes  == session.request.hashes
      anchor  == Height(hashes[index])
      upper   == IF index > 1 THEN Height(hashes[index - 1]) ELSE anchor
      refined == RefineSamples(node, anchor, upper)
  IN  /\ Answered(node, "locate") /\ ~session.request.refines
      /\ \/ index = 0 /\ Finish(node)
         \/ /\ index # 0
            /\ Ask(node, [session EXCEPT !.anchor = anchor],
                   IF upper - anchor > 1 /\ refined # <<>> THEN Locate(refined, TRUE)
                   ELSE GetBlocks(anchor))
      /\ UNCHANGED <<network, linked, known, best, targets, timeouts>>

receiveRefinement(node) ==
  LET session == sync[node]
  IN  /\ Answered(node, "locate") /\ session.request.refines
      /\ Ask(node, session,
             GetBlocks(IF session.reply = 0 THEN session.anchor
                       ELSE Height(session.request.hashes[session.reply])))
      /\ UNCHANGED <<network, linked, known, best, targets, timeouts>>

\* A whole page is fed to consensus; a rejected block does not stop it.
receiveBlocks(node) ==
  LET session == sync[node]
      items   == session.reply
      fetched == session.fetched + Len(items)
      next    == session.request.start + Len(items)
      after   == handlePeerBlocks(node, items)
  IN  /\ Answered(node, "get_blocks")
      /\ known' = [known EXCEPT ![node] = after.known]
      /\ best' = [best EXCEPT ![node] = after.best]
      /\ IF items = <<>> \/ next > session.tip \/ fetched >= network.maxBlocksPerRun
         THEN Finish(node)
         ELSE Ask(node, [session EXCEPT !.fetched = fetched], GetBlocks(next))
      /\ UNCHANGED <<network, linked, targets, timeouts>>

-----------------------------------------------------------------------------
\* Passes, and what happens around them.

\* The timer fires: a pass over the connected full nodes begins.
runSyncPass(node) ==
  /\ linked /\ sync[node] = Idle /\ targets[node] = <<>>
  /\ targets' = [targets EXCEPT ![node] = network.peers[node]]
  /\ UNCHANGED <<network, linked, known, best, sync, timeouts>>

syncWithSocket(node) ==
  /\ sync[node] = Idle /\ targets[node] # <<>>
  /\ sync' = [sync EXCEPT ![node] =
                [peer |-> Head(targets[node]), request |-> [type |-> "get_tip"],
                 reply |-> NoReply, tip |-> 0, anchor |-> 0, fetched |-> 0]]
  /\ targets' = [targets EXCEPT ![node] = Tail(@)]
  /\ UNCHANGED <<network, linked, known, best, timeouts>>

\* Defect: whoever awaits the request is never told.
requestFails_Silently(node) ==
  /\ timeouts < MaxTimeouts
  /\ sync[node] # Idle
  /\ timeouts' = timeouts + 1
  /\ sync' = [sync EXCEPT ![node].request = [type |-> "lost"]]
  /\ UNCHANGED <<network, linked, known, best, targets>>

\* A request is rejected, by its timer or by the close of the socket; its
\* answer finds nothing waiting for it.
requestFails(node) ==
  /\ timeouts < MaxTimeouts
  /\ sync[node] # Idle
  /\ timeouts' = timeouts + 1
  /\ Finish(node)
  /\ UNCHANGED <<network, linked, known, best, targets>>

\* A miner extends the best block of its node.
mine(node, work) ==
  LET block == Append(best[node], [by |-> node, work |-> work])
  IN  /\ network.mineWhileLinked \/ ~linked
      /\ Height(block) <= network.maxHeight
      /\ known' = [known EXCEPT ![node] = @ \cup {block}]
      /\ best' = [best EXCEPT ![node] = block]
      /\ UNCHANGED <<network, linked, targets, sync, timeouts>>

Link ==
  /\ ~linked
  /\ linked' = TRUE
  /\ UNCHANGED <<network, known, best, targets, sync, timeouts>>

-----------------------------------------------------------------------------
\* The blocks every node had when the partition began.
Trunk(height) == [i \in 1..height |-> [by |-> "all", work |-> CHOOSE work \in Works : TRUE]]

Init ==
  /\ network \in Networks
  /\ linked = FALSE
  /\ \E shared \in network.sharedHeights :
       /\ known = [node \in Nodes |-> {Trunk(height) : height \in 0..shared}]
       /\ best = [node \in Nodes |-> Trunk(shared)]
  /\ targets = [node \in Nodes |-> <<>>]
  /\ sync = [node \in Nodes |-> Idle]
  /\ timeouts = 0

Converse(node) ==
  \/ runSyncPass(node) \/ syncWithSocket(node)
  \/ serveTip(node) \/ serveLocate(node) \/ serveBlocks(node)
  \/ receiveTip(node) \/ receiveAnchor(node) \/ receiveRefinement(node)
  \/ receiveBlocks(node)

Next ==
  \/ \E node \in Nodes : Converse(node)
  \/ \E node \in Nodes : requestFails(node)
  \/ \E node \in network.miners, work \in Works : mine(node, work)
  \/ Link

\* Timers fire, sockets deliver, and replies resume whoever awaits them.
Fairness == \A node \in Nodes : WF_vars(Converse(node))

Spec == Init /\ [][Next]_vars /\ Fairness

-----------------------------------------------------------------------------
\* Properties.

\* When a page is asked for, the block of the peer's chain right below it is
\* one the node holds: what will arrive attaches to its tree.
FetchAttaches ==
  \A node \in Nodes :
    Awaits(node, "get_blocks") =>
      chainAtHeight(best[sync[node].peer], sync[node].request.start - 1) \in known[node]

\* A node that hears of a longer and heavier chain ends up with one as heavy,
\* whichever way the branches parted, once mining has stopped.
LongerHeavierChainWins ==
  \A node \in Nodes : \A peer \in Nodes :
    (linked /\ ~network.mineWhileLinked /\ peer \in Range(network.peers[node])
       /\ WorthFetching(node, best[peer]))
      ~> (totalWork(best[node]) >= totalWork(best[peer]))

\* With one miner, who goes on mining, every node, also one that hears of it
\* through another only, ends up with the last block and stays there.
NodesConverge ==
  (linked /\ Cardinality(network.miners) = 1)
    ~> [](\A node, other \in Nodes : best[node] = best[other])

=============================================================================
