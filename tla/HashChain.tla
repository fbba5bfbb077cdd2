----------------------------- MODULE HashChain -----------------------------
(***************************************************************************)
(* What the custody loop promises to whoever later reads the trust buffer: *)
(* every print session is one append-only hash chain.  A link says which   *)
(* session it belongs to, its position, the hash of its predecessor and    *)
(* its own hash.  The only thing that may ever happen is that one session  *)
(* grows by its next link.  Nothing is said about how a link is produced,  *)
(* when, or by whom: the packetizer, its failures and its crashes are all  *)
(* hidden behind this specification.                                       *)
(*                                                                         *)
(* LossyChainSpec is the promise that is left when the power can fail: a   *)
(* session may lose links from its end, and never one from its middle.     *)
(***************************************************************************)
EXTENDS Naturals

VARIABLE chain          \* the set of links recorded so far

\* `next' may follow what is recorded: it opens its session, without a
\* predecessor, or it names the hash of the link at the position before it.
Extends(next) ==
    \/ next.seq = 0 /\ next.prev = <<>>
    \/ \E link \in chain : /\ link.session = next.session
                           /\ next.seq = link.seq + 1
                           /\ next.prev = link.hash

Unused(next) ==
    \A link \in chain : link.session = next.session => link.seq # next.seq

AppendLink(next) ==
    /\ Unused(next)
    /\ Extends(next)
    /\ chain' = chain \cup {next}

ChainInit == chain = {}

\* The only link a step can add is the one that is in chain' and not in chain.
ChainNext == \E next \in chain' : AppendLink(next)

ChainSpec == ChainInit /\ [][ChainNext]_chain

LoseTails ==
    /\ chain' \subseteq chain
    /\ \A kept \in chain', link \in chain :
          (link.session = kept.session /\ link.seq < kept.seq) => link \in chain'

LossyChainSpec == ChainInit /\ [][ChainNext \/ LoseTails]_chain
=============================================================================
