------------------------------ MODULE Discovery ------------------------------
(***************************************************************************)
(* Finding peers in the DHT (discovery/dht.go), and its two callers: the   *)
(* /discover command (main.go) and a tab (web.go).                         *)
(*                                                                         *)
(* One search is four parties.  FindPeers of libp2p puts what it finds     *)
(* into peerChan until searchCtx is cancelled.  A forwarder passes it on   *)
(* to outChan, which has no buffer.  A watcher cancels searchCtx when the  *)
(* caller's context ends.  The caller receives for five seconds.  The      *)
(* context of a command ends when the command does; a tab gives the        *)
(* context of the whole program.                                           *)
(***************************************************************************)
EXTENDS Integers

CONSTANTS Searches,   \* calls of DiscoverPeers
          Boots,      \* the bootstrap peers
          MaxFound    \* bound on what one search finds

ASSUME FoundAssumption == MaxFound \in Nat

VARIABLES main,       \* what main does: "starting", "bootstrapping", "ready", "closed"
          boot,       \* boot[b]: "dialling", "ok" or "failed"
          caller,     \* caller[s]: "idle", "receiving" or "gone"
          by,         \* by[s]: "cli" or "web", once there is a caller
          ctx,        \* ctx[s]: the caller's context, "live" or "cancelled"
          searchCtx,  \* searchCtx[s], without what it inherits from d.ctx
          watcher,    \* watcher[s]: "none", "waiting" or "ended"
          forwarder,  \* forwarder[s]: "none", "select", "sending" or "ended"
          peerChan,   \* peerChan[s]: "empty", "peer", "self" or "closed"
          found       \* found[s]: what FindPeers has put into it

contexts == <<ctx, searchCtx>>
search   == <<caller, by, contexts, watcher, forwarder, peerChan, found>>
program  == <<main, boot>>

DiscoveryInit ==
  /\ main = "starting" /\ boot = [b \in Boots |-> "dialling"]
  /\ caller = [s \in Searches |-> "idle"] /\ by = [s \in Searches |-> "nobody"]
  /\ ctx = [s \in Searches |-> "live"] /\ searchCtx = [s \in Searches |-> "live"]
  /\ watcher = [s \in Searches |-> "none"] /\ forwarder = [s \in Searches |-> "none"]
  /\ peerChan = [s \in Searches |-> "empty"] /\ found = [s \in Searches |-> 0]

\* searchCtx.Done(): cancelled itself, or through d.ctx.
Cancelled(s) == searchCtx[s] = "cancelled" \/ main = "closed"

-----------------------------------------------------------------------------
(* The service, as main starts and ends it.                                *)

\* NewDHTService succeeds or fails; main sets sm.dht or returns.
NewDHTService ==
  /\ main = "starting" /\ main' \in {"bootstrapping", "closed"}
  /\ UNCHANGED <<boot, search>>

\* Bootstrap: one goroutine per bootstrap peer.
Dial(b) ==
  /\ main = "bootstrapping" /\ boot[b] = "dialling"
  /\ \E result \in {"ok", "failed"} : boot' = [boot EXCEPT ![b] = result]
  /\ UNCHANGED <<main, search>>

\* Its end: wg.Wait, and an error unless some peer answered; main then returns,
\* with the deferred Close.
Bootstrapped ==
  /\ main = "bootstrapping" /\ \A b \in Boots : boot[b] # "dialling"
  /\ main' = IF \E b \in Boots : boot[b] = "ok" THEN "ready" ELSE "closed"
  /\ UNCHANGED <<boot, search>>

\* Close, which main defers: it cancels d.ctx.
Close == main = "ready" /\ main' = "closed" /\ UNCHANGED <<boot, search>>

-----------------------------------------------------------------------------
(* A search.                                                               *)

\* discoverPeers and handleDiscoverPeers: nothing without a service, else
\* DiscoverPeers, which starts the watcher, FindPeers and the forwarder.
DiscoverPeers(s, who) ==
  /\ caller[s] = "idle" /\ main \notin {"starting", "closed"}
  /\ caller' = [caller EXCEPT ![s] = "receiving"] /\ by' = [by EXCEPT ![s] = who]
  /\ watcher' = [watcher EXCEPT ![s] = "waiting"]
  /\ forwarder' = [forwarder EXCEPT ![s] = "select"]
  /\ UNCHANGED <<contexts, peerChan, found>>

\* The deferred cancel of a command; a tab has none.
Cancel(s, who) == ctx' = IF who = "cli" THEN [ctx EXCEPT ![s] = "cancelled"] ELSE ctx

\* FindPeers returns an error: searchCtx is cancelled and the caller told.
FindPeersFails(s, who) ==
  /\ caller[s] = "idle" /\ main \notin {"starting", "closed"}
  /\ caller' = [caller EXCEPT ![s] = "gone"] /\ by' = [by EXCEPT ![s] = who]
  /\ Cancel(s, who)
  /\ watcher' = [watcher EXCEPT ![s] = "waiting"]
  /\ searchCtx' = [searchCtx EXCEPT ![s] = "cancelled"]
  /\ UNCHANGED <<forwarder, peerChan, found>>

\* Slip for SearchStops: only the end of the search itself is watched.
WatchSearchOnly(s) ==
  /\ watcher[s] = "waiting" /\ Cancelled(s)
  /\ watcher' = [watcher EXCEPT ![s] = "ended"]
  /\ UNCHANGED <<caller, by, contexts, forwarder, peerChan, found>>

\* The watcher: whichever context ends first.
Watch(s) ==
  /\ watcher[s] = "waiting" /\ (ctx[s] = "cancelled" \/ Cancelled(s))
  /\ watcher' = [watcher EXCEPT ![s] = "ended"]
  /\ searchCtx' = IF ctx[s] = "cancelled" THEN [searchCtx EXCEPT ![s] = "cancelled"]
                  ELSE searchCtx
  /\ UNCHANGED <<caller, by, ctx, forwarder, peerChan, found>>

\* The forwarder takes what was found; the own host, and a peer without an
\* address, is skipped.
TakePeer(s) ==
  /\ forwarder[s] = "select" /\ peerChan[s] \in {"peer", "self"}
  /\ forwarder' = [forwarder EXCEPT ![s] = IF peerChan[s] = "peer" THEN "sending" ELSE @]
  /\ peerChan' = [peerChan EXCEPT ![s] = "empty"]
  /\ UNCHANGED <<caller, by, contexts, watcher, found>>

\* It ends when it sees searchCtx cancelled or peerChan closed, cancels
\* searchCtx and closes outChan.
ForwarderEnds(s) ==
  /\ forwarder[s] = "select" /\ (Cancelled(s) \/ peerChan[s] = "closed")
  /\ forwarder' = [forwarder EXCEPT ![s] = "ended"]
  /\ searchCtx' = [searchCtx EXCEPT ![s] = "cancelled"]
  /\ UNCHANGED <<caller, by, ctx, watcher, peerChan, found>>

\* Send and receive on outChan meet; the forwarder watches nothing else.
Receive(s) ==
  /\ caller[s] = "receiving" /\ forwarder[s] = "sending"
  /\ forwarder' = [forwarder EXCEPT ![s] = "select"]
  /\ UNCHANGED <<caller, by, contexts, watcher, peerChan, found>>

\* Slip for LineEnds: the caller waits for the end of outChan only.
StopReceivingAtEnd(s) ==
  /\ caller[s] = "receiving" /\ forwarder[s] = "ended"
  /\ caller' = [caller EXCEPT ![s] = "gone"] /\ Cancel(s, by[s])
  /\ UNCHANGED <<by, searchCtx, watcher, forwarder, peerChan, found>>

\* The caller's loop ends: five seconds are over, or its context, or outChan.
StopReceiving(s) ==
  /\ caller[s] = "receiving"
  /\ caller' = [caller EXCEPT ![s] = "gone"] /\ Cancel(s, by[s])
  /\ UNCHANGED <<by, searchCtx, watcher, forwarder, peerChan, found>>

\* A command's context ends after 30 seconds.
Expire(s) ==
  /\ caller[s] = "receiving" /\ by[s] = "cli"
  /\ Cancel(s, by[s])
  /\ UNCHANGED <<caller, by, searchCtx, watcher, forwarder, peerChan, found>>

\* FindPeers of libp2p: it finds peers, and ends at any time.
FindPeers(s) ==
  /\ forwarder[s] # "none" /\ peerChan[s] = "empty"
  /\ \E k \in {"peer", "self", "closed"} :
       /\ k # "closed" => found[s] < MaxFound /\ ~Cancelled(s)
       /\ peerChan' = [peerChan EXCEPT ![s] = k]
       /\ found' = IF k = "closed" THEN found ELSE [found EXCEPT ![s] = @ + 1]
  /\ UNCHANGED <<caller, by, contexts, watcher, forwarder>>

\* What the goroutines of a search do by themselves.
Goroutines(s) == Watch(s) \/ TakePeer(s) \/ ForwarderEnds(s) \/ Receive(s)

SearchStep(s) ==
  /\ Goroutines(s) \/ StopReceiving(s) \/ Expire(s) \/ FindPeers(s)
  /\ UNCHANGED program

\* main and what it starts.
ProgramStep == NewDHTService \/ Bootstrapped \/ Close \/ \E b \in Boots : Dial(b)

-----------------------------------------------------------------------------
\* dht.go:136, "The search stops when either the provided context or the service
\* context is canceled": so also when /discover has returned and the forwarder
\* stays in its send for ever, because the watcher does not wait for it.
SearchStops ==
  \A s \in Searches :
    watcher[s] # "none" /\ (ctx[s] = "cancelled" \/ main = "closed")
      ~> Cancelled(s) /\ watcher[s] = "ended"
=============================================================================
