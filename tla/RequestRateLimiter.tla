-------------------------- MODULE RequestRateLimiter --------------------------
(***************************************************************************)
(* RequestRateLimiter (services/api/src/middleware/mod.rs), the layer in   *)
(* front of every route: fixed windows per peer, in a map with a bounded   *)
(* number of peers.  allow_request runs under one mutex, so it is atomic.  *)
(***************************************************************************)
EXTENDS Clock, Sequences, FiniteSets

CONSTANTS
  Peers,     \* socket addresses, the missing one included
  MaxPeers,  \* MAX_TRACKED_PEERS
  Limit,     \* requests a peer may make per window
  Window     \* length of a window

ASSUME LimiterAssumption ==
  /\ IsFiniteSet(Peers)
  /\ MaxPeers \in Nat \ {0} /\ Limit \in Nat \ {0} /\ Window \in Nat \ {0}

VARIABLES
  windows,  \* the map: the window of every tracked peer
  granted,  \* ghost: when each peer was let through, as far back as a window is long
  refused   \* ghost: the peers refused at the current time

limiterVars == <<windows, granted, refused>>

RequestWindow == [started_at : Times, requests : 0..Limit]

LimiterInit ==
  /\ windows = <<>>
  /\ granted = [p \in Peers |-> <<>>]
  /\ refused = {}

Running(w) == now - w.started_at < Window

\* Mutant: at the limit of tracked peers all of them are dropped.
KeptOrCleared(p) ==
  IF p \in DOMAIN windows \/ Cardinality(DOMAIN windows) < MaxPeers THEN windows ELSE <<>>

\* Mutant: windows that are over stay in the map.
KeptAll(p) == windows

\* What the map holds when p has been looked up: for a new peer, windows that are
\* over are dropped.
Kept(p) ==
  IF p \in DOMAIN windows THEN windows
  ELSE [q \in {q \in DOMAIN windows : Running(windows[q])} |-> windows[q]]

\* No room for a new peer.
Full(p) == p \notin DOMAIN windows /\ Cardinality(DOMAIN Kept(p)) >= MaxPeers

\* The window the request counts in: a new one for a new peer and after the end of
\* the last.
CurrentWindow(p) ==
  IF p \in DOMAIN windows /\ Running(windows[p]) THEN windows[p]
  ELSE [started_at |-> now, requests |-> 0]

SetWindow(p, w) ==
  windows' = [q \in DOMAIN Kept(p) \cup {p} |-> IF q = p THEN w ELSE windows[q]]

\* Mutant: the limit itself still lets a request through.
AllowOneMore(p) ==
  LET w == CurrentWindow(p)
  IN  /\ ~Full(p)
      /\ w.requests <= Limit
      /\ SetWindow(p, [w EXCEPT !.requests = @ + 1])
      /\ granted' = [granted EXCEPT ![p] = Append(@, now)]
      /\ UNCHANGED refused

\* allow_request answers true.
Allow(p) ==
  LET w == CurrentWindow(p)
  IN  /\ ~Full(p)
      /\ w.requests < Limit
      /\ SetWindow(p, [w EXCEPT !.requests = @ + 1])
      /\ granted' = [granted EXCEPT ![p] = Append(@, now)]
      /\ UNCHANGED refused

\* allow_request answers false: the map is full, or the window used up.
Refuse(p) ==
  /\ \/ Full(p) /\ windows' = Kept(p)
     \/ ~Full(p) /\ CurrentWindow(p).requests >= Limit /\ SetWindow(p, CurrentWindow(p))
  /\ refused' = refused \cup {p}
  /\ UNCHANGED granted

\* The grants of p that are out of reach at the next time; they come first.
Past(p) == {n \in DOMAIN granted[p] : now + 1 - granted[p][n] > Window}

\* Time passes.
LimiterTick ==
  /\ refused' = {}
  /\ granted' = [p \in Peers |->
                   SubSeq(granted[p], Cardinality(Past(p)) + 1, Len(granted[p]))]
  /\ UNCHANGED windows

-------------------------------------------------------------------------------
LimiterTypeOK ==
  /\ DOMAIN windows \subseteq Peers
  /\ \A p \in DOMAIN windows : windows[p] \in RequestWindow
  /\ granted \in [Peers -> Seq(Times)]
  /\ refused \subseteq Peers

\* However requests of all peers fall into windows, and although windows are
\* dropped and begun again when the map is cleaned up, no peer gets more than two
\* limits within any stretch of time as long as a window.
NoMoreThanTwoLimits ==
  \A p \in Peers : Len(granted[p]) <= 2 * Limit

\* A peer is refused only with a reason: it was let through Limit times within the
\* last window, or as many other peers as are tracked were let through in it.
RefusalsHaveReasons ==
  \A p \in refused :
    \/ Cardinality({n \in DOMAIN granted[p] : now - granted[p][n] < Window}) >= Limit
    \/ Cardinality({q \in Peers \ {p} :
         \E n \in DOMAIN granted[q] : now - granted[q][n] < Window}) >= MaxPeers

-------------------------------------------------------------------------------
(***************************************************************************)
(* The inductive invariant behind the safety properties.                   *)
(***************************************************************************)

\* The grants of a peer are in order, the oldest no older than a window.
GrantsInOrder ==
  \A p \in Peers :
    /\ \A n \in DOMAIN granted[p] : granted[p][n] <= now /\ now - granted[p][n] <= Window
    /\ \A m, n \in DOMAIN granted[p] : m <= n => granted[p][m] <= granted[p][n]

\* The first k grants of p came before the window it has now, the others in it; while
\* the window runs, those are the requests it counts.
SplitAt(p, k) ==
  LET g == granted[p]
      w == windows[p]
  IN  /\ k <= Limit
      /\ \A n \in 1..k : g[n] < w.started_at
      /\ \A n \in (k + 1)..Len(g) : w.started_at <= g[n] /\ g[n] < w.started_at + Window
      /\ Len(g) - k <= w.requests
      /\ Running(w) => Len(g) - k = w.requests

\* The grants of a peer are split by its window; a peer without one has been granted
\* no more than one limit, all of it in the past.
GrantsFallInWindows ==
  /\ \A p \in DOMAIN windows :
       /\ windows[p].started_at <= now /\ windows[p].requests > 0
       /\ \E k \in 0..Len(granted[p]) : SplitAt(p, k)
  /\ \A p \in Peers \ DOMAIN windows :
       Len(granted[p]) <= Limit /\ \A n \in DOMAIN granted[p] : granted[p][n] < now

LimiterIInv == LimiterTypeOK /\ GrantsInOrder /\ GrantsFallInWindows /\ RefusalsHaveReasons
===============================================================================
