--------------------------- MODULE RateRequestsProofs ---------------------------
(***************************************************************************)
(* Proofs about RateRequests and its two components, for any number of     *)
(* peers, markets and calls, any limits and any windows.                   *)
(***************************************************************************)
EXTENDS RateRequests, FiniteSetTheorems, SequenceTheorems, TLAPS

-------------------------------------------------------------------------------
(***************************************************************************)
(* The rate limiter: what a request and the clock do to the grants.        *)
(***************************************************************************)

\* The grants of a peer are a finite sequence.
LEMMA GrantsType ==
  ASSUME LimiterTypeOK, NEW p \in Peers
  PROVE  /\ granted[p] \in Seq(Times) /\ Len(granted[p]) \in Nat
         /\ DOMAIN granted[p] = 1..Len(granted[p])
         /\ \A n \in 1..Len(granted[p]) : granted[p][n] \in Times
<1>1. granted[p] \in Seq(Times)
  BY DEF LimiterTypeOK
<1>2. QED
  BY <1>1, LenProperties, ElementOfSeq

\* The grants out of reach are the first ones, as many as there are of them.
LEMMA PastComesFirst ==
  ASSUME LimiterTypeOK, GrantsInOrder, now \in Times, NEW p \in Peers
  PROVE  /\ Cardinality(Past(p)) \in 0..Len(granted[p])
         /\ \A n \in 1..Len(granted[p]) : n \in Past(p) <=> n <= Cardinality(Past(p))
<1> DEFINE g == granted[p]
           c == Cardinality(Past(p))
<1>1. /\ Len(g) \in Nat /\ DOMAIN g = 1..Len(g) /\ \A n \in 1..Len(g) : g[n] \in Int
      /\ now \in Int /\ Window \in Nat
  BY GrantsType, LimiterAssumption, ClockAssumption DEF Times
<1>2. Past(p) \subseteq 1..Len(g) /\ IsFiniteSet(1..Len(g)) /\ Cardinality(1..Len(g)) = Len(g)
  BY <1>1, FS_Interval, SMTT(30) DEF Past
<1>3. IsFiniteSet(Past(p)) /\ c \in Nat /\ c <= Len(g)
  BY <1>1, <1>2, FS_Subset, FS_CardinalityType
<1>4. ASSUME NEW n \in 1..Len(g), n \in Past(p)
      PROVE  n <= c
  <2>1. 1..n \subseteq Past(p)
    <3>1. ASSUME NEW m \in 1..n
          PROVE  m \in Past(p)
      <4>1. m \in 1..Len(g) /\ m <= n
        BY <1>1
      <4>2. g[m] <= g[n]
        BY <1>1, <4>1 DEF GrantsInOrder
      <4>3. now + 1 - g[m] > Window
        BY <1>1, <1>4, <4>1, <4>2, SMTT(30) DEF Past
      <4>4. QED
        BY <1>1, <4>1, <4>3 DEF Past
    <3>2. QED
      BY <3>1
  <2>2. Cardinality(1..n) = n
    BY FS_Interval
  <2>3. QED
    BY <1>3, <2>1, <2>2, FS_Subset
<1>5. ASSUME NEW n \in 1..Len(g), n \notin Past(p)
      PROVE  c < n
  <2>1. ASSUME NEW m \in Past(p)
        PROVE  m \in 1..(n - 1)
    <3>1. m \in 1..Len(g)
      BY <1>2
    <3>2. ~(n <= m)
      <4>1. SUFFICES ASSUME n <= m
                     PROVE  FALSE
        OBVIOUS
      <4>2. g[n] <= g[m]
        BY <1>1, <3>1, <4>1 DEF GrantsInOrder
      <4>3. now + 1 - g[n] > Window
        BY <1>1, <2>1, <3>1, <4>2, SMTT(30) DEF Past
      <4>4. QED
        BY <1>1, <1>5, <4>3 DEF Past
    <3>3. QED
      BY <3>1, <3>2
  <2>2. IsFiniteSet(1..(n - 1)) /\ Cardinality(1..(n - 1)) = n - 1
    BY FS_Interval
  <2>3. c <= n - 1
    BY <2>1, <2>2, FS_Subset
  <2>4. QED
    BY <1>3, <2>3
<1>6. QED
  BY <1>1, <1>3, <1>4, <1>5

\* The clock drops some first grants and keeps the others, none older than a window.
LEMMA TickEffect ==
  ASSUME LimiterTypeOK, GrantsInOrder, now \in Times, Advance, LimiterTick, NEW p \in Peers
  PROVE  \E c \in 0..Len(granted[p]) :
           /\ granted'[p] \in Seq(Times)
           /\ Len(granted'[p]) = Len(granted[p]) - c
           /\ DOMAIN granted'[p] = 1..Len(granted'[p])
           /\ \A n \in 1..Len(granted'[p]) :
                granted'[p][n] = granted[p][n + c] /\ now' - granted'[p][n] <= Window
           /\ \A n \in 1..c : now' - granted[p][n] > Window
<1> DEFINE g == granted[p]
           h == granted'[p]
           c == Cardinality(Past(p))
<1>1. /\ Len(g) \in Nat /\ DOMAIN g = 1..Len(g) /\ \A n \in 1..Len(g) : g[n] \in Times
      /\ now \in Int /\ Window \in Nat /\ now' = now + 1 /\ Times \subseteq Int
  BY GrantsType, LimiterAssumption, ClockAssumption DEF Times, Advance
<1>2. c \in 0..Len(g) /\ \A n \in 1..Len(g) : n \in Past(p) <=> n <= c
  BY PastComesFirst
<1>3. h = SubSeq(g, c + 1, Len(g))
  BY DEF LimiterTick
<1> HIDE DEF c, h
<1>4. /\ c + 1 \in Int /\ Len(g) \in Int
      /\ \A i \in (c + 1)..Len(g) : i \in 1..Len(g)
  BY <1>1, <1>2
<1>5. \A i \in (c + 1)..Len(g) : g[i] \in Times
  BY <1>1, <1>4
<1>6. /\ h \in Seq(Times)
      /\ Len(h) = IF c + 1 <= Len(g) THEN Len(g) - (c + 1) + 1 ELSE 0
      /\ \A i \in 1..(Len(g) - (c + 1) + 1) : h[i] = g[(c + 1) + i - 1]
  BY <1>3, <1>4, <1>5, SubSeqProperties
<1>7. Len(h) = Len(g) - c /\ Len(g) - (c + 1) + 1 = Len(g) - c
  BY <1>1, <1>2, <1>6
<1>8. DOMAIN h = 1..Len(h)
  BY <1>6, LenProperties
<1>9. ASSUME NEW n \in 1..Len(h)
      PROVE  h[n] = g[n + c] /\ now' - h[n] <= Window
  <2>1. n + c \in 1..Len(g) /\ ~(n + c <= c) /\ (c + 1) + n - 1 = n + c
    BY <1>1, <1>2, <1>7
  <2>2. h[n] = g[n + c]
    BY <1>6, <1>7, <2>1
  <2>3. ~(now + 1 - g[n + c] > Window) /\ g[n + c] \in Int
    BY <1>1, <1>2, <2>1 DEF Past
  <2>4. PICK x \in Int : x = g[n + c]
    BY <2>3
  <2>5. now \in Int /\ Window \in Int /\ now' = now + 1 /\ ~(now + 1 - x > Window)
    BY <1>1, <2>3, <2>4
  <2>6. now' - x <= Window
    BY <2>5
  <2>7. h[n] = x
    BY <2>2, <2>4
  <2>8. QED
    BY <2>2, <2>6, <2>7
<1>10. ASSUME NEW n \in 1..c
       PROVE  now' - g[n] > Window
  <2>1. n \in 1..Len(g) /\ n <= c
    BY <1>1, <1>2
  <2>2. n \in Past(p) /\ g[n] \in Int
    BY <1>1, <1>2, <2>1
  <2>3. now + 1 - g[n] > Window
    BY <2>2 DEF Past
  <2>4. QED
    BY <1>1, <2>2, <2>3
<1>11. QED
  BY <1>2, <1>6, <1>7, <1>8, <1>9, <1>10 DEF h

-------------------------------------------------------------------------------
(***************************************************************************)
(* The rate limiter: the invariant, one step at a time.                    *)
(***************************************************************************)

\* Peers that are looked up lose only windows that are over.
LEMMA KeptWindows ==
  ASSUME LimiterTypeOK, NEW p \in Peers
  PROVE  /\ DOMAIN Kept(p) \subseteq DOMAIN windows
         /\ \A q \in DOMAIN Kept(p) : Kept(p)[q] = windows[q]
         /\ \A q \in DOMAIN windows \ DOMAIN Kept(p) : ~Running(windows[q])
         /\ p \in DOMAIN windows => DOMAIN Kept(p) = DOMAIN windows
<1>1. CASE p \in DOMAIN windows
  BY <1>1 DEF Kept
<1>2. CASE p \notin DOMAIN windows
  BY <1>2 DEF Kept
<1>3. QED
  BY <1>1, <1>2

\* A window that is over has no more grants before it than one limit, and all of them
\* are past.
LEMMA WindowIsOver ==
  ASSUME LimiterTypeOK, GrantsInOrder, GrantsFallInWindows, now \in Times,
         NEW p \in DOMAIN windows, ~Running(windows[p])
  PROVE  Len(granted[p]) <= Limit /\ \A n \in 1..Len(granted[p]) : granted[p][n] < now
<1> DEFINE g == granted[p]
           w == windows[p]
<1>1. /\ p \in Peers /\ w.started_at \in Int /\ w.requests \in Nat /\ w.requests <= Limit
      /\ Window \in Int /\ Limit \in Int /\ now \in Int /\ Times \subseteq Int
  BY LimiterAssumption, ClockAssumption DEF LimiterTypeOK, RequestWindow, Times
<1>2. /\ Len(g) \in Nat /\ DOMAIN g = 1..Len(g)
      /\ \A n \in 1..Len(g) : g[n] \in Int /\ now - g[n] <= Window
  BY <1>1, GrantsType DEF GrantsInOrder
<1>3. PICK k \in 0..Len(g) : SplitAt(p, k)
  BY DEF GrantsFallInWindows
<1>4. now - w.started_at >= Window
  BY <1>1 DEF Running
<1>5. k = 0
  <2>1. SUFFICES ASSUME k # 0
                 PROVE  FALSE
    OBVIOUS
  <2>2. 1 \in 1..Len(g) /\ 1 \in 1..k
    BY <1>2, <2>1
  <2>3. g[1] < w.started_at
    BY <1>3, <2>2 DEF SplitAt
  <2>4. QED
    BY <1>1, <1>2, <1>4, <2>2, <2>3
<1>6. Len(g) - k <= w.requests /\ \A n \in (k + 1)..Len(g) : g[n] < w.started_at + Window
  BY <1>3 DEF SplitAt
<1>7. Len(g) <= Limit
  BY <1>1, <1>2, <1>5, <1>6
<1>8. \A n \in 1..Len(g) : g[n] < w.started_at + Window
  BY <1>5, <1>6
<1>9. \A n \in 1..Len(g) : g[n] < now
  BY <1>1, <1>2, <1>4, <1>8, SMTT(30)
<1>10. QED
  BY <1>7, <1>9

\* A running window that has counted its limit has granted it within the last window.
LEMMA RequestsWereGranted ==
  ASSUME LimiterTypeOK, GrantsFallInWindows, now \in Times,
         NEW p \in DOMAIN windows, Running(windows[p])
  PROVE  LET recent == {n \in DOMAIN granted[p] : now - granted[p][n] < Window}
         IN  IsFiniteSet(recent) /\ Cardinality(recent) >= windows[p].requests /\ recent # {}
<1> DEFINE g == granted[p]
           w == windows[p]
           recent == {n \in DOMAIN granted[p] : now - granted[p][n] < Window}
<1>1. /\ p \in Peers /\ w.started_at \in Int /\ w.requests \in Nat /\ w.requests <= Limit
      /\ Window \in Int /\ Limit \in Int /\ now \in Int /\ Times \subseteq Int
  BY LimiterAssumption, ClockAssumption DEF LimiterTypeOK, RequestWindow, Times
<1>2. /\ Len(g) \in Nat /\ DOMAIN g = 1..Len(g) /\ \A n \in 1..Len(g) : g[n] \in Int
  BY <1>1, GrantsType
<1>3. PICK k \in 0..Len(g) : SplitAt(p, k)
  BY DEF GrantsFallInWindows
<1>4. /\ now - w.started_at < Window /\ w.requests > 0
      /\ Len(g) - k = w.requests
      /\ \A n \in (k + 1)..Len(g) : w.started_at <= g[n]
  BY <1>3 DEF Running, SplitAt, GrantsFallInWindows
<1>5. ASSUME NEW n \in (k + 1)..Len(g)
      PROVE  n \in recent
  <2>1. n \in 1..Len(g) /\ w.started_at <= g[n]
    BY <1>2, <1>4
  <2>2. now - g[n] < Window
    BY <1>1, <1>2, <1>4, <2>1, SMTT(30)
  <2>3. QED
    BY <1>2, <2>1, <2>2
<1>6. /\ IsFiniteSet((k + 1)..Len(g))
      /\ Cardinality((k + 1)..Len(g)) = IF k + 1 > Len(g) THEN 0 ELSE Len(g) - (k + 1) + 1
  <2>1. k + 1 \in Int /\ Len(g) \in Int
    BY <1>2
  <2>2. QED
    BY <2>1, FS_Interval
<1>7. Cardinality((k + 1)..Len(g)) = w.requests
  BY <1>1, <1>2, <1>4, <1>6
<1>8. recent \subseteq 1..Len(g) /\ IsFiniteSet(1..Len(g))
  BY <1>2, FS_Interval
<1>9. IsFiniteSet(recent)
  BY <1>8, FS_Subset
<1>10. (k + 1)..Len(g) \subseteq recent
  BY <1>5
<1>11. Cardinality((k + 1)..Len(g)) <= Cardinality(recent)
  BY <1>9, <1>10, FS_Subset
<1>12. Len(g) \in (k + 1)..Len(g)
  BY <1>1, <1>2, <1>4
<1>13. QED
  BY <1>1, <1>7, <1>9, <1>10, <1>11, <1>12

\* The map after a request of p: the windows that were kept, and its own.
LEMMA SetWindowEffect ==
  ASSUME LimiterTypeOK, NEW p \in Peers, NEW w \in RequestWindow, SetWindow(p, w)
  PROVE  /\ DOMAIN windows' = DOMAIN Kept(p) \cup {p} /\ windows'[p] = w
         /\ \A q \in DOMAIN windows' \ {p} : q \in DOMAIN windows /\ windows'[q] = windows[q]
         /\ DOMAIN windows' \subseteq Peers
         /\ \A q \in DOMAIN windows' : windows'[q] \in RequestWindow
<1>1. DOMAIN Kept(p) \subseteq DOMAIN windows
  BY KeptWindows
<1>2. QED
  BY <1>1 DEF SetWindow, LimiterTypeOK

\* What is known of a peer whose window a request leaves alone.
LEMMA OthersKept ==
  ASSUME LimiterTypeOK, GrantsInOrder, GrantsFallInWindows, now \in Times, now' = now,
         NEW q \in Peers, granted'[q] = granted[q],
         q \in DOMAIN windows' => q \in DOMAIN windows /\ windows'[q] = windows[q],
         q \in DOMAIN windows /\ q \notin DOMAIN windows' => ~Running(windows[q])
  PROVE  /\ q \in DOMAIN windows'
              => /\ windows'[q].started_at <= now' /\ windows'[q].requests > 0
                 /\ \E k \in 0..Len(granted'[q]) : SplitAt(q, k)'
         /\ q \notin DOMAIN windows'
              => Len(granted'[q]) <= Limit /\ \A n \in DOMAIN granted'[q] : granted'[q][n] < now'
<1>1. CASE q \in DOMAIN windows'
  <2>1. PICK k \in 0..Len(granted[q]) : SplitAt(q, k)
    BY <1>1 DEF GrantsFallInWindows
  <2>2. SplitAt(q, k)'
    BY <1>1, <2>1 DEF SplitAt, Running
  <2>3. windows'[q].started_at <= now' /\ windows'[q].requests > 0
    BY <1>1 DEF GrantsFallInWindows
  <2>4. QED
    BY <1>1, <2>1, <2>2, <2>3
<1>2. CASE q \notin DOMAIN windows' /\ q \in DOMAIN windows
  BY <1>2, WindowIsOver, GrantsType
<1>3. CASE q \notin DOMAIN windows' /\ q \notin DOMAIN windows
  BY <1>3 DEF GrantsFallInWindows
<1>4. QED
  BY <1>1, <1>2, <1>3

\* The reason a refusal of p has.
Reason(p) ==
  \/ Cardinality({n \in DOMAIN granted[p] : now - granted[p][n] < Window}) >= Limit
  \/ Cardinality({q \in Peers \ {p} :
       \E n \in DOMAIN granted[q] : now - granted[q][n] < Window}) >= MaxPeers

\* Reasons stay while time stands still: grants are added, none is taken away.
LEMMA ReasonsStay ==
  ASSUME LimiterTypeOK, granted' \in [Peers -> Seq(Times)], now' = now,
         \A q \in Peers : \A n \in 1..Len(granted[q]) :
           n \in 1..Len(granted'[q]) /\ granted'[q][n] = granted[q][n],
         NEW p \in Peers, Reason(p)
  PROVE  Reason(p)'
<1> DEFINE mine == {n \in DOMAIN granted[p] : now - granted[p][n] < Window}
           others == {q \in Peers \ {p} : \E n \in DOMAIN granted[q] : now - granted[q][n] < Window}
<1>1. \A q \in Peers : DOMAIN granted[q] = 1..Len(granted[q])
  BY GrantsType
<1>2. \A q \in Peers : DOMAIN granted'[q] = 1..Len(granted'[q]) /\ Len(granted'[q]) \in Nat
  BY LenProperties
<1>3. mine \subseteq mine' /\ others \subseteq others'
  BY <1>1, <1>2
<1>4. IsFiniteSet(mine') /\ IsFiniteSet(others')
  <2>1. IsFiniteSet(1..Len(granted'[p]))
    <3>1. 1 \in Int /\ Len(granted'[p]) \in Int
      BY <1>2
    <3>2. QED
      BY <3>1, FS_Interval
  <2>2. mine' \subseteq 1..Len(granted'[p])
    BY <1>2
  <2>3. others' \subseteq Peers /\ IsFiniteSet(Peers)
    BY LimiterAssumption
  <2>4. QED
    BY <2>1, <2>2, <2>3, FS_Subset
<1>5. /\ IsFiniteSet(mine) /\ Cardinality(mine) <= Cardinality(mine')
      /\ IsFiniteSet(others) /\ Cardinality(others) <= Cardinality(others')
  BY <1>3, <1>4, FS_Subset
<1>6. /\ Cardinality(mine) \in Nat /\ Cardinality(mine') \in Nat
      /\ Cardinality(others) \in Nat /\ Cardinality(others') \in Nat
      /\ Limit \in Nat /\ MaxPeers \in Nat
  BY <1>4, <1>5, FS_CardinalityType, LimiterAssumption
<1>7. Cardinality(mine) >= Limit \/ Cardinality(others) >= MaxPeers
  BY DEF Reason
<1> HIDE DEF mine, others
<1>8. Cardinality(mine') >= Limit \/ Cardinality(others') >= MaxPeers
  BY <1>5, <1>6, <1>7
<1>9. QED
  BY <1>8 DEF Reason, mine, others

\* A request that is let through is counted in a window its peer has or begins.
LEMMA AllowKeeps ==
  ASSUME LimiterIInv, now \in Times, UNCHANGED now, NEW p \in Peers, Allow(p)
  PROVE  LimiterIInv'
<1> DEFINE g == granted[p]
           h == granted'[p]
           w == CurrentWindow(p)
           v == [w EXCEPT !.requests = @ + 1]
<1>1. /\ LimiterTypeOK /\ GrantsInOrder /\ GrantsFallInWindows
      /\ SetWindow(p, v) /\ w.requests < Limit
      /\ granted' = [granted EXCEPT ![p] = Append(@, now)] /\ refused' = refused
  BY DEF LimiterIInv, Allow
<1>2. /\ Len(g) \in Nat /\ DOMAIN g = 1..Len(g) /\ g \in Seq(Times)
      /\ \A n \in 1..Len(g) : g[n] \in Int /\ g[n] <= now /\ now - g[n] <= Window
      /\ now \in Int /\ Window \in Int /\ Window > 0 /\ Limit \in Int /\ Limit > 0
  BY <1>1, GrantsType, LimiterAssumption, ClockAssumption DEF GrantsInOrder, Times
<1>3. /\ w \in RequestWindow /\ v \in RequestWindow
      /\ v.started_at = w.started_at /\ v.requests = w.requests + 1
      /\ w.started_at \in Int /\ w.requests \in Nat
  <2>1. w \in RequestWindow
    BY <1>1, <1>2 DEF CurrentWindow, RequestWindow, LimiterTypeOK
  <2> HIDE DEF w
  <2>2. QED
    BY <1>1, <1>2, <2>1, ClockAssumption DEF RequestWindow, Times
<1> HIDE DEF v
<1>4. /\ windows'[p] = v /\ p \in DOMAIN windows'
      /\ DOMAIN windows' = DOMAIN Kept(p) \cup {p}
      /\ DOMAIN windows' \subseteq Peers
      /\ \A q \in DOMAIN windows' : windows'[q] \in RequestWindow
      /\ \A q \in DOMAIN windows' \ {p} : q \in DOMAIN windows /\ windows'[q] = windows[q]
  BY <1>1, <1>3, SetWindowEffect
<1>5. /\ h \in Seq(Times) /\ Len(h) = Len(g) + 1 /\ DOMAIN h = 1..Len(h)
      /\ h[Len(g) + 1] = now /\ \A n \in 1..Len(g) : h[n] = g[n]
      /\ \A q \in Peers \ {p} : granted'[q] = granted[q]
      /\ granted' \in [Peers -> Seq(Times)]
  <2>1. h = Append(g, now)
    BY <1>1 DEF LimiterTypeOK
  <2>2. /\ h \in Seq(Times) /\ Len(h) = Len(g) + 1
        /\ h[Len(g) + 1] = now /\ \A n \in 1..Len(g) : h[n] = g[n]
    BY <1>2, <2>1, AppendProperties
  <2>3. DOMAIN h = 1..Len(h)
    BY <2>2, LenProperties
  <2>4. QED
    BY <1>1, <2>2, <2>3 DEF LimiterTypeOK
<1>6. LimiterTypeOK'
  BY <1>1, <1>4, <1>5 DEF LimiterTypeOK
<1>7. GrantsInOrder'
  <2>1. \A n \in 1..Len(h) : n \in 1..Len(g) \/ n = Len(g) + 1
    BY <1>2, <1>5
  <2>2. ASSUME NEW n \in 1..Len(h)
        PROVE  h[n] \in Int /\ h[n] <= now /\ now - h[n] <= Window
    <3>1. CASE n \in 1..Len(g)
      BY <1>2, <1>5, <3>1
    <3>2. CASE n = Len(g) + 1
      BY <1>2, <1>5, <3>2
    <3>3. QED
      BY <2>1, <3>1, <3>2
  <2>3. \A m, n \in 1..Len(h) : m <= n => h[m] <= h[n]
    <3> SUFFICES ASSUME NEW m \in 1..Len(h), NEW n \in 1..Len(h), m <= n
                 PROVE  h[m] <= h[n]
      OBVIOUS
    <3>1. CASE n = Len(g) + 1
      BY <1>5, <2>2, <3>1
    <3>2. CASE n \in 1..Len(g)
      <4>1. m \in 1..Len(g)
        BY <1>2, <3>2
      <4>2. QED
        BY <1>1, <1>2, <1>5, <3>2, <4>1 DEF GrantsInOrder
    <3>3. QED
      BY <2>1, <3>1, <3>2
  <2>4. QED
    BY <1>1, <1>5, <2>2, <2>3 DEF GrantsInOrder
<1>8. /\ windows'[p].started_at <= now' /\ windows'[p].requests > 0
      /\ \E k \in 0..Len(h) : SplitAt(p, k)'
  <2>1. CASE p \in DOMAIN windows /\ Running(windows[p])
    <3>1. w = windows[p]
      BY <2>1 DEF CurrentWindow
    <3>2. PICK k \in 0..Len(g) : SplitAt(p, k)
      BY <1>1, <2>1 DEF GrantsFallInWindows
    <3> HIDE DEF w
    <3>3. /\ k <= Limit /\ Len(g) - k = w.requests
          /\ \A n \in 1..k : g[n] < w.started_at
          /\ \A n \in (k + 1)..Len(g) : w.started_at <= g[n] /\ g[n] < w.started_at + Window
          /\ now - w.started_at < Window /\ w.started_at <= now
      BY <1>1, <2>1, <3>1, <3>2 DEF SplitAt, Running, GrantsFallInWindows
    <3>4. \A n \in 1..k : h[n] < w.started_at
      <4>1. \A n \in 1..k : n \in 1..Len(g)
        BY <1>2
      <4>2. QED
        BY <1>5, <3>3, <4>1
    <3>5. ASSUME NEW n \in (k + 1)..Len(h)
          PROVE  w.started_at <= h[n] /\ h[n] < w.started_at + Window
      <4>1. n \in (k + 1)..Len(g) \/ n = Len(g) + 1
        BY <1>2, <1>5
      <4>2. CASE n \in (k + 1)..Len(g)
        BY <1>2, <1>5, <3>3, <4>2
      <4>3. CASE n = Len(g) + 1
        BY <1>2, <1>3, <1>5, <3>3, <4>3
      <4>4. QED
        BY <4>1, <4>2, <4>3
    <3>6. Len(h) - k = v.requests /\ k \in 0..Len(h) /\ v.requests > 0 /\ v.started_at <= now
      BY <1>2, <1>3, <1>5, <3>3
    <3>7. SplitAt(p, k)'
      BY <1>3, <1>4, <3>3, <3>4, <3>5, <3>6 DEF SplitAt
    <3>8. QED
      BY <1>4, <3>6, <3>7
  <2>2. CASE ~(p \in DOMAIN windows /\ Running(windows[p]))
    <3>1. w.started_at = now /\ w.requests = 0
      BY <2>2 DEF CurrentWindow
    <3>2. Len(g) <= Limit /\ \A n \in 1..Len(g) : g[n] < now
      BY <1>1, <1>2, <2>2, WindowIsOver DEF GrantsFallInWindows
    <3> HIDE DEF w
    <3>3. /\ v.started_at = now /\ v.requests = 1 /\ Len(h) - Len(g) = 1
          /\ Len(g) \in 0..Len(h)
      BY <1>2, <1>3, <1>5, <3>1
    <3>4. PICK k \in 0..Len(h) : k = Len(g)
      BY <3>3
    <3>5. k <= Limit /\ \A n \in 1..k : h[n] < v.started_at
      BY <1>5, <3>2, <3>3, <3>4
    <3>6. \A n \in (k + 1)..Len(h) : v.started_at <= h[n] /\ h[n] < v.started_at + Window
      <4>1. \A n \in (k + 1)..Len(h) : h[n] = now
        BY <1>2, <1>5, <3>4
      <4>2. now <= now /\ now < now + Window
        BY <1>2
      <4>3. QED
        BY <3>3, <4>1, <4>2
    <3>7. Len(h) - k = v.requests /\ Len(h) - k <= v.requests
      BY <3>3, <3>4
    <3>8. SplitAt(p, k)'
      BY <1>4, <3>5, <3>6, <3>7 DEF SplitAt
    <3>9. QED
      BY <1>2, <1>4, <3>3, <3>8
  <2>3. QED
    BY <2>1, <2>2
<1>9. GrantsFallInWindows'
  <2>1. \A q \in DOMAIN windows \ DOMAIN windows' : ~Running(windows[q])
    BY <1>1, <1>4, KeptWindows
  <2>2. ASSUME NEW q \in Peers, q # p
        PROVE  /\ q \in DOMAIN windows'
                    => /\ windows'[q].started_at <= now' /\ windows'[q].requests > 0
                       /\ \E k \in 0..Len(granted'[q]) : SplitAt(q, k)'
               /\ q \notin DOMAIN windows'
                    => /\ Len(granted'[q]) <= Limit
                       /\ \A n \in DOMAIN granted'[q] : granted'[q][n] < now'
    BY <1>1, <1>4, <1>5, <2>1, <2>2, OthersKept
  <2>3. QED
    BY <1>4, <1>8, <2>2 DEF GrantsFallInWindows
<1>10. RefusalsHaveReasons'
  <2>1. \A q \in Peers : \A n \in 1..Len(granted[q]) :
          n \in 1..Len(granted'[q]) /\ granted'[q][n] = granted[q][n]
    BY <1>2, <1>5
  <2>2. \A q \in refused : q \in Peers /\ Reason(q)
    BY <1>1 DEF LimiterIInv, LimiterTypeOK, RefusalsHaveReasons, Reason
  <2>3. \A q \in refused' : Reason(q)'
    BY <1>1, <1>5, <2>1, <2>2, ReasonsStay
  <2>4. QED
    BY <2>3 DEF RefusalsHaveReasons, Reason
<1>11. QED
  BY <1>6, <1>7, <1>9, <1>10 DEF LimiterIInv

\* A request that is refused changes no window that runs, and has its reason.
LEMMA RefuseKeeps ==
  ASSUME LimiterIInv, now \in Times, UNCHANGED now, NEW p \in Peers, Refuse(p)
  PROVE  LimiterIInv'
<1>1. /\ LimiterTypeOK /\ GrantsInOrder /\ GrantsFallInWindows
      /\ granted' = granted /\ refused' = refused \cup {p}
  BY DEF LimiterIInv, Refuse
<1>2. /\ Limit \in Nat /\ Limit > 0 /\ MaxPeers \in Nat /\ IsFiniteSet(Peers)
      /\ DOMAIN windows \subseteq Peers
      /\ \A q \in DOMAIN windows : windows[q] \in RequestWindow
  BY <1>1, LimiterAssumption DEF LimiterTypeOK
<1>3. /\ DOMAIN windows' \subseteq DOMAIN windows
      /\ \A q \in DOMAIN windows' : windows'[q] = windows[q]
      /\ \A q \in DOMAIN windows \ DOMAIN windows' : ~Running(windows[q])
      /\ Reason(p)
  <2>1. CASE Full(p) /\ windows' = Kept(p)
    <3>1. /\ DOMAIN windows' \subseteq DOMAIN windows
          /\ \A q \in DOMAIN windows' : windows'[q] = windows[q]
          /\ \A q \in DOMAIN windows \ DOMAIN windows' : ~Running(windows[q])
      BY <1>1, <2>1, KeptWindows
    <3>2. /\ p \notin DOMAIN windows /\ Cardinality(DOMAIN windows') >= MaxPeers
          /\ \A q \in DOMAIN windows' : Running(windows[q])
      BY <2>1 DEF Full, Kept
    <3> DEFINE others == {q \in Peers \ {p} :
                            \E n \in DOMAIN granted[q] : now - granted[q][n] < Window}
    <3>3. ASSUME NEW q \in DOMAIN windows'
          PROVE  q \in others
      <4>1. {n \in DOMAIN granted[q] : now - granted[q][n] < Window} # {}
        BY <1>1, <3>1, <3>2, RequestsWereGranted
      <4>2. q \in Peers \ {p}
        BY <1>2, <3>1, <3>2
      <4>3. QED
        BY <4>1, <4>2
    <3>4. IsFiniteSet(others) /\ DOMAIN windows' \subseteq others
      BY <1>2, <3>3, FS_Subset
    <3>5. Cardinality(others) \in Nat /\ Cardinality(DOMAIN windows') \in Nat
          /\ Cardinality(DOMAIN windows') <= Cardinality(others)
      BY <3>4, FS_Subset, FS_CardinalityType
    <3> HIDE DEF others
    <3>6. Cardinality(others) >= MaxPeers
      BY <1>2, <3>2, <3>5
    <3>7. Reason(p)
      BY <3>6 DEF Reason, others
    <3>8. QED
      BY <3>1, <3>7
  <2>2. CASE ~Full(p) /\ CurrentWindow(p).requests >= Limit /\ SetWindow(p, CurrentWindow(p))
    <3>1. p \in DOMAIN windows /\ Running(windows[p]) /\ CurrentWindow(p) = windows[p]
      <4>1. SUFFICES ASSUME ~(p \in DOMAIN windows /\ Running(windows[p]))
                     PROVE  FALSE
        BY DEF CurrentWindow
      <4>2. CurrentWindow(p).requests = 0
        BY <4>1 DEF CurrentWindow
      <4>3. QED
        BY <1>2, <2>2, <4>2
    <3>2. DOMAIN windows' = DOMAIN windows /\ \A q \in DOMAIN windows' : windows'[q] = windows[q]
      BY <1>1, <1>2, <2>2, <3>1, SetWindowEffect, KeptWindows
    <3> DEFINE mine == {n \in DOMAIN granted[p] : now - granted[p][n] < Window}
    <3>3. /\ IsFiniteSet(mine) /\ Cardinality(mine) >= windows[p].requests
          /\ windows[p].requests >= Limit
      BY <1>1, <2>2, <3>1, RequestsWereGranted
    <3>4. Cardinality(mine) \in Nat /\ windows[p].requests \in Int
      BY <1>2, <3>1, <3>3, FS_CardinalityType DEF RequestWindow
    <3> HIDE DEF mine
    <3>5. Cardinality(mine) >= Limit
      BY <1>2, <3>3, <3>4
    <3>6. Reason(p)
      BY <3>5 DEF Reason, mine
    <3>7. QED
      BY <3>2, <3>6
  <2>3. QED
    BY <2>1, <2>2 DEF Refuse
<1>4. LimiterTypeOK'
  BY <1>1, <1>2, <1>3 DEF LimiterTypeOK
<1>5. GrantsInOrder'
  BY <1>1 DEF GrantsInOrder
<1>6. GrantsFallInWindows'
  <2>1. ASSUME NEW q \in Peers
        PROVE  /\ q \in DOMAIN windows'
                    => /\ windows'[q].started_at <= now' /\ windows'[q].requests > 0
                       /\ \E k \in 0..Len(granted'[q]) : SplitAt(q, k)'
               /\ q \notin DOMAIN windows'
                    => /\ Len(granted'[q]) <= Limit
                       /\ \A n \in DOMAIN granted'[q] : granted'[q][n] < now'
    BY <1>1, <1>3, OthersKept
  <2>2. QED
    BY <1>2, <1>3, <2>1 DEF GrantsFallInWindows
<1>7. RefusalsHaveReasons'
  <2>1. \A q \in refused' : Reason(q)
    BY <1>1, <1>3 DEF LimiterIInv, RefusalsHaveReasons, Reason
  <2>2. \A q \in refused' : Reason(q)'
    BY <1>1, <2>1 DEF Reason
  <2>3. QED
    BY <2>2 DEF RefusalsHaveReasons, Reason
<1>8. QED
  BY <1>4, <1>5, <1>6, <1>7 DEF LimiterIInv

\* The clock takes only grants older than a window away.
LEMMA TickKeeps ==
  ASSUME LimiterIInv, now \in Times, Advance, LimiterTick
  PROVE  LimiterIInv'
<1>1. /\ LimiterTypeOK /\ GrantsInOrder /\ GrantsFallInWindows
      /\ windows' = windows /\ refused' = {}
      /\ now \in Int /\ now' = now + 1 /\ now' \in Times
      /\ Window \in Int /\ Window > 0 /\ Limit \in Int /\ Times \subseteq Int
  BY LimiterAssumption, ClockAssumption DEF LimiterIInv, LimiterTick, Advance, Times
<1>2. ASSUME NEW p \in Peers
      PROVE  /\ granted'[p] \in Seq(Times)
             /\ \A n \in DOMAIN granted'[p] : granted'[p][n] <= now' /\ now' - granted'[p][n] <= Window
             /\ \A m, n \in DOMAIN granted'[p] : m <= n => granted'[p][m] <= granted'[p][n]
             /\ p \in DOMAIN windows
                  => /\ windows'[p].started_at <= now' /\ windows'[p].requests > 0
                     /\ \E k \in 0..Len(granted'[p]) : SplitAt(p, k)'
             /\ p \notin DOMAIN windows
                  => /\ Len(granted'[p]) <= Limit
                     /\ \A n \in DOMAIN granted'[p] : granted'[p][n] < now'
  <2> DEFINE g == granted[p]
             h == granted'[p]
             w == windows[p]
  <2>1. /\ Len(g) \in Nat /\ DOMAIN g = 1..Len(g)
        /\ \A n \in 1..Len(g) : g[n] \in Int /\ g[n] <= now
        /\ \A m, n \in 1..Len(g) : m <= n => g[m] <= g[n]
    BY <1>1, GrantsType DEF GrantsInOrder
  <2>2. PICK c \in 0..Len(g) :
          /\ h \in Seq(Times) /\ Len(h) = Len(g) - c /\ DOMAIN h = 1..Len(h)
          /\ \A n \in 1..Len(h) : h[n] = g[n + c] /\ now' - h[n] <= Window
          /\ \A n \in 1..c : now' - g[n] > Window
    BY <1>1, TickEffect
  <2>3. Len(h) \in Nat /\ \A n \in 1..Len(h) : n + c \in 1..Len(g) /\ h[n] = g[n + c]
    BY <2>1, <2>2, SMTT(30)
  <2>4. \A n \in 1..Len(h) : h[n] \in Int /\ h[n] <= now
    BY <2>1, <2>3
  <2>5. ASSUME NEW m \in 1..Len(h), NEW n \in 1..Len(h), m <= n
        PROVE  h[m] <= h[n]
    <3>1. m + c \in 1..Len(g) /\ n + c \in 1..Len(g) /\ m + c <= n + c
      BY <2>3, <2>5
    <3>2. g[m + c] <= g[n + c]
      BY <2>1, <3>1
    <3>3. QED
      BY <2>3, <3>2
  <2>6. ASSUME p \in DOMAIN windows
        PROVE  /\ w.started_at <= now' /\ w.requests > 0
               /\ \E k \in 0..Len(h) : SplitAt(p, k)'
    <3>1. PICK k \in 0..Len(g) : SplitAt(p, k)
      BY <1>1, <2>6 DEF GrantsFallInWindows
    <3>2. /\ w.started_at \in Int /\ w.requests \in Int
          /\ w.started_at <= now /\ w.requests > 0
      BY <1>1, <2>6, LimiterAssumption, ClockAssumption
         DEF GrantsFallInWindows, LimiterTypeOK, RequestWindow, Times
    <3>3. /\ k <= Limit /\ Len(g) - k <= w.requests
          /\ \A n \in 1..k : g[n] < w.started_at
          /\ \A n \in (k + 1)..Len(g) : w.started_at <= g[n] /\ g[n] < w.started_at + Window
          /\ now - w.started_at < Window => Len(g) - k = w.requests
      BY <3>1 DEF SplitAt, Running
    <3>4. PICK j \in 0..Len(h) : j = IF c <= k THEN k - c ELSE 0
      <4>1. (IF c <= k THEN k - c ELSE 0) \in 0..Len(h)
        BY <2>1, <2>2
      <4>2. QED
        BY <4>1
    <3>5. j <= Limit /\ Len(h) - j <= Len(g) - k
      <4>1. CASE c <= k
        BY <1>1, <2>1, <2>2, <3>3, <3>4, <4>1
      <4>2. CASE ~(c <= k)
        BY <1>1, <2>1, <2>2, <3>3, <3>4, <4>2
      <4>3. QED
        BY <4>1, <4>2
    <3>6. ASSUME NEW n \in 1..j
          PROVE  h[n] < w.started_at
      <4>1. n \in 1..Len(h) /\ n + c \in 1..k
        BY <2>1, <2>2, <2>3, <3>4
      <4>2. QED
        BY <2>3, <3>3, <4>1
    <3>7. ASSUME NEW n \in (j + 1)..Len(h)
          PROVE  w.started_at <= h[n] /\ h[n] < w.started_at + Window
      <4>1. n \in 1..Len(h) /\ n + c \in (k + 1)..Len(g)
        BY <2>1, <2>2, <2>3, <3>4
      <4>2. QED
        BY <2>3, <3>3, <4>1
    <3>8. ASSUME now' - w.started_at < Window
          PROVE  Len(h) - j = w.requests
      <4>1. Len(g) - k = w.requests
        BY <1>1, <3>2, <3>3, <3>8, SMTT(30)
      <4>2. ~(c > k)
        <5>1. SUFFICES ASSUME c > k
                       PROVE  FALSE
          OBVIOUS
        <5>2. k + 1 \in 1..c /\ k + 1 \in (k + 1)..Len(g) /\ k + 1 \in 1..Len(g)
          BY <2>1, <2>2, <5>1
        <5>3. now' - g[k + 1] > Window /\ w.started_at <= g[k + 1] /\ g[k + 1] \in Int
          BY <2>1, <2>2, <3>3, <5>2
        <5>4. QED
          BY <1>1, <3>2, <3>8, <5>3
      <4>3. QED
        BY SMTT(30), <2>1, <2>2, <3>4, <4>1, <4>2
    <3>9. Len(h) - j <= w.requests
      BY <2>1, <2>3, <3>2, <3>3, <3>5
    <3>10. SplitAt(p, j)'
      BY <1>1, <3>5, <3>6, <3>7, <3>8, <3>9 DEF SplitAt, Running
    <3>11. QED
      BY <1>1, <3>2, <3>10, SMTT(30)
  <2>7. ASSUME p \notin DOMAIN windows
        PROVE  Len(h) <= Limit /\ \A n \in 1..Len(h) : h[n] < now'
    <3>1. Len(g) <= Limit
      BY <1>1, <2>7 DEF GrantsFallInWindows
    <3>2. Len(h) <= Limit
      BY <1>1, <2>1, <2>2, <3>1
    <3>3. QED
      BY <1>1, <2>4, <3>2
  <2>8. \A n \in 1..Len(h) : h[n] <= now'
    BY <1>1, <2>4
  <2>9. QED
    BY <1>1, <2>2, <2>5, <2>6, <2>7, <2>8
<1>3. LimiterTypeOK'
  <2>1. granted' \in [Peers -> Seq(Times)]
    BY <1>2 DEF LimiterTick
  <2>2. QED
    BY <1>1, <2>1 DEF LimiterTypeOK
<1>4. GrantsInOrder'
  BY <1>2 DEF GrantsInOrder
<1>5. GrantsFallInWindows'
  BY <1>1, <1>2 DEF GrantsFallInWindows, LimiterTypeOK
<1>6. QED
  BY <1>1, <1>3, <1>4, <1>5 DEF LimiterIInv, RefusalsHaveReasons

\* The windows leave room for two limits.
LEMMA TwoLimits ==
  ASSUME LimiterIInv
  PROVE  NoMoreThanTwoLimits
<1>1. ASSUME NEW p \in Peers
      PROVE  Len(granted[p]) <= 2 * Limit
  <2>1. Len(granted[p]) \in Nat /\ Limit \in Nat
    BY GrantsType, LimiterAssumption DEF LimiterIInv
  <2>2. CASE p \in DOMAIN windows
    <3>1. PICK k \in 0..Len(granted[p]) : SplitAt(p, k)
      BY <2>2 DEF LimiterIInv, GrantsFallInWindows
    <3>2. /\ k <= Limit /\ Len(granted[p]) - k <= windows[p].requests
          /\ windows[p].requests \in Int /\ windows[p].requests <= Limit
      BY <2>1, <2>2, <3>1 DEF LimiterIInv, LimiterTypeOK, RequestWindow, SplitAt
    <3>3. QED
      BY <2>1, <3>2
  <2>3. CASE p \notin DOMAIN windows
    BY <2>1, <2>3 DEF LimiterIInv, GrantsFallInWindows
  <2>4. QED
    BY <2>2, <2>3
<1>2. QED
  BY <1>1 DEF NoMoreThanTwoLimits

LEMMA LimiterStutters ==
  ASSUME LimiterIInv, UNCHANGED limiterVars, UNCHANGED now
  PROVE  LimiterIInv'
<1>1. QED
  BY DEF LimiterIInv, limiterVars, LimiterTypeOK, GrantsInOrder, GrantsFallInWindows, SplitAt,
         Running, RefusalsHaveReasons

LEMMA LimiterStarts ==
  ASSUME LimiterInit, now = 0
  PROVE  LimiterIInv
<1>1. /\ DOMAIN windows = {} /\ refused = {}
      /\ \A p \in Peers : granted[p] = <<>> /\ DOMAIN granted[p] = {} /\ Len(granted[p]) = 0
      /\ granted \in [Peers -> Seq(Times)]
  BY EmptySeq DEF LimiterInit
<1>2. LimiterTypeOK /\ RefusalsHaveReasons
  BY <1>1 DEF LimiterTypeOK, RefusalsHaveReasons
<1>3. GrantsInOrder /\ GrantsFallInWindows
  BY <1>1, LimiterAssumption DEF GrantsInOrder, GrantsFallInWindows
<1>4. QED
  BY <1>2, <1>3 DEF LimiterIInv

-------------------------------------------------------------------------------
(***************************************************************************)
(* The rate service.                                                       *)
(***************************************************************************)

\* A call that is not one of the service's keeps nothing.
LEMMA NoCallType ==
  /\ NoCall \in Call /\ NoCall.started = 0
  /\ \A k \in Markets : NoCall.fetched[k] = NotYet
  /\ 0 \in Times /\ NotYet = -1 /\ Failed = -2 /\ Fresh > 0 /\ Fresh \in Int /\ Stale \in Int
<1>1. 0 \in Times /\ NotYet = -1 /\ Failed = -2 /\ Fresh > 0 /\ Fresh \in Int /\ Stale \in Int
  BY ClockAssumption, RateAssumption DEF Times, NotYet, Failed
<1>2. Nothing \in Shown
  BY DEF Nothing, Shown
<1>3. QED
  BY <1>1, <1>2 DEF NoCall, Call

\* RateIInv after a step of call c.
LEMMA CallSteps ==
  ASSUME RateIInv, now \in Times, UNCHANGED now, NEW c \in Calls,
         cache' \in [Markets -> Entry \cup {NoEntry}],
         \A k \in Markets : cache'[k] # NoEntry => cache'[k].cached_at <= cache'[k].quoted,
         NEW s \in Stages, stage' = [stage EXCEPT ![c] = s],
         NEW x \in Call, call' = [call EXCEPT ![c] = x],
         x.started <= now,
         \A k \in Markets : x.fetched[k] >= 0 => x.started <= x.fetched[k],
         s = "answered"
           => \A k \in Markets : x.shown[k].quoted # NotYet
                => IF x.shown[k].is_stale THEN x.started - x.shown[k].quoted < Stale
                   ELSE x.started - x.shown[k].quoted < Fresh
  PROVE  RateIInv'
<1>1. /\ stage' \in [Calls -> Stages] /\ call' \in [Calls -> Call]
      /\ stage'[c] = s /\ call'[c] = x
      /\ \A d \in Calls \ {c} : stage'[d] = stage[d] /\ call'[d] = call[d]
  BY DEF RateIInv, RateTypeOK
<1>2. RateTypeOK'
  BY <1>1 DEF RateTypeOK
<1>3. RatesAreTimely'
  BY <1>1 DEF RateIInv, RatesAreTimely, Cached
<1>4. AnswersWithinWindows'
  <2>1. ASSUME NEW d \in Calls, NEW k \in Markets,
               stage'[d] = "answered", call'[d].shown[k].quoted # NotYet
        PROVE  IF call'[d].shown[k].is_stale
               THEN call'[d].started - call'[d].shown[k].quoted < Stale
               ELSE call'[d].started - call'[d].shown[k].quoted < Fresh
    <3>1. CASE d = c
      BY <1>1, <2>1, <3>1
    <3>2. CASE d # c
      BY <1>1, <2>1, <3>2 DEF RateIInv, AnswersWithinWindows
    <3>3. QED
      BY <3>1, <3>2
  <2>2. QED
    BY <2>1 DEF AnswersWithinWindows
<1>5. QED
  BY <1>2, <1>3, <1>4 DEF RateIInv

\* What is known of a call before its step.
LEMMA RateCallFacts ==
  ASSUME RateIInv, now \in Times, NEW c \in Calls
  PROVE  /\ call[c] \in Call /\ call[c].started \in Int /\ call[c].started <= now
         /\ call[c].started \in Times
         /\ call[c].fetching \subseteq Markets /\ call[c].asked \subseteq Markets
         /\ \A k \in Markets : call[c].fetched[k] \in Times \cup {NotYet, Failed}
         /\ \A k \in Markets : call[c].fetched[k] >= 0
              => call[c].fetched[k] \in Times /\ call[c].started <= call[c].fetched[k]
         /\ call[c].fetched \in [Markets -> Times \cup {NotYet, Failed}]
         /\ call[c].shown \in [Markets -> Shown]
         /\ cache \in [Markets -> Entry \cup {NoEntry}]
         /\ \A k \in Markets : Cached(k)
              => /\ cache[k].quoted \in Times /\ cache[k].cached_at \in Times
                 /\ cache[k].cached_at <= cache[k].quoted
         /\ stage \in [Calls -> Stages] /\ call \in [Calls -> Call]
         /\ Times \subseteq Int /\ now \in Int /\ 0 \in Times
<1>1. Times \subseteq Int /\ \A t \in Times : t >= 0
  BY ClockAssumption DEF Times
<1>2. call[c] \in Call
  BY DEF RateIInv, RateTypeOK
<1>3. /\ call[c].started \in Times /\ call[c].fetching \subseteq Markets
      /\ call[c].asked \subseteq Markets
      /\ call[c].fetched \in [Markets -> Times \cup {NotYet, Failed}]
      /\ call[c].shown \in [Markets -> Shown]
  BY <1>2 DEF Call
<1>4. /\ call[c].started <= now
      /\ \A k \in Markets : call[c].fetched[k] >= 0 => call[c].started <= call[c].fetched[k]
  BY DEF RateIInv, RatesAreTimely
<1>5. ASSUME NEW k \in Markets, call[c].fetched[k] >= 0
      PROVE  call[c].fetched[k] \in Times
  <2>1. call[c].fetched[k] \in Times \cup {-1, -2}
    BY <1>3, NoCallType
  <2>2. ~(-1 >= 0) /\ ~(-2 >= 0)
    OBVIOUS
  <2>3. QED
    BY <1>5, <2>1, <2>2
<1>6. \A k \in Markets : Cached(k)
        => /\ cache[k].quoted \in Times /\ cache[k].cached_at \in Times
           /\ cache[k].cached_at <= cache[k].quoted
  BY DEF RateIInv, RateTypeOK, RatesAreTimely, Cached, Entry
<1>7. QED
  BY <1>1, <1>2, <1>3, <1>4, <1>5, <1>6, NoCallType DEF RateIInv, RateTypeOK

LEMMA BeginKeeps ==
  ASSUME RateIInv, now \in Times, UNCHANGED now, NEW c \in Calls, NEW all \in BOOLEAN,
         NEW keys \in SUBSET Markets, Begin(c, all, keys)
  PROVE  RateIInv'
<1> DEFINE x == [NoCall EXCEPT !.all = all, !.asked = keys, !.started = now]
<1>1. x \in Call /\ x.started = now /\ x.fetched = NoCall.fetched
  BY NoCallType DEF Call
<1>2. /\ stage' = [stage EXCEPT ![c] = "reading"] /\ "reading" \in Stages
      /\ call' = [call EXCEPT ![c] = x] /\ cache' = cache
  BY DEF Begin, Goto, Stages
<1> HIDE DEF x
<1>3. x.started <= now /\ \A k \in Markets : ~(x.fetched[k] >= 0)
  <2>1. \A k \in Markets : x.fetched[k] = -1
    BY <1>1, NoCallType
  <2>2. ~(-1 >= 0) /\ now <= now
    BY RateCallFacts
  <2>3. QED
    BY <1>1, <2>1, <2>2
<1>4. \A k \in Markets : cache'[k] # NoEntry => cache'[k].cached_at <= cache'[k].quoted
  BY <1>2 DEF RateIInv, RatesAreTimely, Cached
<1>5. cache' \in [Markets -> Entry \cup {NoEntry}]
  BY <1>2, RateCallFacts
<1>6. QED
  BY <1>1, <1>2, <1>3, <1>4, <1>5, CallSteps

\* A call that shows what it got keeps the rest.
LEMMA ShowKeeps ==
  ASSUME RateIInv, now \in Times, UNCHANGED now, NEW c \in Calls,
         cache' \in [Markets -> Entry \cup {NoEntry}],
         \A k \in Markets : cache'[k] # NoEntry => cache'[k].cached_at <= cache'[k].quoted,
         NEW shown \in [Markets -> Shown], Show(c, shown), Goto(c, "answered"),
         \A k \in Markets : shown[k].quoted # NotYet
           => IF shown[k].is_stale THEN call[c].started - shown[k].quoted < Stale
              ELSE call[c].started - shown[k].quoted < Fresh
  PROVE  RateIInv'
<1> DEFINE x == [call[c] EXCEPT !.shown = shown]
<1>1. x \in Call /\ x.started = call[c].started /\ x.fetched = call[c].fetched /\ x.shown = shown
  BY RateCallFacts DEF Call
<1>2. /\ stage' = [stage EXCEPT ![c] = "answered"] /\ "answered" \in Stages
      /\ call' = [call EXCEPT ![c] = x]
  BY DEF Show, Goto, Stages
<1> HIDE DEF x
<1>3. QED
  BY <1>1, <1>2, RateCallFacts, CallSteps

\* An entry a call may use is at least as young as its age says.
LEMMA EntryIsYoung ==
  ASSUME RateIInv, now \in Times, NEW c \in Calls, NEW k \in Markets
  PROVE  /\ IsFresh(c, k)
              => cache[k].quoted \in Times /\ call[c].started - cache[k].quoted < Fresh
         /\ IsUsable(c, k)
              => cache[k].quoted \in Times /\ call[c].started - cache[k].quoted < Stale
<1> DEFINE e == cache[k]
           t == call[c].started
<1>1. /\ t \in Int
      /\ Cached(k) => /\ e.quoted \in Times /\ e.quoted \in Int /\ e.cached_at \in Int
                      /\ e.cached_at <= e.quoted
  BY RateCallFacts
<1>2. /\ IsFresh(c, k) => Cached(k) /\ t - e.cached_at < Fresh
      /\ IsUsable(c, k) => Cached(k) /\ t - e.cached_at < Stale
  BY DEF IsFresh, IsUsable, Age
<1> HIDE DEF e, t
<1>3. /\ IsFresh(c, k) => t - e.quoted < Fresh
      /\ IsUsable(c, k) => t - e.quoted < Stale
  BY <1>1, <1>2, NoCallType
<1>4. QED
  BY <1>1, <1>2, <1>3 DEF e, t

LEMMA AnswerFreshKeeps ==
  ASSUME RateIInv, now \in Times, UNCHANGED now, NEW c \in Calls, AnswerFresh(c)
  PROVE  RateIInv'
<1> DEFINE shown == [k \in Markets |-> IF k \in call[c].asked
                                       THEN [quoted |-> cache[k].quoted, is_stale |-> FALSE]
                                       ELSE Nothing]
<1>1. /\ Show(c, shown) /\ Goto(c, "answered") /\ cache' = cache
      /\ \A k \in call[c].asked : IsFresh(c, k)
  BY DEF AnswerFresh
<1>2. ASSUME NEW k \in Markets
      PROVE  /\ shown[k] \in Shown
             /\ shown[k].quoted # NotYet
                  => ~shown[k].is_stale /\ call[c].started - shown[k].quoted < Fresh
  BY <1>1, EntryIsYoung DEF Shown, Nothing
<1>3. shown \in [Markets -> Shown]
  BY <1>2
<1> HIDE DEF shown
<1>4. \A k \in Markets : cache'[k] # NoEntry => cache'[k].cached_at <= cache'[k].quoted
  BY <1>1 DEF RateIInv, RatesAreTimely, Cached
<1>5. cache' \in [Markets -> Entry \cup {NoEntry}]
  BY <1>1, RateCallFacts
<1>6. QED
  BY <1>1, <1>2, <1>3, <1>4, <1>5, ShowKeeps

LEMMA ListAllKeeps ==
  ASSUME RateIInv, now \in Times, UNCHANGED now, NEW c \in Calls, ListAll(c)
  PROVE  RateIInv'
<1> DEFINE shown == [k \in Markets |-> IF IsUsable(c, k)
                                       THEN [quoted |-> cache[k].quoted, is_stale |-> ~IsFresh(c, k)]
                                       ELSE Nothing]
<1>1. Show(c, shown) /\ Goto(c, "answered") /\ cache' = cache
  BY DEF ListAll
<1>2. ASSUME NEW k \in Markets
      PROVE  /\ shown[k] \in Shown
             /\ shown[k].quoted # NotYet
                  => IF shown[k].is_stale THEN call[c].started - shown[k].quoted < Stale
                     ELSE call[c].started - shown[k].quoted < Fresh
  <2>1. CASE IsUsable(c, k)
    <3>1. shown[k] = [quoted |-> cache[k].quoted, is_stale |-> ~IsFresh(c, k)]
      BY <2>1
    <3>2. PICK stale \in BOOLEAN : stale = ~IsFresh(c, k)
      BY Zenon
    <3>3. /\ shown[k].quoted = cache[k].quoted /\ shown[k].is_stale = stale
          /\ shown[k] = [quoted |-> cache[k].quoted, is_stale |-> stale]
      BY <3>1, <3>2
    <3>4. stale \/ IsFresh(c, k)
      BY <3>2
    <3> HIDE DEF shown
    <3>5. QED
      BY <2>1, <3>3, <3>4, EntryIsYoung DEF Shown
  <2>2. CASE ~IsUsable(c, k)
    BY <2>2 DEF Shown, Nothing
  <2>3. QED
    BY <2>1, <2>2
<1>3. shown \in [Markets -> Shown]
  BY <1>2
<1> HIDE DEF shown
<1>4. \A k \in Markets : cache'[k] # NoEntry => cache'[k].cached_at <= cache'[k].quoted
  BY <1>1 DEF RateIInv, RatesAreTimely, Cached
<1>5. cache' \in [Markets -> Entry \cup {NoEntry}]
  BY <1>1, RateCallFacts
<1>6. QED
  BY <1>1, <1>2, <1>3, <1>4, <1>5, ShowKeeps

LEMMA FallBackKeeps ==
  ASSUME RateIInv, now \in Times, UNCHANGED now, NEW c \in Calls, FallBack(c)
  PROVE  RateIInv'
<1> DEFINE shown == [k \in Markets |-> IF k \in call[c].asked /\ IsUsable(c, k)
                                       THEN [quoted |-> cache[k].quoted, is_stale |-> TRUE]
                                       ELSE Nothing]
<1>1. Show(c, shown) /\ Goto(c, "answered") /\ cache' = cache
  BY DEF FallBack
<1>2. ASSUME NEW k \in Markets
      PROVE  /\ shown[k] \in Shown
             /\ shown[k].quoted # NotYet
                  => shown[k].is_stale /\ call[c].started - shown[k].quoted < Stale
  BY EntryIsYoung DEF Shown, Nothing
<1>3. shown \in [Markets -> Shown]
  BY <1>2
<1> HIDE DEF shown
<1>4. \A k \in Markets : cache'[k] # NoEntry => cache'[k].cached_at <= cache'[k].quoted
  BY <1>1 DEF RateIInv, RatesAreTimely, Cached
<1>5. cache' \in [Markets -> Entry \cup {NoEntry}]
  BY <1>1, RateCallFacts
<1>6. QED
  BY <1>1, <1>2, <1>3, <1>4, <1>5, ShowKeeps

\* A rate is cached with the clock of a call that began before it was quoted.
LEMMA InsertEffect ==
  ASSUME RateIInv, now \in Times, NEW c \in Calls, Insert(c)
  PROVE  /\ cache' \in [Markets -> Entry \cup {NoEntry}]
         /\ \A k \in Markets : cache'[k] # NoEntry => cache'[k].cached_at <= cache'[k].quoted
<1>1. ASSUME NEW k \in Markets
      PROVE  /\ cache'[k] \in Entry \cup {NoEntry}
             /\ cache'[k] # NoEntry => cache'[k].cached_at <= cache'[k].quoted
  <2>1. CASE k \in Got(c)
    BY <2>1, RateCallFacts DEF Insert, Got, Entry
  <2>2. CASE k \notin Got(c)
    BY <2>2, RateCallFacts DEF Insert, Cached
  <2>3. QED
    BY <2>1, <2>2
<1>2. QED
  BY <1>1 DEF Insert

LEMMA StoreRateKeeps ==
  ASSUME RateIInv, now \in Times, UNCHANGED now, NEW c \in Calls, StoreRate(c)
  PROVE  RateIInv'
<1> DEFINE shown == [k \in Markets |-> IF k \in Got(c)
                                       THEN [quoted |-> call[c].fetched[k], is_stale |-> FALSE]
                                       ELSE Nothing]
<1>1. Show(c, shown) /\ Goto(c, "answered") /\ Insert(c)
  BY DEF StoreRate
<1>2. ASSUME NEW k \in Markets
      PROVE  /\ shown[k] \in Shown
             /\ shown[k].quoted # NotYet
                  => ~shown[k].is_stale /\ call[c].started - shown[k].quoted < Fresh
  <2>1. CASE k \in Got(c)
    <3>1. /\ call[c].fetched[k] \in Times /\ call[c].fetched[k] \in Int
          /\ call[c].started \in Int /\ call[c].started <= call[c].fetched[k]
      BY <2>1, RateCallFacts DEF Got
    <3>2. call[c].started - call[c].fetched[k] < Fresh
      BY <3>1, NoCallType
    <3>3. QED
      BY <2>1, <3>1, <3>2 DEF Shown
  <2>2. CASE k \notin Got(c)
    BY <2>2 DEF Shown, Nothing
  <2>3. QED
    BY <2>1, <2>2
<1>3. shown \in [Markets -> Shown]
  BY <1>2
<1> HIDE DEF shown
<1>4. QED
  BY <1>1, <1>2, <1>3, InsertEffect, ShowKeeps

LEMMA StoreAllKeeps ==
  ASSUME RateIInv, now \in Times, UNCHANGED now, NEW c \in Calls, StoreAll(c)
  PROVE  RateIInv'
<1>1. /\ Insert(c) /\ stage' = [stage EXCEPT ![c] = "listing"] /\ "listing" \in Stages
      /\ "listing" # "answered" /\ call' = call
  BY DEF StoreAll, Goto, Stages
<1>2. PICK x \in Call : x = call[c]
  BY RateCallFacts
<1>3. call' = [call EXCEPT ![c] = x]
  BY <1>1, <1>2, RateCallFacts
<1>4. QED
  BY <1>1, <1>2, <1>3, RateCallFacts, InsertEffect, CallSteps

\* The provider answers a call that waits, after the call has begun.
LEMMA ProviderKeeps ==
  ASSUME RateIInv, now \in Times, UNCHANGED now, NEW c \in Calls, NEW k \in Markets,
         ProviderQuotes(c, k) \/ ProviderFails(c, k)
  PROVE  RateIInv'
<1>1. PICK v \in {now, Failed} : call' = [call EXCEPT ![c].fetched[k] = v]
  BY DEF ProviderQuotes, ProviderFails
<1> DEFINE x == [call[c] EXCEPT !.fetched = [call[c].fetched EXCEPT ![k] = v]]
<1>2. /\ stage[c] = "fetching" /\ cache' = cache /\ stage' = stage
  BY DEF ProviderQuotes, ProviderFails
<1>3. call' = [call EXCEPT ![c] = x]
  BY <1>1, RateCallFacts DEF Call
<1>4. /\ x \in Call /\ x.started = call[c].started
      /\ x.fetched = [call[c].fetched EXCEPT ![k] = v]
  BY RateCallFacts DEF Call
<1> HIDE DEF x
<1>5. ASSUME NEW j \in Markets, x.fetched[j] >= 0
      PROVE  x.started <= x.fetched[j]
  <2>1. CASE j = k
    <3>1. x.fetched[j] = v
      BY <1>4, <2>1, RateCallFacts
    <3>2. v # -2
      BY <1>5, <3>1
    <3>3. v = now
      BY <1>1, <3>2, NoCallType
    <3>4. QED
      BY <1>4, <3>1, <3>3, RateCallFacts
  <2>2. CASE j # k
    BY <1>4, <1>5, <2>2, RateCallFacts
  <2>3. QED
    BY <2>1, <2>2
<1>6. stage' = [stage EXCEPT ![c] = "fetching"] /\ "fetching" \in Stages
  BY <1>2, RateCallFacts DEF Stages
<1>7. \A j \in Markets : cache'[j] # NoEntry => cache'[j].cached_at <= cache'[j].quoted
  BY <1>2 DEF RateIInv, RatesAreTimely, Cached
<1>8. cache' \in [Markets -> Entry \cup {NoEntry}] /\ "fetching" # "answered"
  BY <1>2, RateCallFacts
<1>9. x.started <= now
  BY <1>4, RateCallFacts
<1>10. QED
  BY <1>3, <1>4, <1>5, <1>6, <1>7, <1>8, <1>9, CallSteps

LEMMA FetchKeeps ==
  ASSUME RateIInv, now \in Times, UNCHANGED now, NEW c \in Calls, Fetch(c)
  PROVE  RateIInv'
<1> DEFINE x == [call[c] EXCEPT !.fetching = {k \in call[c].asked : ~IsFresh(c, k)}]
<1>1. x \in Call /\ x.started = call[c].started /\ x.fetched = call[c].fetched
  BY RateCallFacts DEF Call
<1>2. /\ stage' = [stage EXCEPT ![c] = "fetching"] /\ "fetching" \in Stages
      /\ "fetching" # "answered" /\ call' = [call EXCEPT ![c] = x] /\ cache' = cache
  BY DEF Fetch, Goto, Stages
<1> HIDE DEF x
<1>3. \A k \in Markets : cache'[k] # NoEntry => cache'[k].cached_at <= cache'[k].quoted
  BY <1>2 DEF RateIInv, RatesAreTimely, Cached
<1>4. cache' \in [Markets -> Entry \cup {NoEntry}]
  BY <1>2, RateCallFacts
<1>5. QED
  BY <1>1, <1>2, <1>3, <1>4, RateCallFacts, CallSteps

LEMMA EndCallKeeps ==
  ASSUME RateIInv, now \in Times, UNCHANGED now, NEW c \in Calls, EndCall(c)
  PROVE  RateIInv'
<1>1. /\ stage' = [stage EXCEPT ![c] = "idle"] /\ "idle" \in Stages /\ "idle" # "answered"
      /\ call' = [call EXCEPT ![c] = NoCall] /\ cache' = cache
  BY DEF EndCall, Goto, Stages
<1>2. NoCall.started <= now /\ \A k \in Markets : ~(NoCall.fetched[k] >= 0)
  <2>1. ~(-1 >= 0) /\ 0 <= now
    BY ClockAssumption DEF Times
  <2>2. QED
    BY <2>1, NoCallType
<1>3. \A k \in Markets : cache'[k] # NoEntry => cache'[k].cached_at <= cache'[k].quoted
  BY <1>1 DEF RateIInv, RatesAreTimely, Cached
<1>4. cache' \in [Markets -> Entry \cup {NoEntry}]
  BY <1>1, RateCallFacts
<1>5. QED
  BY <1>1, <1>2, <1>3, <1>4, NoCallType, CallSteps

-------------------------------------------------------------------------------
(***************************************************************************)
(* The theorems.                                                           *)
(***************************************************************************)

\* The clock and both components.
RequestsIInv == now \in Times /\ LimiterIInv /\ RateIInv

LEMMA RequestsStart ==
  ASSUME Init
  PROVE  RequestsIInv
<1>1. now = 0 /\ LimiterInit /\ RateInit
  BY DEF Init
<1>2. now \in Times /\ LimiterIInv
  BY <1>1, NoCallType, LimiterStarts
<1>3. RateTypeOK
  BY <1>1, NoCallType DEF RateInit, RateTypeOK, Stages
<1>4. RatesAreTimely
  <2>1. 0 <= now /\ ~(-1 >= 0)
    BY <1>1
  <2>2. QED
    BY <1>1, <2>1, NoCallType DEF RateInit, RatesAreTimely, Cached
<1>5. AnswersWithinWindows
  BY <1>1 DEF RateInit, AnswersWithinWindows
<1>6. QED
  BY <1>2, <1>3, <1>4, <1>5 DEF RequestsIInv, RateIInv

LEMMA StepRequestsIInv ==
  ASSUME RequestsIInv, Next
  PROVE  RequestsIInv'
<1> USE DEF RequestsIInv
<1>1. ASSUME NEW p \in Peers, NEW c \in Calls, NEW all \in BOOLEAN, NEW keys \in SUBSET Markets,
             Allow(p), Begin(c, all, keys), UNCHANGED now
      PROVE  RequestsIInv'
  BY <1>1, AllowKeeps, BeginKeeps
<1>2. ASSUME NEW p \in Peers, RefuseRequest(p)
      PROVE  RequestsIInv'
  <2>1. LimiterIInv' /\ now' = now
    BY <1>2, RefuseKeeps DEF RefuseRequest
  <2>2. RateIInv'
    BY <1>2 DEF RefuseRequest, rateVars, RateIInv, RateTypeOK, RatesAreTimely, Cached,
                AnswersWithinWindows
  <2>3. QED
    BY <2>1, <2>2
<1>3. ASSUME NEW c \in Calls, Serve(c)
      PROVE  RequestsIInv'
  <2>1. RateStep(c) /\ UNCHANGED now /\ UNCHANGED limiterVars
    BY <1>3 DEF Serve
  <2>2. RateIInv'
    BY <2>1, AnswerFreshKeeps, FetchKeeps, ProviderKeeps, StoreRateKeeps, FallBackKeeps,
       StoreAllKeeps, ListAllKeeps, EndCallKeeps DEF RateStep
  <2>3. QED
    BY <2>1, <2>2, LimiterStutters
<1>4. ASSUME Tick
      PROVE  RequestsIInv'
  <2>1. LimiterIInv' /\ now' \in Times /\ now <= now'
    BY <1>4, TickKeeps, ClockAssumption DEF Tick, Advance, Times
  <2>2. RateTypeOK' /\ AnswersWithinWindows'
    BY <1>4 DEF Tick, rateVars, RateIInv, RateTypeOK, AnswersWithinWindows
  <2>3. RatesAreTimely'
    <3>1. \A c \in Calls : call'[c].started <= now'
      <4>1. ASSUME NEW c \in Calls
            PROVE  call[c].started <= now'
        <5>1. call[c].started \in Int /\ call[c].started <= now /\ now \in Int /\ now' = now + 1
          BY <1>4, RateCallFacts DEF Tick, Advance
        <5>2. QED
          BY <5>1
      <4>2. QED
        BY <1>4, <4>1 DEF Tick, rateVars
    <3>2. QED
      BY <1>4, <3>1 DEF Tick, rateVars, RateIInv, RatesAreTimely, Cached
  <2>4. QED
    BY <2>1, <2>2, <2>3 DEF RateIInv
<1>5. QED
  BY <1>1, <1>2, <1>3, <1>4 DEF Next, GetRate, GetAllRates

THEOREM RequestsInductive == Spec => []RequestsIInv
<1>1. RequestsIInv /\ UNCHANGED vars => RequestsIInv'
  BY LimiterStutters
     DEF RequestsIInv, vars, limiterVars, RateIInv, RateTypeOK, RatesAreTimely, Cached,
         AnswersWithinWindows
<1>2. QED
  BY RequestsStart, StepRequestsIInv, <1>1, PTL DEF Spec

\* Every variable of the limiter and of the rate service keeps its type; in particular
\* no window ever counts more requests than the limit.
THEOREM TypeCorrect == Spec => []TypeOK
<1>1. RequestsIInv => TypeOK
  BY DEF RequestsIInv, LimiterIInv, RateIInv, TypeOK
<1>2. QED
  BY <1>1, RequestsInductive, PTL

\* No peer gets more than two limits within a window's length, whatever the other peers
\* do and whichever windows the clean-up of the map drops.
THEOREM TwoLimitsAtMost == Spec => []NoMoreThanTwoLimits
<1>1. RequestsIInv => NoMoreThanTwoLimits
  BY TwoLimits DEF RequestsIInv
<1>2. QED
  BY <1>1, RequestsInductive, PTL

\* Whoever is refused has used up its limit, or finds the map full of peers that were
\* let through within the last window.
THEOREM NobodyIsRefusedIdly == Spec => []RefusalsHaveReasons
<1>1. RequestsIInv => RefusalsHaveReasons
  BY DEF RequestsIInv, LimiterIInv
<1>2. QED
  BY <1>1, RequestsInductive, PTL

\* No call shows a rate older than the window it claims, however many calls fetch and
\* overwrite the same entry, and however long a provider takes.
THEOREM RatesAreAsFreshAsShown == Spec => []AnswersWithinWindows
<1>1. RequestsIInv => AnswersWithinWindows
  BY DEF RequestsIInv, RateIInv
<1>2. QED
  BY <1>1, RequestsInductive, PTL
==============================================================================
