---------------------------- MODULE FeedProofs ----------------------------
(***************************************************************************)
(* Theorems about the processing feed, for any numbers of documents and of *)
(* sockets and any bounds: each mount keeps one way to the events unless a *)
(* named failure takes it, a completed document is shown with its own      *)
(* type, statuses are received in order, the feed implements the board,    *)
(* and what was addressed arrives.                                         *)
(***************************************************************************)
EXTENDS Feed, FiniteSetTheorems, SequenceTheorems, WellFoundedInduction, TLAPS

---------------------------------------------------------------------------
(* Lists.  What holds of every element that was looked at is proved by the *)
(* least one of which it would not hold.                                   *)

\* Of the naturals in a set one is the least.
LEMMA LeastNatural ==
  ASSUME NEW T \in SUBSET Nat, T # {}
  PROVE  \E m \in T : \A n \in T : m <= n
<1> DEFINE Less == OpToRel(<, Nat)
<1>1. IsWellFoundedOn(Less, Nat)
  BY NatLessThanWellFounded
<1>2. \A m, n \in Nat : n < m => <<n, m>> \in Less
  BY DEF OpToRel
<1> HIDE DEF Less
<1>3. PICK m \in T : \A n \in T : <<n, m>> \notin Less
  BY <1>1, WFMin
<1>4. \A n \in T : m <= n
  <2> TAKE n \in T
  <2>1. m \in Nat /\ n \in Nat /\ ~(n < m)
    BY <1>2, <1>3
  <2> QED BY <2>1
<1> QED BY <1>3, <1>4

Look(seq, S, kept, i) ==
  IF i = 0 THEN <<>>
  ELSE IF seq[i] \in S THEN kept[i - 1] ELSE Append(kept[i - 1], seq[i])

\* What is kept of the list, by how much of it was looked at.
Keeps(seq, S, n, kept) == kept = [i \in 0 .. n |-> Look(seq, S, kept, i)]

LEMMA KeptExists ==
  ASSUME NEW seq, Len(seq) \in Nat, NEW S
  PROVE  \E kept : Keeps(seq, S, Len(seq), kept)
<1> DEFINE T == {n \in 0 .. Len(seq) : ~ \E kept : Keeps(seq, S, n, kept)}
<1> SUFFICES ASSUME T # {} PROVE FALSE
  OBVIOUS
<1>1. PICK m \in T : \A n \in T : m <= n
  <2>1. T \in SUBSET Nat
    OBVIOUS
  <2> HIDE DEF T
  <2> QED BY <2>1, LeastNatural
<1>2. m \in Nat
  OBVIOUS
<1>3. CASE m = 0
  <2>1. Keeps(seq, S, 0, [i \in 0 .. 0 |-> <<>>])
    BY DEF Keeps, Look
  <2> QED BY <1>3, <2>1
<1>4. CASE m # 0
  <2>1. m - 1 \in 0 .. Len(seq) /\ m - 1 \notin T
    BY <1>1, <1>2, <1>4
  <2>2. PICK g : Keeps(seq, S, m - 1, g)
    BY <2>1
  <2> DEFINE h == [i \in 0 .. m |-> IF i = m THEN Look(seq, S, g, m) ELSE g[i]]
  <2>3. \A i \in 0 .. m - 1 : h[i] = g[i]
    BY <1>2
  <2>4. ASSUME NEW i \in 0 .. m PROVE h[i] = Look(seq, S, h, i)
    <3>1. CASE i = m
      BY <1>2, <1>4, <2>3, <3>1 DEF Look
    <3>2. CASE i # m
      <4>1. i \in 0 .. m - 1 /\ (i # 0 => i - 1 \in 0 .. m - 1)
        BY <1>2, <3>2
      <4>2. g[i] = Look(seq, S, g, i)
        BY <2>2, <4>1 DEF Keeps
      <4> QED BY <2>3, <4>1, <4>2 DEF Look
    <3> QED BY <3>1, <3>2
  <2>5. h = [i \in 0 .. m |-> Look(seq, S, h, i)]
    BY <2>4
  <2>6. Keeps(seq, S, m, h)
    BY <2>5 DEF Keeps
  <2> QED BY <2>6
<1> QED BY <1>3, <1>4

\* s is what is kept of the first i elements of seq.
KeptOf(s, seq, S, i, X) ==
  /\ s \in Seq(X)
  /\ \A k \in 1 .. Len(s) : \E j \in 1 .. i : s[k] = seq[j] /\ seq[j] \notin S
  /\ \A j \in 1 .. i : seq[j] \notin S => \E k \in 1 .. Len(s) : s[k] = seq[j]

NoRepeats(s) == \A i, j \in 1 .. Len(s) : s[i] = s[j] => i = j

LEMMA KeepsOneMore ==
  ASSUME NEW X, NEW seq \in Seq(X), NEW S, NEW i \in 1 .. Len(seq),
         NEW s, KeptOf(s, seq, S, i - 1, X), NoRepeats(seq) => NoRepeats(s)
  PROVE  LET r == IF seq[i] \in S THEN s ELSE Append(s, seq[i]) IN
         KeptOf(r, seq, S, i, X) /\ (NoRepeats(seq) => NoRepeats(r))
<1>1. i \in Nat /\ Len(seq) \in Nat /\ seq[i] \in X
  BY ElementOfSeq
<1>2. \A j \in 1 .. i : j \in 1 .. i - 1 \/ j = i
  BY <1>1
<1>3. CASE seq[i] \in S
  BY <1>1, <1>2, <1>3 DEF KeptOf
<1>4. CASE seq[i] \notin S
  <2> DEFINE r == Append(s, seq[i])
             n == Len(s)
  <2>1. s \in Seq(X) /\ n \in Nat
    BY DEF KeptOf
  <2>2. /\ r \in Seq(X) /\ Len(r) = n + 1 /\ r[n + 1] = seq[i]
        /\ \A k \in 1 .. n : r[k] = s[k]
    BY <1>1, <2>1, AppendProperties
  <2> HIDE DEF r
  <2>3. \A k \in 1 .. n + 1 : k \in 1 .. n \/ k = n + 1
    BY <2>1
  <2>4. KeptOf(r, seq, S, i, X)
    <3>1. \A k \in 1 .. Len(r) : \E j \in 1 .. i : r[k] = seq[j] /\ seq[j] \notin S
      <4> TAKE k \in 1 .. Len(r)
      <4>1. CASE k = n + 1
        BY <1>1, <1>4, <2>2, <4>1
      <4>2. CASE k \in 1 .. n
        <5>1. PICK j \in 1 .. i - 1 : s[k] = seq[j] /\ seq[j] \notin S
          BY <4>2 DEF KeptOf
        <5>2. j \in 1 .. i
          BY <1>1
        <5> QED BY <2>2, <4>2, <5>1, <5>2
      <4> QED BY <2>2, <2>3, <4>1, <4>2
    <3>2. ASSUME NEW j \in 1 .. i, seq[j] \notin S
          PROVE  \E k \in 1 .. Len(r) : r[k] = seq[j]
      <4>1. CASE j = i
        <5>1. n + 1 \in 1 .. Len(r) /\ r[n + 1] = seq[j]
          BY <2>1, <2>2, <4>1
        <5> QED BY <5>1
      <4>2. CASE j # i
        <5>1. PICK k \in 1 .. n : s[k] = seq[j]
          BY <1>2, <3>2, <4>2 DEF KeptOf
        <5>2. k \in 1 .. Len(r) /\ r[k] = seq[j]
          BY <2>1, <2>2, <5>1
        <5> QED BY <5>2
      <4> QED BY <4>1, <4>2
    <3> QED BY <2>2, <3>1, <3>2 DEF KeptOf
  <2>5. NoRepeats(seq) => NoRepeats(r)
    <3> SUFFICES ASSUME NoRepeats(seq), NEW k \in 1 .. Len(r), NEW l \in 1 .. Len(r),
                        r[k] = r[l]
                 PROVE  k = l
      BY DEF NoRepeats
    <3>1. \A k1 \in 1 .. n : s[k1] # seq[i]
      <4> SUFFICES ASSUME NEW k1 \in 1 .. n, s[k1] = seq[i] PROVE FALSE
        OBVIOUS
      <4>1. PICK j \in 1 .. i - 1 : s[k1] = seq[j]
        BY DEF KeptOf
      <4>2. j \in 1 .. Len(seq) /\ i \in 1 .. Len(seq) /\ j # i
        BY <1>1
      <4> QED BY <4>1, <4>2 DEF NoRepeats
    <3>2. (k \in 1 .. n \/ k = n + 1) /\ (l \in 1 .. n \/ l = n + 1)
      BY <2>2, <2>3
    <3> QED BY <2>2, <3>1, <3>2 DEF NoRepeats
  <2> QED BY <1>4, <2>4, <2>5 DEF r
<1> QED BY <1>3, <1>4

\* What is left of a list are its elements that are not in S, once each if
\* the list had none twice.
LEMMA WithoutProperties ==
  ASSUME NEW X, NEW seq \in Seq(X), NEW S
  PROVE  /\ Without(seq, S) \in Seq(X)
         /\ ToSet(Without(seq, S)) = ToSet(seq) \ S
         /\ NoRepeats(seq) => NoRepeats(Without(seq, S))
<1> DEFINE N == Len(seq)
           kept == CHOOSE g : Keeps(seq, S, N, g)
           Good(i) == /\ KeptOf(kept[i], seq, S, i, X)
                      /\ NoRepeats(seq) => NoRepeats(kept[i])
           T == {i \in 0 .. N : ~Good(i)}
<1>1. N \in Nat
  OBVIOUS
<1>2. Keeps(seq, S, N, kept)
  BY <1>1, KeptExists
<1>3. Without(seq, S) = kept[N]
  BY DEF Without, Keeps, Look
<1> HIDE DEF kept, N
<1>4. \A i \in 0 .. N : kept[i] = Look(seq, S, kept, i)
  BY <1>2 DEF Keeps
<1>5. Good(0)
  <2>1. kept[0] = <<>>
    BY <1>1, <1>4 DEF Look
  <2>2. <<>> \in Seq(X) /\ Len(<<>>) = 0
    OBVIOUS
  <2> QED BY <2>1, <2>2 DEF KeptOf, NoRepeats
<1>6. ASSUME NEW i \in 1 .. N, Good(i - 1) PROVE Good(i)
  <2>1. kept[i] = IF seq[i] \in S THEN kept[i - 1] ELSE Append(kept[i - 1], seq[i])
    BY <1>1, <1>4 DEF Look
  <2>2. i \in 1 .. Len(seq)
    BY DEF N
  <2> QED BY <1>6, <2>1, <2>2, KeepsOneMore
<1>7. T = {}
  <2> SUFFICES ASSUME T # {} PROVE FALSE
    OBVIOUS
  <2>1. T \in SUBSET Nat
    BY <1>1
  <2>2. PICK m \in T : \A n \in T : m <= n
    <3> HIDE DEF T
    <3> QED BY <2>1, LeastNatural
  <2>3. m \in 0 .. N /\ ~Good(m)
    OBVIOUS
  <2>4. m # 0
    BY <1>5, <2>3
  <2>5. m \in 1 .. N /\ m - 1 \in 0 .. N /\ m - 1 \notin T
    BY <1>1, <2>2, <2>3, <2>4
  <2>6. Good(m - 1)
    BY <2>5
  <2> HIDE DEF Good
  <2> QED BY <1>6, <2>3, <2>5, <2>6
<1>8. Good(N)
  BY <1>1, <1>7
<1>9. ToSet(kept[N]) = ToSet(seq) \ S
  <2>1. DOMAIN seq = 1 .. N /\ DOMAIN kept[N] = 1 .. Len(kept[N])
    BY <1>8 DEF KeptOf, N
  <2>2. KeptOf(kept[N], seq, S, N, X)
    BY <1>8
  <2> DEFINE w == kept[N]
  <2>3. /\ DOMAIN w = 1 .. Len(w)
        /\ \A k \in 1 .. Len(w) : \E j \in 1 .. N : w[k] = seq[j] /\ seq[j] \notin S
        /\ \A j \in 1 .. N : seq[j] \notin S => \E k \in 1 .. Len(w) : w[k] = seq[j]
    BY <2>1, <2>2 DEF KeptOf
  <2> HIDE DEF w, N
  <2>4. ToSet(w) \subseteq ToSet(seq) \ S
    BY <2>1, <2>3 DEF ToSet
  <2>5. ToSet(seq) \ S \subseteq ToSet(w)
    BY <2>1, <2>3 DEF ToSet
  <2> QED BY <2>4, <2>5 DEF w
<1> QED BY <1>3, <1>8, <1>9 DEF KeptOf

---------------------------------------------------------------------------
(* The way back *)

States == {"closed", "connecting", "open", "closing"}
Hooks  == [current : Socks \cup {None}, attempts : Nat, timers : Nat,
           streams : Nat, lost : Nat, remounts : Nat]

HookType == /\ sock \in [Socks -> States] /\ hook \in Hooks
            /\ token \in BOOLEAN /\ IsFiniteSet(Live)

Inv == HookType /\ WayBack

\* A try without a token, a stream that fails, a login or logout elsewhere.
Quiet == LogOut \/ LogIn \/ RetryLoggedOut \/ StreamFails

\* Only these steps change the state of a socket, of the hook or of the token.
LEMMA Others ==
  ASSUME Next
  PROVE  \/ UNCHANGED <<sock, hook, token>>
         \/ Restart
         \/ Quiet
         \/ \E s \in Socks : Retry(s) \/ Remount(s) \/ OnOpen(s) \/ OnClose(s)
BY DEF Next, TaskStep, Begin, Downloaded, Analysed, Failed, Emit, SendText,
       SendRaises, SecondPasses, Accept, Register, HandlerEnds, OnMessage, client,
       Quiet

\* The ways of the hook that are no sockets.
Ways(h) == h.timers + h.streams + h.lost

LEMMA QuietSteps ==
  ASSUME HookType, Quiet
  PROVE  /\ UNCHANGED <<server, served, wire, sock, feed, owed>>
         /\ hook' \in Hooks /\ token' \in BOOLEAN
         /\ hook'.attempts = hook.attempts /\ hook'.remounts = hook.remounts
         /\ hook'.timers <= hook.timers /\ Ways(hook') = Ways(hook)
<1>1. /\ hook \in Hooks /\ token \in BOOLEAN /\ hook.timers \in Nat
      /\ hook.streams \in Nat /\ hook.lost \in Nat
  BY DEF HookType, Hooks
<1>2. CASE LogOut \/ LogIn
  <2>1. UNCHANGED <<server, served, wire, sock, hook, feed, owed>>
    BY <1>2 DEF LogOut, LogIn
  <2>2. token' \in BOOLEAN
    BY <1>2 DEF LogOut, LogIn
  <2> QED
    BY <1>1, <2>1, <2>2
<1>3. CASE RetryLoggedOut
  <2>1. /\ hook' = [hook EXCEPT !.timers = hook.timers - 1,
                                !.lost = hook.lost + 1]
        /\ hook.timers > 0
    BY <1>3 DEF RetryLoggedOut
  <2>2. UNCHANGED <<server, served, wire, sock, feed, token, owed>>
    BY <1>3 DEF RetryLoggedOut
  <2>3. hook.timers - 1 \in Nat /\ hook.lost + 1 \in Nat
    BY <1>1, <2>1
  <2>4. /\ hook' \in Hooks
        /\ hook'.timers = hook.timers - 1 /\ hook'.streams = hook.streams
        /\ hook'.lost = hook.lost + 1 /\ hook'.attempts = hook.attempts
        /\ hook'.remounts = hook.remounts
    BY <1>1, <2>1, <2>3 DEF Hooks
  <2>5. Ways(hook') = Ways(hook) /\ hook'.timers <= hook.timers
    BY <1>1, <2>4 DEF Ways
  <2> QED
    BY <1>1, <2>2, <2>4, <2>5
<1>4. CASE StreamFails
  <2>1. /\ hook' = [hook EXCEPT !.streams = hook.streams - 1,
                                !.lost = hook.lost + 1]
        /\ hook.streams > 0
    BY <1>4 DEF StreamFails
  <2>2. UNCHANGED <<server, served, wire, sock, feed, token, owed>>
    BY <1>4 DEF StreamFails
  <2>3. hook.streams - 1 \in Nat /\ hook.lost + 1 \in Nat
    BY <1>1, <2>1
  <2>4. /\ hook' \in Hooks
        /\ hook'.timers = hook.timers /\ hook'.streams = hook.streams - 1
        /\ hook'.lost = hook.lost + 1 /\ hook'.attempts = hook.attempts
        /\ hook'.remounts = hook.remounts
    BY <1>1, <2>1, <2>3 DEF Hooks
  <2>5. Ways(hook') = Ways(hook) /\ hook'.timers <= hook.timers
    BY <1>1, <2>4 DEF Ways
  <2> QED
    BY <1>1, <2>2, <2>4, <2>5
<1> QED
  BY <1>2, <1>3, <1>4 DEF Quiet

\* A closure adds a timer, a stream, or a way that is lost.
LEMMA CloseSteps ==
  ASSUME HookType, NEW s \in Socks, OnClose(s)
  PROVE  /\ UNCHANGED <<server, served, feed, token>>
         /\ sock[s] # "closed"
         /\ sock' = [sock EXCEPT ![s] = "closed"]
         /\ wire' = [wire EXCEPT ![s] = <<>>]
         /\ owed' = [owed EXCEPT ![s] = [d \in Docs |-> 0]]
         /\ hook' \in Hooks /\ hook'.remounts = hook.remounts
         /\ hook'.timers \in {hook.timers, hook.timers + 1}
         /\ \/ hook'.attempts = hook.attempts
            \/ hook'.attempts = hook.attempts + 1 /\ hook.attempts < MaxAttempts
         /\ Ways(hook') = Ways(hook) + 1
<1>1. /\ hook \in Hooks /\ hook.attempts \in Nat /\ MaxAttempts \in Nat
      /\ hook.timers \in Nat /\ hook.streams \in Nat /\ hook.lost \in Nat
      /\ hook.attempts + 1 \in Nat /\ hook.timers + 1 \in Nat
      /\ hook.streams + 1 \in Nat /\ hook.lost + 1 \in Nat
  BY FeedAssumption DEF HookType, Hooks
<1>2. Closes(s, IF hook.attempts >= MaxAttempts THEN SSE ELSE Again)
  BY DEF OnClose
<1>3. /\ UNCHANGED <<server, served, feed, token>>
      /\ sock[s] # "closed"
      /\ sock' = [sock EXCEPT ![s] = "closed"]
      /\ wire' = [wire EXCEPT ![s] = <<>>]
      /\ owed' = [owed EXCEPT ![s] = [d \in Docs |-> 0]]
  BY <1>2 DEF Closes
<1>4. CASE hook.attempts >= MaxAttempts /\ token
  <2>1. hook' = [hook EXCEPT !.streams = hook.streams + 1]
    BY <1>2, <1>4 DEF Closes, SSE
  <2>2. /\ hook' \in Hooks /\ hook'.remounts = hook.remounts
        /\ hook'.attempts = hook.attempts /\ hook'.timers = hook.timers
        /\ hook'.streams = hook.streams + 1 /\ hook'.lost = hook.lost
    BY <1>1, <2>1 DEF Hooks
  <2>3. Ways(hook') = Ways(hook) + 1
    BY <1>1, <2>2 DEF Ways
  <2> QED
    BY <1>3, <2>2, <2>3
<1>5. CASE hook.attempts >= MaxAttempts /\ ~token
  <2>1. hook' = [hook EXCEPT !.lost = hook.lost + 1]
    BY <1>2, <1>5 DEF Closes, SSE
  <2>2. /\ hook' \in Hooks /\ hook'.remounts = hook.remounts
        /\ hook'.attempts = hook.attempts /\ hook'.timers = hook.timers
        /\ hook'.streams = hook.streams /\ hook'.lost = hook.lost + 1
    BY <1>1, <2>1 DEF Hooks
  <2>3. Ways(hook') = Ways(hook) + 1
    BY <1>1, <2>2 DEF Ways
  <2> QED
    BY <1>3, <2>2, <2>3
<1>6. CASE ~(hook.attempts >= MaxAttempts)
  <2>1. hook' = [hook EXCEPT !.attempts = hook.attempts + 1,
                             !.timers = hook.timers + 1]
    BY <1>2, <1>6 DEF Closes, Again
  <2>2. /\ hook' \in Hooks /\ hook'.remounts = hook.remounts
        /\ hook'.attempts = hook.attempts + 1 /\ hook'.timers = hook.timers + 1
        /\ hook'.streams = hook.streams /\ hook'.lost = hook.lost
    BY <1>1, <2>1 DEF Hooks
  <2>3. Ways(hook') = Ways(hook) + 1 /\ hook.attempts < MaxAttempts
    BY <1>1, <1>6, <2>2 DEF Ways
  <2> QED
    BY <1>3, <2>2, <2>3
<1> QED
  BY <1>4, <1>5, <1>6

LEMMA RetrySteps ==
  ASSUME HookType, NEW s \in Socks, Retry(s)
  PROVE  /\ sock[s] = "closed" /\ sock' = [sock EXCEPT ![s] = "connecting"]
         /\ hook' \in Hooks /\ hook.timers > 0 /\ hook'.timers = hook.timers - 1
         /\ hook'.attempts = hook.attempts /\ hook'.remounts = hook.remounts
         /\ Ways(hook') = Ways(hook) - 1
<1>1. /\ hook \in Hooks /\ hook.timers \in Nat
      /\ hook.streams \in Nat /\ hook.lost \in Nat
  BY DEF HookType, Hooks
<1>2. /\ hook' = [hook EXCEPT !.current = s, !.timers = hook.timers - 1]
      /\ hook.timers > 0 /\ sock[s] = "closed"
      /\ sock' = [sock EXCEPT ![s] = "connecting"]
  BY DEF Retry, Free
<1>3. hook.timers - 1 \in Nat
  BY <1>1, <1>2
<1>4. /\ hook' \in Hooks /\ hook'.timers = hook.timers - 1
      /\ hook'.streams = hook.streams /\ hook'.lost = hook.lost
      /\ hook'.attempts = hook.attempts /\ hook'.remounts = hook.remounts
  BY <1>1, <1>2, <1>3 DEF Hooks
<1>5. Ways(hook') = Ways(hook) - 1
  BY <1>1, <1>4 DEF Ways
<1> QED
  BY <1>2, <1>4, <1>5

LEMMA RemountSteps ==
  ASSUME HookType, NEW s \in Socks, Remount(s)
  PROVE  /\ sock[s] = "closed" /\ sock'[s] = "connecting"
         /\ sock' \in [Socks -> States]
         /\ \A t \in Socks \ {s} : sock'[t] = "closed" <=> sock[t] = "closed"
         /\ hook' \in Hooks /\ hook'.timers = hook.timers
         /\ hook'.attempts = hook.attempts
         /\ hook'.remounts = hook.remounts + 1 /\ hook.remounts < MaxRemounts
         /\ Ways(hook') = Ways(hook)
<1>1. hook \in Hooks /\ hook.remounts \in Nat /\ sock \in [Socks -> States]
  BY DEF HookType, Hooks
<1>2. /\ hook' = [hook EXCEPT !.current = s, !.remounts = hook.remounts + 1]
      /\ hook.remounts < MaxRemounts
  BY DEF Remount
<1>3. /\ sock[s] = "closed" /\ sock'[s] = "connecting"
      /\ sock' \in [Socks -> States]
      /\ \A t \in Socks \ {s} : sock'[t] = "closed" <=> sock[t] = "closed"
  BY <1>1 DEF Remount, Free, States
<1>4. hook.remounts + 1 \in Nat
  BY <1>1
<1>5. PICK n \in Nat : n = hook.remounts + 1
  BY <1>4
<1>6. /\ hook' \in Hooks /\ hook'.timers = hook.timers
      /\ hook'.streams = hook.streams /\ hook'.lost = hook.lost
      /\ hook'.attempts = hook.attempts /\ hook'.remounts = n
  BY <1>1, <1>2, <1>5 DEF Hooks
<1>7. Ways(hook') = Ways(hook)
  BY <1>6 DEF Ways
<1> QED
  BY <1>2, <1>3, <1>5, <1>6, <1>7

LEMMA OpenSteps ==
  ASSUME HookType, NEW s \in Socks, OnOpen(s)
  PROVE  /\ sock[s] = "connecting" /\ sock' = [sock EXCEPT ![s] = "open"]
         /\ hook' \in Hooks /\ hook'.timers = hook.timers
         /\ hook'.attempts = 0 /\ hook'.remounts = hook.remounts
         /\ Ways(hook') = Ways(hook)
<1>1. hook \in Hooks
  BY DEF HookType
<1>2. hook' = [hook EXCEPT !.attempts = 0]
  BY DEF OnOpen
<1> QED
  BY <1>1, <1>2 DEF OnOpen, Hooks, Ways

LEMMA InitInv == Init => Inv
<1> SUFFICES ASSUME Init PROVE Inv
  OBVIOUS
<1>1. Live = {}
  BY DEF Init, Live
<1>2. IsFiniteSet(Live) /\ Cardinality(Live) = 0
  BY <1>1, FS_EmptySet
<1>3. sock \in [Socks -> States] /\ hook \in Hooks /\ token \in BOOLEAN
  BY DEF Init, States, Hooks
<1>4. hook.timers = 1 /\ hook.streams = 0 /\ hook.lost = 0 /\ hook.remounts = 0
  BY DEF Init
<1> QED
  BY <1>2, <1>3, <1>4 DEF Inv, HookType, WayBack

\* The ways are counted: a step moves one from a socket, a timer or a stream to
\* the next, and a mount adds one.
LEMMA Counted ==
  ASSUME Inv, hook' \in Hooks, token' \in BOOLEAN, sock' \in [Socks -> States],
         \/ /\ Live' = Live
            /\ hook'.remounts = hook.remounts /\ Ways(hook') = Ways(hook)
         \/ /\ \E s \in Socks \ Live : Live' = Live \cup {s}
            /\ \/ hook'.remounts = hook.remounts /\ Ways(hook') = Ways(hook) - 1
               \/ hook'.remounts = hook.remounts + 1 /\ Ways(hook') = Ways(hook)
         \/ /\ \E s \in Live : Live' = Live \ {s}
            /\ hook'.remounts = hook.remounts /\ Ways(hook') = Ways(hook) + 1
  PROVE  Inv'
<1> DEFINE c == Cardinality(Live)
           n == Cardinality(Live')
<1>1. IsFiniteSet(Live) /\ c \in Nat
  BY FS_CardinalityType DEF Inv, HookType
<1>2. IsFiniteSet(Live')
  BY <1>1, FS_AddElement, FS_RemoveElement
<1>3. n \in Nat
  BY <1>2, FS_CardinalityType
<1>4. ASSUME NEW s \in Socks \ Live, Live' = Live \cup {s} PROVE n = c + 1
  BY <1>1, <1>4, FS_AddElement
<1>5. ASSUME NEW s \in Live, Live' = Live \ {s} PROVE n = c - 1
  BY <1>1, <1>5, FS_RemoveElement
<1>6. /\ hook.timers \in Nat /\ hook.streams \in Nat /\ hook.lost \in Nat
      /\ hook.remounts \in Nat /\ c + hook.timers + hook.streams + hook.lost = 1 + hook.remounts
  BY DEF Inv, HookType, Hooks, WayBack
<1>7. /\ hook'.timers \in Nat /\ hook'.streams \in Nat /\ hook'.lost \in Nat
      /\ hook'.remounts \in Nat
  BY DEF Hooks
<1>8. \/ n = c /\ hook'.remounts = hook.remounts /\ Ways(hook') = Ways(hook)
      \/ n = c + 1 /\ hook'.remounts = hook.remounts /\ Ways(hook') = Ways(hook) - 1
      \/ n = c + 1 /\ hook'.remounts = hook.remounts + 1 /\ Ways(hook') = Ways(hook)
      \/ n = c - 1 /\ hook'.remounts = hook.remounts /\ Ways(hook') = Ways(hook) + 1
  BY <1>4, <1>5
<1> HIDE DEF c, n
<1>9. n + hook'.timers + hook'.streams + hook'.lost = 1 + hook'.remounts
  BY <1>1, <1>3, <1>6, <1>7, <1>8 DEF Ways
<1> QED
  BY <1>2, <1>9 DEF Inv, HookType, WayBack, n

LEMMA NextInv == Inv /\ [Next]_vars => Inv'
<1> SUFFICES ASSUME Inv, [Next]_vars PROVE Inv'
  OBVIOUS
<1>0. /\ HookType /\ hook \in Hooks /\ token \in BOOLEAN
      /\ sock \in [Socks -> States]
  BY DEF Inv, HookType
<1>1. CASE UNCHANGED <<sock, hook, token>>
  <2>1. Live' = Live
    BY <1>1 DEF Live
  <2> QED
    BY <1>0, <1>1, <2>1, Counted
<1>2. CASE Restart
  <2>1. hook' = hook /\ token' = token
    BY <1>2 DEF Restart, client
  <2>2. /\ sock' \in [Socks -> States]
        /\ \A s \in Socks : sock'[s] = "closed" <=> sock[s] = "closed"
    BY <1>0, <1>2 DEF Restart, States
  <2>3. Live' = Live
    BY <2>2 DEF Live
  <2> QED
    BY <1>0, <2>1, <2>2, <2>3, Counted
<1>3. CASE Quiet
  <2>1. /\ sock' = sock /\ hook' \in Hooks /\ token' \in BOOLEAN
        /\ hook'.remounts = hook.remounts /\ Ways(hook') = Ways(hook)
    BY <1>0, <1>3, QuietSteps
  <2>2. Live' = Live
    BY <2>1 DEF Live
  <2> QED
    BY <1>0, <2>1, <2>2, Counted
<1>4. ASSUME NEW s \in Socks, Retry(s) PROVE Inv'
  <2>1. /\ sock[s] = "closed" /\ sock' = [sock EXCEPT ![s] = "connecting"]
        /\ hook' \in Hooks /\ hook'.remounts = hook.remounts
        /\ Ways(hook') = Ways(hook) - 1
    BY <1>0, <1>4, RetrySteps
  <2>2. sock' \in [Socks -> States] /\ token' = token
    BY <1>0, <1>4, <2>1 DEF Retry, States
  <2>3. s \in Socks \ Live /\ Live' = Live \cup {s}
    BY <1>0, <2>1 DEF Live
  <2> QED
    BY <1>0, <2>1, <2>2, <2>3, Counted
<1>5. ASSUME NEW s \in Socks, Remount(s) PROVE Inv'
  <2>1. /\ sock[s] = "closed" /\ sock'[s] = "connecting"
        /\ sock' \in [Socks -> States]
        /\ \A t \in Socks \ {s} : sock'[t] = "closed" <=> sock[t] = "closed"
        /\ hook' \in Hooks /\ hook'.remounts = hook.remounts + 1
        /\ Ways(hook') = Ways(hook)
    BY <1>0, <1>5, RemountSteps
  <2>2. token' = token
    BY <1>5 DEF Remount
  <2>3. s \in Socks \ Live /\ Live' = Live \cup {s}
    BY <2>1 DEF Live
  <2> QED
    BY <1>0, <2>1, <2>2, <2>3, Counted
<1>6. ASSUME NEW s \in Socks, OnOpen(s) PROVE Inv'
  <2>1. /\ sock[s] = "connecting" /\ sock' = [sock EXCEPT ![s] = "open"]
        /\ hook' \in Hooks /\ hook'.remounts = hook.remounts
        /\ Ways(hook') = Ways(hook)
    BY <1>0, <1>6, OpenSteps
  <2>2. sock' \in [Socks -> States] /\ token' = token
    BY <1>0, <1>6, <2>1 DEF OnOpen, States
  <2>3. Live' = Live
    BY <1>0, <2>1 DEF Live
  <2> QED
    BY <1>0, <2>1, <2>2, <2>3, Counted
<1>7. ASSUME NEW s \in Socks, OnClose(s) PROVE Inv'
  <2>1. /\ sock[s] # "closed" /\ sock' = [sock EXCEPT ![s] = "closed"]
        /\ token' = token /\ hook' \in Hooks /\ hook'.remounts = hook.remounts
        /\ Ways(hook') = Ways(hook) + 1
    BY <1>0, <1>7, CloseSteps
  <2>2. sock' \in [Socks -> States]
    BY <1>0, <2>1 DEF States
  <2>3. s \in Live /\ Live' = Live \ {s}
    BY <1>0, <2>1 DEF Live
  <2> QED
    BY <1>0, <2>1, <2>2, <2>3, Counted
<1>8. CASE UNCHANGED vars
  BY <1>1, <1>8 DEF vars, client
<1> QED
  BY <1>1, <1>2, <1>3, <1>4, <1>5, <1>6, <1>7, <1>8, Others

\* However sockets fail and the page is mounted again, each mount has a socket,
\* a timer that opens one, or an SSE stream, and one only, until a try without a
\* token or the failure of a stream ends it.
THEOREM AlwaysAWayBack == Spec => []WayBack
<1>1. Inv => WayBack
  BY DEF Inv
<1> QED BY InitInv, NextInv, <1>1, PTL DEF Spec

---------------------------------------------------------------------------
(* What is shown as completed *)

\* Messages and items of which the completed ones have their own type.
RightMessages == {m \in Message : m.status = "completed" => m.type = m.doc}
Items == [id : Docs, status : {"ingesting", "parsing"} \cup Finals,
          documentType : Docs \cup {None}]
RightItems == {i \in Items : i.status = "completed" => i.documentType = i.id}

\* What is held back, being sent, on its way or shown is right.
RightInv ==
  /\ held \in RightMessages \cup {None}
  /\ DOMAIN task = Docs
  /\ \A d \in Docs : task[d].at = "send" => task[d].msg \in RightMessages
  /\ wire \in [Socks -> Seq(RightMessages)]
  /\ feed \in Seq(RightItems)

Emitted == {"ingesting", "parsing"} \cup Finals

\* The payload held back, of which the type may be taken, goes with a status
\* other than "completed".
LEMMA MergedRight ==
  ASSUME RightInv, NEW d \in Docs, NEW status \in Emitted
  PROVE  /\ Payload(d, status) \in RightMessages
         /\ Merged(Payload(d, status)) \in RightMessages
<1> DEFINE m == Payload(d, status)
<1>1. /\ m \in Message /\ m.status = status /\ m.doc = d
      /\ m.type = IF status = "completed" THEN d ELSE None
  BY DEF Payload, Message, Emitted
<1>2. m \in RightMessages
  BY <1>1 DEF RightMessages
<1>3. CASE held # None /\ m.type = None
  <2>1. held.type \in Docs \cup {None}
    BY <1>3 DEF RightInv, RightMessages, Message
  <2>2. status # "completed"
    BY <1>1, <1>3, FeedAssumption
  <2> DEFINE r == [m EXCEPT !.type = held.type]
  <2>3. r \in Message /\ r.status = status
    BY <1>1, <2>1 DEF Message
  <2>4. r \in RightMessages
    BY <2>2, <2>3 DEF RightMessages
  <2> QED
    BY <1>2, <1>3, <2>4 DEF Merged
<1>4. CASE ~(held # None /\ m.type = None)
  BY <1>2, <1>4 DEF Merged
<1> QED
  BY <1>3, <1>4

LEMMA EmitRight ==
  ASSUME RightInv, NEW d \in Docs, NEW status \in Emitted, Emit(d, status)
  PROVE  RightInv'
<1>1. After(status).at # "send"
  BY DEF After, Idle
<1>2. UNCHANGED <<wire, feed>>
  BY DEF Emit, client
<1>3. CASE HoldBack(d, status)
  BY <1>1, <1>2, <1>3, MergedRight DEF HoldBack, RightInv
<1>4. CASE SendOut(d, status)
  <2> DEFINE m == Merged(Payload(d, status))
  <2>1. Sending(status, m, conns, {}).msg = m
    BY DEF Sending
  <2>2. \/ task' = [task EXCEPT ![d] = After(status)]
        \/ task' = [task EXCEPT ![d] = Sending(status, m, conns, {})]
    BY <1>4 DEF SendOut
  <2>3. m \in RightMessages
    BY MergedRight
  <2> HIDE DEF m
  <2> QED
    BY <1>1, <1>2, <1>4, <2>1, <2>2, <2>3 DEF SendOut, RightInv
<1> QED
  BY <1>3, <1>4 DEF Emit

LEMMA SentRight ==
  ASSUME RightInv, NEW d \in Docs, NEW dead, Sent(d, dead), task[d].at = "send",
         held' = held, feed' = feed, wire' \in [Socks -> Seq(RightMessages)]
  PROVE  RightInv'
<1> DEFINE r == Sending(task[d].status, task[d].msg, Tail(task[d].to), dead)
           a == After(task[d].status)
<1>1. r.msg = task[d].msg
  BY DEF Sending
<1>2. a.at # "send"
  BY DEF After, Idle
<1>3. task' = [task EXCEPT ![d] = a] \/ task' = [task EXCEPT ![d] = r]
  BY DEF Sent
<1> HIDE DEF a, r
<1> QED
  BY <1>1, <1>2, <1>3 DEF RightInv

LEMMA TaskRight ==
  ASSUME RightInv, NEW d \in Docs, TaskStep(d)
  PROVE  RightInv'
<1>1. CASE Begin(d) \/ Downloaded(d) \/ Analysed(d) \/ Failed(d)
  BY <1>1, EmitRight DEF Begin, Downloaded, Analysed, Failed, Emitted, Finals
<1>2. CASE SendText(d)
  <2> DEFINE s == Head(task[d].to)
             m == task[d].msg
  <2>1. /\ task[d].at = "send" /\ held' = held /\ feed' = feed
        /\ Sent(d, task[d].dead)
        /\ wire' = wire \/ wire' = [wire EXCEPT ![s] = Append(wire[s], m)]
    BY <1>2 DEF SendText, client, RightInv
  <2>2. m \in RightMessages
    BY <2>1 DEF RightInv
  <2> HIDE DEF s, m
  <2>3. wire' \in [Socks -> Seq(RightMessages)]
    <3>1. wire \in [Socks -> Seq(RightMessages)]
      BY DEF RightInv
    <3>2. ASSUME s \in Socks PROVE Append(wire[s], m) \in Seq(RightMessages)
      <4>1. wire[s] \in Seq(RightMessages)
        BY <3>1, <3>2
      <4> QED
        BY <2>2, <4>1, AppendProperties
    <3>3. CASE s \in Socks
      BY <2>1, <3>1, <3>2, <3>3
    <3>4. CASE s \notin Socks
      <4>1. [wire EXCEPT ![s] = Append(wire[s], m)] = wire
        BY <3>1, <3>4
      <4> QED
        BY <2>1, <3>1, <4>1
    <3> QED
      BY <3>3, <3>4
  <2> QED
    BY <2>1, <2>3, SentRight
<1>3. CASE SendRaises(d)
  <2>1. /\ task[d].at = "send" /\ held' = held /\ feed' = feed /\ wire' = wire
        /\ \E dead : Sent(d, dead)
    BY <1>3 DEF SendRaises, client
  <2> QED
    BY <2>1, SentRight DEF RightInv
<1> QED
  BY <1>1, <1>2, <1>3 DEF TaskStep

LEMMA MessageRight ==
  ASSUME RightInv, NEW s \in Socks, OnMessage(s)
  PROVE  RightInv'
<1> DEFINE m == Head(wire[s])
<1>1. wire[s] \in Seq(RightMessages) /\ wire[s] # <<>>
  BY DEF OnMessage, RightInv
<1>2. m \in RightMessages /\ Tail(wire[s]) \in Seq(RightMessages)
  BY <1>1, HeadTailProperties
<1>3. wire' \in [Socks -> Seq(RightMessages)]
  BY <1>2 DEF OnMessage, RightInv
<1>4. Item(m) \in RightItems
  BY <1>2 DEF Item, RightItems, Items, RightMessages, Message
<1>5. feed' \in Seq(RightItems)
  <2>1. feed \in Seq(RightItems) /\ Len(feed) \in Nat /\ DOMAIN feed = 1 .. Len(feed)
    BY DEF RightInv
  <2>2. feed' = Handled(m)
    BY DEF OnMessage
  <2> HIDE DEF m
  <2>3. CASE \E i \in DOMAIN feed : feed[i].id = m.doc
    <3> DEFINE f == [i \in 1 .. Len(feed) |->
                       IF feed[i].id = m.doc THEN Item(m) ELSE feed[i]]
    <3>1. f \in [1 .. Len(feed) -> RightItems]
      BY <1>4, <2>1
    <3>2. f \in Seq(RightItems)
      BY <2>1, <3>1, SeqDef
    <3>3. Handled(m) = f
      BY <2>1, <2>3 DEF Handled
    <3> QED
      BY <2>2, <3>2, <3>3
  <2>4. CASE ~(\E i \in DOMAIN feed : feed[i].id = m.doc)
    <3> DEFINE all == <<Item(m)>> \o feed
               n   == IF Len(feed) < MaxFeed THEN Len(feed) + 1 ELSE MaxFeed
    <3>1. <<Item(m)>> \in Seq(RightItems) /\ Len(<<Item(m)>>) = 1
      BY <1>4
    <3>2. all \in Seq(RightItems) /\ Len(all) = Len(feed) + 1
      BY <2>1, <3>1, ConcatProperties
    <3>3. n \in Nat /\ n <= Len(feed) + 1
      BY <2>1, FeedAssumption
    <3>4. Handled(m) = SubSeq(all, 1, n)
      BY <2>4 DEF Handled
    <3> HIDE DEF all, n
    <3>5. \A i \in 1 .. n : all[i] \in RightItems
      BY <2>1, <3>2, <3>3, ElementOfSeq
    <3>6. SubSeq(all, 1, n) \in Seq(RightItems)
      BY <3>3, <3>5, SubSeqProperties
    <3> QED
      BY <2>2, <3>4, <3>6
  <2> QED
    BY <2>3, <2>4
<1> QED
  BY <1>3, <1>5 DEF OnMessage, server, RightInv

LEMMA RightStep == RightInv /\ [Next]_vars => RightInv'
<1> SUFFICES ASSUME RightInv, [Next]_vars PROVE RightInv'
  OBVIOUS
<1>1. CASE Restart
  <2>1. ASSUME NEW d \in Docs PROVE task'[d].at = "send" => FALSE
    <3>1. [Idle(task[d].status) EXCEPT !.at = "over"].at = "over"
      BY DEF Idle
    <3>2. (task'[d] = task[d] /\ task[d].at = "new") \/ task'[d].at = "over"
      BY <1>1, <3>1 DEF Restart
    <3> QED
      BY <3>2
  <2> QED
    BY <1>1, <2>1 DEF Restart, client, RightInv
<1>2. ASSUME NEW s \in Socks, OnClose(s) PROVE RightInv'
  <2>1. <<>> \in Seq(RightMessages)
    OBVIOUS
  <2> QED
    BY <1>2, <2>1 DEF OnClose, Closes, server, RightInv
<1>3. ASSUME NEW s \in Socks,
             \/ Accept(s) \/ Register(s) \/ HandlerEnds(s)
             \/ Retry(s) \/ Remount(s) \/ OnOpen(s)
      PROVE  RightInv'
  BY <1>3 DEF Accept, Register, HandlerEnds, Retry, Remount, OnOpen, server,
              client, RightInv
<1>4. CASE SecondPasses \/ UNCHANGED vars
  BY <1>4 DEF SecondPasses, vars, server, client, RightInv
<1>5. CASE Quiet
  BY <1>5 DEF Quiet, LogOut, LogIn, RetryLoggedOut, StreamFails, server, RightInv
<1> QED
  BY <1>1, <1>2, <1>3, <1>4, <1>5, TaskRight, MessageRight DEF Next, Quiet

LEMMA RightInit == Init => RightInv
<1> SUFFICES ASSUME Init PROVE RightInv
  OBVIOUS
<1>1. [Idle("new") EXCEPT !.at = "new"].at = "new"
  BY DEF Idle
<1>2. <<>> \in Seq(RightMessages) /\ <<>> \in Seq(RightItems)
  OBVIOUS
<1> QED
  BY <1>1, <1>2 DEF Init, RightInv

\* A document shown as completed is shown with its own type, although what is
\* held back of one document is merged into what is sent of another.
THEOREM OwnType == Spec => []CompletedShowsItsType
<1>1. RightInv => CompletedShowsItsType
  <2> SUFFICES ASSUME RightInv, NEW i \in DOMAIN feed
               PROVE  feed[i].status = "completed" => feed[i].documentType = feed[i].id
    BY DEF CompletedShowsItsType
  <2>1. feed[i] \in RightItems
    BY DEF RightInv
  <2> QED
    BY <2>1 DEF RightItems
<1> QED
  BY RightInit, RightStep, <1>1, PTL DEF Spec

---------------------------------------------------------------------------
(* Types *)

Records == [at : {"new", "work", "send", "over"}, status : {"new"} \cup Emitted,
            msg : Message \cup {None}, to : Seq(Socks), dead : SUBSET Socks]

Types ==
  /\ Inv /\ RightInv
  /\ task \in [Docs -> Records] /\ recent \in BOOLEAN /\ conns \in Seq(Socks)
  /\ served \in [Socks -> {"no", "accepted", "yes"}]
  /\ hook.attempts <= MaxAttempts /\ hook.remounts <= MaxRemounts
  /\ Len(feed) <= MaxFeed
  /\ owed \in [Socks -> [Docs -> 0 .. 3]]

Up(s) == sock[s] \in {"connecting", "open"}

\* What a task may be: while it sends, there is somebody to send to, each
\* once, and the message carries the status of the task.
GoodTask(d, t) ==
  /\ t.at = "new" => t.status = "new"
  /\ t.at = "work" => t.status \in {"ingesting", "parsing"}
  /\ t.at # "send" => t.to = <<>>
  /\ t.at = "send" => /\ t.to # <<>> /\ NoRepeats(t.to) /\ t.status # "new"
                      /\ t.msg \in Message /\ t.msg.doc = d /\ t.msg.status = t.status

Tasks == \A d \in Docs : GoodTask(d, task[d])

\* Sockets are registered once, and only those that are served.
Registered == NoRepeats(conns) /\ \A s \in ToSet(conns) : served[s] = "yes"

LEMMA Ranks ==
  /\ Rank("new") = 0 /\ Rank("ingesting") = 1 /\ Rank("parsing") = 2
  /\ \A status \in Finals : Rank(status) = 3
  /\ \A status \in {"new"} \cup Emitted : Rank(status) \in 0 .. 3
BY DEF Rank, Finals, Emitted

LEMMA AfterGood ==
  ASSUME NEW d \in Docs, NEW status \in Emitted
  PROVE  /\ After(status) \in Records /\ GoodTask(d, After(status))
         /\ After(status).to = <<>> /\ After(status).status = status
         /\ After(status).dead = {}
<1> DEFINE at == IF status \in Finals THEN "over" ELSE "work"
           j  == Idle(status)
           t  == [j EXCEPT !.at = at]
<1>1. After(status) = t
  BY DEF After
<1>2. j \in Records /\ j.status = status /\ j.to = <<>> /\ j.dead = {}
  BY DEF Records, Idle
<1>3. at \in {"over", "work"} /\ (at = "work" => status \in {"ingesting", "parsing"})
  BY DEF Emitted
<1> HIDE DEF j, at
<1>4. t \in Records /\ t.at = at /\ t.status = status /\ t.to = <<>> /\ t.dead = {}
  BY <1>2, <1>3 DEF Records
<1> HIDE DEF t
<1> QED
  BY <1>1, <1>3, <1>4 DEF GoodTask

LEMMA SendingGood ==
  ASSUME NEW d \in Docs, NEW status \in Emitted, NEW m \in Message,
         m.doc = d, m.status = status, NEW to \in Seq(Socks), to # <<>>, NoRepeats(to),
         NEW dead \in SUBSET Socks
  PROVE  LET t == Sending(status, m, to, dead) IN
         /\ t \in Records /\ GoodTask(d, t)
         /\ t.at = "send" /\ t.to = to /\ t.status = status /\ t.dead = dead
<1> DEFINE t == Sending(status, m, to, dead)
<1>1. /\ t.at = "send" /\ t.status = status /\ t.msg = m /\ t.to = to /\ t.dead = dead
      /\ t \in Records
  BY DEF Sending, Records
<1> HIDE DEF t
<1>2. status # "new"
  BY DEF Emitted, Finals
<1>3. GoodTask(d, t)
  BY <1>1, <1>2 DEF GoodTask
<1> QED
  BY <1>1, <1>3 DEF t

\* The first and the rest of a list.
LEMMA FirstAndRest ==
  ASSUME NEW X, NEW q \in Seq(X), q # <<>>
  PROVE  /\ Head(q) \in X /\ Head(q) \in ToSet(q) /\ Tail(q) \in Seq(X)
         /\ Len(Tail(q)) = Len(q) - 1
         /\ \A i \in 1 .. Len(q) - 1 : i + 1 \in 1 .. Len(q) /\ Tail(q)[i] = q[i + 1]
         /\ ToSet(Tail(q)) \subseteq ToSet(q)
         /\ ToSet(q) \subseteq ToSet(Tail(q)) \cup {Head(q)}
         /\ NoRepeats(q) => NoRepeats(Tail(q)) /\ Head(q) \notin ToSet(Tail(q))
<1> DEFINE r == Tail(q)
           n == Len(q)
<1>1. /\ Head(q) \in X /\ r \in Seq(X) /\ Len(r) = n - 1 /\ n \in Nat /\ n >= 1
      /\ Head(q) = q[1] /\ \A i \in 1 .. Len(r) : r[i] = q[i + 1]
  <2>1. n \in Nat /\ n # 0
    BY EmptySeq
  <2> QED
    BY <2>1, HeadTailProperties
<1>2. DOMAIN q = 1 .. n /\ DOMAIN r = 1 .. n - 1
  BY <1>1
<1> HIDE DEF r, n
<1>3. \A i \in 1 .. n - 1 : i + 1 \in 1 .. n /\ r[i] = q[i + 1]
  BY <1>1
<1>4. Head(q) \in ToSet(q)
  BY <1>1, <1>2 DEF ToSet
<1>5. ToSet(r) \subseteq ToSet(q)
  BY <1>2, <1>3 DEF ToSet
<1>6. ToSet(q) \subseteq ToSet(r) \cup {Head(q)}
  <2> SUFFICES ASSUME NEW i \in 1 .. n, i # 1 PROVE q[i] \in ToSet(r)
    BY <1>1, <1>2 DEF ToSet
  <2>1. i - 1 \in 1 .. n - 1 /\ i = (i - 1) + 1
    BY <1>1
  <2>2. r[i - 1] = q[i]
    BY <1>3, <2>1
  <2> QED
    BY <1>2, <2>1, <2>2 DEF ToSet
<1>7. ASSUME NoRepeats(q) PROVE NoRepeats(r) /\ Head(q) \notin ToSet(r)
  <2>1. \A i, j \in 1 .. n - 1 : i + 1 = j + 1 => i = j
    BY <1>1
  <2>2. \A i \in 1 .. n - 1 : i + 1 # 1
    BY <1>1
  <2>3. 1 \in 1 .. n /\ Len(q) = n
    BY <1>1 DEF n
  <2> QED
    BY <1>1, <1>2, <1>3, <1>7, <2>1, <2>2, <2>3 DEF NoRepeats, ToSet
<1> QED
  BY <1>1, <1>3, <1>4, <1>5, <1>6, <1>7 DEF r, n

LEMMA LastAdded ==
  ASSUME NEW X, NEW q \in Seq(X), NEW e \in X
  PROVE  /\ Append(q, e) \in Seq(X) /\ Len(Append(q, e)) = Len(q) + 1
         /\ \A i \in 1 .. Len(q) : Append(q, e)[i] = q[i]
         /\ Append(q, e)[Len(q) + 1] = e
         /\ ToSet(Append(q, e)) = ToSet(q) \cup {e}
         /\ (NoRepeats(q) /\ e \notin ToSet(q)) => NoRepeats(Append(q, e))
<1> DEFINE r == Append(q, e)
           n == Len(q)
<1>1. /\ r \in Seq(X) /\ Len(r) = n + 1 /\ n \in Nat /\ r[n + 1] = e
      /\ \A i \in 1 .. n : r[i] = q[i]
  BY AppendProperties
<1>2. DOMAIN q = 1 .. n /\ DOMAIN r = 1 .. n + 1 /\ Len(q) = n
  BY <1>1
<1> HIDE DEF r, n
<1>3. \A i \in 1 .. n + 1 : i \in 1 .. n \/ i = n + 1
  BY <1>1
<1>4. n + 1 \in 1 .. n + 1 /\ 1 .. n \subseteq 1 .. n + 1
  BY <1>1
<1>5. ToSet(r) = ToSet(q) \cup {e}
  <2>1. ToSet(r) \subseteq ToSet(q) \cup {e}
    BY <1>1, <1>2, <1>3 DEF ToSet
  <2>2. ToSet(q) \cup {e} \subseteq ToSet(r)
    BY <1>1, <1>2, <1>4 DEF ToSet
  <2> QED
    BY <2>1, <2>2
<1>6. (NoRepeats(q) /\ e \notin ToSet(q)) => NoRepeats(r)
  BY <1>1, <1>2, <1>3 DEF NoRepeats, ToSet
<1> QED
  BY <1>1, <1>5, <1>6 DEF r, n

---------------------------------------------------------------------------
(* What the steps of a task do *)

\* An emission is put off or goes out to the sockets registered now.
Emitting(d, status, t) ==
  /\ t \in Records /\ GoodTask(d, t) /\ t.status = status
  /\ task' = [task EXCEPT ![d] = t]
  /\ \/ t.to = <<>> /\ owed' = owed
     \/ /\ t.to = conns
        /\ owed' = [s \in Socks |-> IF s \in ToSet(conns) /\ Up(s)
                                    THEN [owed[s] EXCEPT ![d] = Rank(status)]
                                    ELSE owed[s]]
  /\ recent' \in BOOLEAN
  /\ UNCHANGED <<conns, served, wire, sock, hook, feed>>

LEMMA Emits ==
  ASSUME Types, Registered, NEW d \in Docs, NEW status \in Emitted, Emit(d, status)
  PROVE  \E t : Emitting(d, status, t)
<1>1. UNCHANGED <<conns, served, wire, sock, hook, feed>>
  BY DEF Emit, HoldBack, SendOut, client
<1>2. CASE HoldBack(d, status)
  <2>1. /\ task' = [task EXCEPT ![d] = After(status)] /\ owed' = owed
        /\ recent' \in BOOLEAN
    BY <1>2 DEF HoldBack, Types
  <2> QED
    BY <1>1, <2>1, AfterGood DEF Emitting
<1>3. CASE SendOut(d, status)
  <2>1. recent' \in BOOLEAN
    BY <1>3 DEF SendOut
  <2>2. owed' = [s \in Socks |-> IF s \in ToSet(conns) /\ Up(s)
                                 THEN [owed[s] EXCEPT ![d] = Rank(status)]
                                 ELSE owed[s]]
    BY <1>3 DEF SendOut, Up
  <2>3. CASE conns = <<>>
    <3>1. task' = [task EXCEPT ![d] = After(status)]
      BY <1>3, <2>3 DEF SendOut
    <3> QED
      BY <1>1, <2>1, <2>2, <2>3, <3>1, AfterGood DEF Emitting
  <2>4. CASE conns # <<>>
    <3> DEFINE m == Merged(Payload(d, status))
               t == Sending(status, m, conns, {})
    <3>1. task' = [task EXCEPT ![d] = t]
      BY <1>3, <2>4 DEF SendOut
    <3>2. m \in Message
      BY MergedRight DEF Types, RightMessages
    <3>3. m.doc = d /\ m.status = status
      <4>1. Payload(d, status) \in Message
        BY MergedRight DEF Types, RightMessages
      <4>2. Payload(d, status).doc = d /\ Payload(d, status).status = status
        BY DEF Payload
      <4> DEFINE p == Payload(d, status)
      <4> HIDE DEF p
      <4>3. \A e : [p EXCEPT !.type = e].doc = p.doc /\ [p EXCEPT !.type = e].status = p.status
        BY <4>1 DEF Message, p
      <4> QED
        BY <4>1, <4>2, <4>3 DEF Merged, p
    <3> HIDE DEF m
    <3>4. t \in Records /\ GoodTask(d, t) /\ t.to = conns /\ t.status = status
      BY <2>4, <3>2, <3>3, SendingGood DEF Types, Registered
    <3> HIDE DEF t
    <3> QED
      BY <1>1, <2>1, <2>2, <3>1, <3>4 DEF Emitting
  <2> QED
    BY <2>3, <2>4
<1> QED
  BY <1>2, <1>3 DEF Emit

\* Each emission tells a later status.
LEMMA EmitsLater ==
  ASSUME Tasks, NEW d \in Docs, Begin(d) \/ Downloaded(d) \/ Analysed(d) \/ Failed(d)
  PROVE  \E status \in Emitted : /\ Emit(d, status) /\ Rank(task[d].status) < Rank(status)
                                 /\ task[d].to = <<>>
<1>1. GoodTask(d, task[d])
  BY DEF Tasks
<1>2. /\ Rank("new") = 0 /\ Rank("ingesting") = 1 /\ Rank("parsing") = 2
      /\ Rank("failed") = 3 /\ \A status \in Finals : Rank(status) = 3
      /\ "failed" \in Finals
  BY Ranks DEF Finals
<1>3. 0 < 1 /\ 1 < 2 /\ 2 < 3 /\ 1 < 3
  OBVIOUS
<1>4. CASE Begin(d)
  BY <1>1, <1>2, <1>3, <1>4 DEF Begin, GoodTask, Emitted
<1>5. CASE Downloaded(d)
  BY <1>1, <1>2, <1>3, <1>5 DEF Downloaded, GoodTask, Emitted
<1>6. CASE Analysed(d)
  BY <1>1, <1>2, <1>3, <1>6 DEF Analysed, GoodTask, Emitted
<1>7. CASE Failed(d)
  BY <1>1, <1>2, <1>3, <1>7 DEF Failed, GoodTask, Emitted
<1> QED
  BY <1>4, <1>5, <1>6, <1>7

\* A sending leaves one socket fewer to send to.
Delivering(d, s, t) ==
  /\ s \in Socks /\ s = Head(task[d].to) /\ s \in ToSet(task[d].to)
  /\ t \in Records /\ GoodTask(d, t) /\ t.status = task[d].status
  /\ ToSet(t.to) = ToSet(task[d].to) \ {s}
  /\ task' = [task EXCEPT ![d] = t]
  /\ task[d].msg \in Message /\ task[d].msg.doc = d
  /\ task[d].msg.status = task[d].status
  /\ conns' \in Seq(Socks) /\ NoRepeats(conns') /\ ToSet(conns') \subseteq ToSet(conns)
  /\ UNCHANGED <<recent, served, sock, hook, feed, owed>>

LEMMA SendsOn ==
  ASSUME Types, Tasks, Registered, NEW d \in Docs, NEW dead \in SUBSET Socks,
         task[d].at = "send", Sent(d, dead),
         UNCHANGED <<recent, served, sock, hook, feed, owed>>
  PROVE  \E t : Delivering(d, Head(task[d].to), t)
<1> DEFINE q == task[d].to
           s == Head(q)
           a == After(task[d].status)
           r == Sending(task[d].status, task[d].msg, Tail(q), dead)
<1>1. /\ task[d] \in Records /\ GoodTask(d, task[d]) /\ q \in Seq(Socks) /\ q # <<>>
      /\ NoRepeats(q) /\ task[d].msg \in Message /\ task[d].msg.doc = d
      /\ task[d].msg.status = task[d].status /\ task[d].status \in Emitted
      /\ conns \in Seq(Socks) /\ NoRepeats(conns)
  BY DEF Types, Tasks, GoodTask, Records, Registered
<1>2. /\ s \in Socks /\ s \in ToSet(q) /\ Tail(q) \in Seq(Socks) /\ NoRepeats(Tail(q))
      /\ ToSet(Tail(q)) = ToSet(q) \ {s} /\ Len(Tail(q)) = Len(q) - 1
      /\ Len(q) \in Nat
  BY <1>1, FirstAndRest
<1>3. ToSet(<<>>) = {}
  BY DEF ToSet
<1> HIDE DEF q, s
<1>0. Len(q) = 1 <=> Tail(q) = <<>>
  <2> DEFINE w == Tail(q)
             n == Len(q)
             k == Len(w)
  <2>1. w \in Seq(Socks) /\ k = n - 1 /\ n \in Nat /\ k \in Nat
    BY <1>2, LenProperties
  <2>2. k = 0 <=> w = <<>>
    BY <2>1, EmptySeq
  <2> HIDE DEF w, n, k
  <2>3. n = 1 <=> k = 0
    BY <2>1
  <2> QED
    BY <2>2, <2>3 DEF w, n
<1>4. CASE Len(q) = 1
  <2>1. task' = [task EXCEPT ![d] = a] /\ conns' = Without(conns, dead)
    BY <1>4 DEF Sent, q
  <2>2. /\ a \in Records /\ GoodTask(d, a) /\ a.to = <<>> /\ a.status = task[d].status
    BY <1>1, AfterGood
  <2>3. Tail(q) = <<>>
    BY <1>0, <1>4
  <2>4. /\ conns' \in Seq(Socks) /\ NoRepeats(conns')
        /\ ToSet(conns') \subseteq ToSet(conns)
    BY <1>1, <2>1, WithoutProperties
  <2> HIDE DEF a
  <2>5. Delivering(d, s, a)
    BY <1>1, <1>2, <1>3, <2>1, <2>2, <2>3, <2>4 DEF Delivering, q, s
  <2> QED
    BY <2>5 DEF s, q
<1>5. CASE Len(q) # 1
  <2>1. task' = [task EXCEPT ![d] = r] /\ conns' = conns
    BY <1>5 DEF Sent, q
  <2>2. Tail(q) # <<>>
    BY <1>0, <1>5
  <2>3. r \in Records /\ GoodTask(d, r) /\ r.to = Tail(q) /\ r.status = task[d].status
    <3> DEFINE w == Tail(q)
               p == task[d].status
               m == task[d].msg
    <3>1. w \in Seq(Socks) /\ w # <<>> /\ NoRepeats(w)
      BY <1>2, <2>2
    <3>2. m \in Message /\ m.doc = d /\ m.status = p /\ p \in Emitted
      BY <1>1
    <3> HIDE DEF w, p, m
    <3>3. /\ Sending(p, m, w, dead) \in Records /\ GoodTask(d, Sending(p, m, w, dead))
          /\ Sending(p, m, w, dead).to = w /\ Sending(p, m, w, dead).status = p
      BY <3>1, <3>2, SendingGood
    <3> QED
      BY <3>3 DEF w, p, m
  <2> HIDE DEF r
  <2>4. Delivering(d, s, r)
    BY <1>1, <1>2, <2>1, <2>3 DEF Delivering, q, s
  <2> QED
    BY <2>4 DEF s, q
<1> QED
  BY <1>4, <1>5

LEMMA Texts ==
  ASSUME Types, Tasks, Registered, NEW d \in Docs, SendText(d)
  PROVE  \E s \in Socks, t \in Records :
           /\ Delivering(d, s, t)
           /\ Up(s) => wire' = [wire EXCEPT ![s] = Append(wire[s], task[d].msg)]
           /\ ~Up(s) => wire' = wire
<1> DEFINE s == Head(task[d].to)
<1>1. task[d].dead \in SUBSET Socks
  BY DEF Types, Records
<1>2. PICK t : Delivering(d, s, t)
  BY <1>1, SendsOn DEF SendText, client
<1>3. /\ Up(s) => wire' = [wire EXCEPT ![s] = Append(wire[s], task[d].msg)]
      /\ ~Up(s) => wire' = wire
  BY DEF SendText, Up, Types, RightInv
<1> HIDE DEF s
<1> QED
  BY <1>2, <1>3 DEF Delivering

LEMMA Raises ==
  ASSUME Types, Tasks, Registered, NEW d \in Docs, SendRaises(d)
  PROVE  \E s \in Socks, t \in Records :
           /\ Delivering(d, s, t) /\ wire' = wire
           /\ ~(Up(s) /\ served[s] = "yes")
<1> DEFINE s == Head(task[d].to)
<1>1. s \in Socks
  <2>1. task[d].to \in Seq(Socks) /\ task[d].to # <<>>
    BY DEF SendRaises, Types, Tasks, GoodTask, Records
  <2> QED
    BY <2>1, FirstAndRest
<1>2. task[d].dead \cup {s} \in SUBSET Socks
  BY <1>1 DEF Types, Records
<1>3. PICK t : Delivering(d, s, t)
  BY <1>2, SendsOn DEF SendRaises, client
<1>4. wire' = wire /\ ~(Up(s) /\ served[s] = "yes")
  BY DEF SendRaises, Up
<1> HIDE DEF s
<1> QED
  BY <1>3, <1>4 DEF Delivering

Core == Types /\ Tasks /\ Registered

LEMMA CoreInit == Init => Core
<1> SUFFICES ASSUME Init PROVE Core
  OBVIOUS
<1>1. ASSUME NEW d \in Docs PROVE task[d] \in Records /\ GoodTask(d, task[d])
  <2> DEFINE j == Idle("new")
  <2>1. j \in Records /\ j.status = "new" /\ j.to = <<>>
    BY DEF Records, Idle
  <2> HIDE DEF j
  <2>2. /\ [j EXCEPT !.at = "new"] \in Records
        /\ [j EXCEPT !.at = "new"].status = "new" /\ [j EXCEPT !.at = "new"].to = <<>>
        /\ [j EXCEPT !.at = "new"].at = "new"
    BY <2>1 DEF Records
  <2>3. task[d] = [j EXCEPT !.at = "new"]
    BY DEF Init, j
  <2> QED
    BY <2>2, <2>3 DEF GoodTask
<1>2. task \in [Docs -> Records] /\ Tasks
  BY <1>1 DEF Tasks, Init
<1>3. Inv /\ RightInv
  BY InitInv, RightInit
<1>4. /\ conns \in Seq(Socks) /\ NoRepeats(conns) /\ ToSet(conns) = {}
      /\ Len(feed) <= MaxFeed
  BY FeedAssumption DEF Init, NoRepeats, ToSet
<1>5. hook.attempts <= MaxAttempts /\ hook.remounts <= MaxRemounts
  BY FeedAssumption DEF Init
<1>6. /\ recent \in BOOLEAN /\ served \in [Socks -> {"no", "accepted", "yes"}]
      /\ owed \in [Socks -> [Docs -> 0 .. 3]]
  <2>1. [d \in Docs |-> 0] \in [Docs -> 0 .. 3]
    OBVIOUS
  <2> QED
    BY <2>1 DEF Init
<1> QED
  <2>1. Types
    BY <1>2, <1>3, <1>4, <1>5, <1>6 DEF Types
  <2>2. Registered
    BY <1>4 DEF Registered
  <2> QED
    BY <1>2, <2>1, <2>2 DEF Core

LEMMA TaskCore ==
  ASSUME Core, Inv', RightInv', NEW d \in Docs, TaskStep(d)
  PROVE  Core'
<1> USE DEF Core
<1>1. CASE Begin(d) \/ Downloaded(d) \/ Analysed(d) \/ Failed(d)
  <2>1. PICK status \in Emitted : Emit(d, status)
    BY <1>1, EmitsLater
  <2>2. PICK t : Emitting(d, status, t)
    BY <2>1, Emits
  <2>3. owed' \in [Socks -> [Docs -> 0 .. 3]]
    <3>1. Rank(status) \in 0 .. 3
      BY Ranks
    <3>2. owed \in [Socks -> [Docs -> 0 .. 3]]
      BY DEF Types
    <3> QED
      BY <2>2, <3>1, <3>2 DEF Emitting
  <2> QED
    BY <2>2, <2>3 DEF Emitting, Types, Tasks, Registered
<1>2. CASE SendText(d) \/ SendRaises(d)
  <2>1. PICK s, t : Delivering(d, s, t)
    BY <1>2, Texts, Raises
  <2> QED
    BY <2>1 DEF Delivering, Types, Tasks, Registered
<1> QED
  BY <1>1, <1>2 DEF TaskStep

LEMMA RestartCore ==
  ASSUME Core, Restart
  PROVE  Core' /\ \A d \in Docs : task'[d].to = <<>> /\ task'[d].status = task[d].status
<1> USE DEF Core
<1>0. Inv' /\ RightInv'
  BY NextInv, RightStep DEF Next, Types
<1>1. ASSUME NEW d \in Docs
      PROVE  /\ task'[d] \in Records /\ GoodTask(d, task'[d])
             /\ task'[d].to = <<>> /\ task'[d].status = task[d].status
  <2>1. CASE task[d].at = "new"
    BY <2>1 DEF Restart, Types, Tasks, GoodTask
  <2>2. CASE task[d].at # "new"
    <3> DEFINE j == Idle(task[d].status)
               t == [j EXCEPT !.at = "over"]
    <3>1. j \in Records /\ j.status = task[d].status /\ j.to = <<>>
      BY DEF Records, Idle, Types
    <3>2. task'[d] = t
      BY <2>2 DEF Restart
    <3> HIDE DEF j
    <3>3. t \in Records /\ t.status = task[d].status /\ t.to = <<>> /\ t.at = "over"
      BY <3>1 DEF Records
    <3> HIDE DEF t
    <3> QED
      BY <3>2, <3>3 DEF GoodTask
  <2> QED
    BY <2>1, <2>2
<1>2. task' \in [Docs -> Records] /\ Tasks'
  BY <1>1 DEF Tasks, Restart
<1>3. conns' \in Seq(Socks) /\ NoRepeats(conns') /\ ToSet(conns') = {}
  BY DEF Restart, NoRepeats, ToSet
<1>4. served' \in [Socks -> {"no", "accepted", "yes"}] /\ owed' \in [Socks -> [Docs -> 0 .. 3]]
  BY DEF Restart
<1>5. UNCHANGED <<hook, feed>> /\ recent' = FALSE
  BY DEF Restart, client
<1> QED
  BY <1>0, <1>1, <1>2, <1>3, <1>4, <1>5 DEF Types, Registered

---------------------------------------------------------------------------
(* What the feed shows after a message *)

\* The item of the document is updated in its place.
InPlace(m, f) ==
  /\ \E i \in 1 .. Len(feed) : feed[i].id = m.doc
  /\ Len(f) = Len(feed)
  /\ \A i \in 1 .. Len(feed) :
       f[i] = IF feed[i].id = m.doc THEN Item(m) ELSE feed[i]

\* An item is put in front, and the last one leaves a feed that is full.
InFront(m, f) ==
  /\ \A i \in 1 .. Len(feed) : feed[i].id # m.doc
  /\ Len(f) = (IF Len(feed) < MaxFeed THEN Len(feed) + 1 ELSE MaxFeed)
  /\ Len(f) >= 1 /\ f[1] = Item(m)
  /\ \A i \in 2 .. Len(f) : i - 1 \in 1 .. Len(feed) /\ f[i] = feed[i - 1]

LEMMA Handles ==
  ASSUME NEW X, feed \in Seq(X), Len(feed) <= MaxFeed, NEW m, Item(m) \in X
  PROVE  InPlace(m, Handled(m)) \/ InFront(m, Handled(m))
<1>1. Len(feed) \in Nat /\ DOMAIN feed = 1 .. Len(feed)
  OBVIOUS
<1>2. CASE \E i \in DOMAIN feed : feed[i].id = m.doc
  <2> DEFINE f == [i \in 1 .. Len(feed) |->
                     IF feed[i].id = m.doc THEN Item(m) ELSE feed[i]]
  <2>1. Handled(m) = f
    BY <1>1, <1>2 DEF Handled
  <2>2. f \in [1 .. Len(feed) -> X]
    BY <1>1
  <2>3. f \in Seq(X) /\ Len(f) = Len(feed)
    BY <1>1, <2>2, SeqDef
  <2> QED
    BY <1>1, <1>2, <2>1, <2>3 DEF InPlace
<1>3. CASE ~(\E i \in DOMAIN feed : feed[i].id = m.doc)
  <2> DEFINE all == <<Item(m)>> \o feed
             n   == IF Len(feed) < MaxFeed THEN Len(feed) + 1 ELSE MaxFeed
             k   == Len(feed)
  <2>1. <<Item(m)>> \in Seq(X) /\ Len(<<Item(m)>>) = 1 /\ <<Item(m)>>[1] = Item(m)
    OBVIOUS
  <2>2. /\ all \in Seq(X) /\ Len(all) = 1 + k
        /\ \A i \in 1 .. 1 + k :
             all[i] = IF i <= 1 THEN <<Item(m)>>[i] ELSE feed[i - 1]
    BY <2>1, ConcatProperties
  <2>3. k \in Nat /\ k <= MaxFeed /\ MaxFeed \in Nat /\ MaxFeed >= 1
    BY <1>1, FeedAssumption
  <2>4. Handled(m) = SubSeq(all, 1, n)
    BY <1>3 DEF Handled
  <2> HIDE DEF all, k
  <2>5. n \in Nat /\ 1 <= n /\ n <= 1 + k
    BY <2>3 DEF k
  <2> HIDE DEF n
  <2>6. \A i \in 1 .. n : all[i] \in X
    <3>1. \A i \in 1 .. n : i \in 1 .. 1 + k
      BY <2>3, <2>5
    <3> QED
      BY <2>2, <3>1, ElementOfSeq
  <2>7. /\ Len(SubSeq(all, 1, n)) = n
        /\ \A i \in 1 .. n : SubSeq(all, 1, n)[i] = all[i]
    <3>1. /\ Len(SubSeq(all, 1, n)) = (IF 1 <= n THEN n - 1 + 1 ELSE 0)
          /\ \A i \in 1 .. n - 1 + 1 : SubSeq(all, 1, n)[i] = all[1 + i - 1]
      BY <2>5, <2>6, SubSeqProperties
    <3>2. n - 1 + 1 = n /\ \A i \in 1 .. n : 1 + i - 1 = i
      BY <2>5
    <3> QED
      BY <2>5, <3>1, <3>2
  <2>8. all[1] = Item(m)
    BY <2>1, <2>2, <2>3
  <2>9. \A i \in 2 .. n : i - 1 \in 1 .. k /\ i \in 1 .. n /\ all[i] = feed[i - 1]
    <3> TAKE i \in 2 .. n
    <3>1. i - 1 \in 1 .. k /\ i \in 1 .. n /\ i \in 1 .. 1 + k /\ ~(i <= 1)
      BY <2>3, <2>5
    <3> QED
      BY <2>2, <3>1
  <2>10. 1 \in 1 .. n
    BY <2>5
  <2>11. \A i \in 1 .. k : feed[i].id # m.doc
    BY <1>1, <1>3 DEF k
  <2> QED
    BY <2>4, <2>5, <2>7, <2>8, <2>9, <2>10, <2>11 DEF InFront, n, k
<1> QED
  BY <1>2, <1>3

LEMMA Received ==
  ASSUME Types, NEW s \in Socks, OnMessage(s)
  PROVE  LET m == Head(wire[s]) IN
         /\ m \in Message /\ Item(m).id = m.doc /\ Item(m).status = m.status
         /\ InPlace(m, feed') \/ InFront(m, feed')
<1> DEFINE m == Head(wire[s])
<1>1. wire[s] \in Seq(RightMessages) /\ wire[s] # <<>>
  BY DEF Types, RightInv, OnMessage
<1>2. m \in RightMessages
  BY <1>1, FirstAndRest
<1>3. feed' = Handled(m) /\ feed \in Seq(RightItems) /\ Len(feed) <= MaxFeed
  BY DEF OnMessage, Types, RightInv
<1> HIDE DEF m
<1>4. Item(m) \in RightItems /\ Item(m).id = m.doc /\ Item(m).status = m.status
  BY <1>2 DEF Item, RightItems, Items, RightMessages, Message
<1>5. InPlace(m, feed') \/ InFront(m, feed')
  BY <1>3, <1>4, Handles
<1> QED
  BY <1>2, <1>4, <1>5 DEF RightMessages, m

LEMMA CoreStep == Core /\ [Next]_vars => Core'
<1> SUFFICES ASSUME Core, [Next]_vars PROVE Core'
  OBVIOUS
<1> USE DEF Core
<1>1. Inv' /\ RightInv'
  BY NextInv, RightStep DEF Types
<1>2. ASSUME NEW s \in Socks, Accept(s) PROVE Core'
  BY <1>1, <1>2 DEF Accept, server, client, Types, Tasks, Registered
<1>3. ASSUME NEW s \in Socks, Register(s) PROVE Core'
  <2>1. s \notin ToSet(conns)
    BY <1>3 DEF Register, Registered
  <2>2. /\ conns' \in Seq(Socks) /\ NoRepeats(conns')
        /\ ToSet(conns') = ToSet(conns) \cup {s}
    BY <1>3, <2>1, LastAdded DEF Register, Types, Registered
  <2> QED
    BY <1>1, <1>3, <2>2 DEF Register, client, Types, Tasks, Registered
<1>4. ASSUME NEW s \in Socks, HandlerEnds(s) PROVE Core'
  <2>1. /\ conns' \in Seq(Socks) /\ NoRepeats(conns')
        /\ ToSet(conns') = ToSet(conns) \ {s}
    BY <1>4, WithoutProperties DEF HandlerEnds, Types, Registered
  <2>2. /\ served' = [served EXCEPT ![s] = "no"]
        /\ UNCHANGED <<task, recent, hook, feed, owed>>
    BY <1>4 DEF HandlerEnds, client
  <2>3. Types'
    BY <1>1, <2>1, <2>2 DEF Types
  <2>4. Tasks'
    BY <2>2 DEF Tasks
  <2>5. \A t \in ToSet(conns') : served'[t] = "yes"
    <3>1. \A t \in ToSet(conns) : t \in Socks
      BY DEF Types, ToSet
    <3> QED
      BY <2>1, <2>2, <3>1 DEF Registered, Types
  <2> QED
    BY <2>1, <2>3, <2>4, <2>5 DEF Registered
<1>5. /\ HookType /\ hook.attempts \in Nat /\ hook.remounts \in Nat
      /\ MaxAttempts \in Nat /\ MaxRemounts \in Nat
      /\ hook.attempts <= MaxAttempts /\ hook.remounts <= MaxRemounts
  BY FeedAssumption DEF Types, Inv, HookType, Hooks
<1>6. ASSUME NEW s \in Socks, Retry(s) \/ Remount(s) \/ OnOpen(s) PROVE Core'
  <2>1. hook'.attempts <= MaxAttempts /\ hook'.remounts <= MaxRemounts
    BY <1>5, <1>6, RetrySteps, RemountSteps, OpenSteps
  <2> QED
    BY <1>1, <1>6, <2>1
    DEF Retry, Remount, OnOpen, server, Types, Tasks, Registered
<1>7. ASSUME NEW s \in Socks, OnClose(s) PROVE Core'
  <2>1. hook'.attempts <= MaxAttempts /\ hook'.remounts <= MaxRemounts
    BY <1>5, <1>7, CloseSteps
  <2>2. /\ UNCHANGED <<server, served, feed>>
        /\ owed' = [owed EXCEPT ![s] = [d \in Docs |-> 0]]
    BY <1>5, <1>7, CloseSteps
  <2>3. owed' \in [Socks -> [Docs -> 0 .. 3]]
    <3>1. [d \in Docs |-> 0] \in [Docs -> 0 .. 3]
      OBVIOUS
    <3> QED
      BY <2>2, <3>1 DEF Types
  <2> QED
    BY <1>1, <2>1, <2>2, <2>3 DEF server, Types, Tasks, Registered
<1>8. ASSUME NEW s \in Socks, OnMessage(s) PROVE Core'
  <2>1. Len(feed') <= MaxFeed
    <3>1. Len(feed) \in Nat /\ Len(feed) <= MaxFeed /\ MaxFeed \in Nat
      BY FeedAssumption DEF Types, RightInv
    <3>2. PICK m : InPlace(m, feed') \/ InFront(m, feed')
      BY <1>8, Received
    <3> QED
      BY <3>1, <3>2 DEF InPlace, InFront
  <2> QED
    BY <1>1, <1>8, <2>1 DEF OnMessage, server, Types, Tasks, Registered
<1>9. CASE SecondPasses \/ UNCHANGED vars
  BY <1>1, <1>9 DEF SecondPasses, vars, server, client, Types, Tasks, Registered
<1>10. CASE Quiet
  <2>1. /\ UNCHANGED <<server, served, feed, owed>>
        /\ hook'.attempts = hook.attempts /\ hook'.remounts = hook.remounts
    BY <1>5, <1>10, QuietSteps
  <2> QED
    BY <1>1, <1>5, <2>1 DEF server, Types, Tasks, Registered
<1> QED
  BY <1>1, <1>2, <1>3, <1>4, <1>6, <1>7, <1>8, <1>9, <1>10, TaskCore, RestartCore
  DEF Next, Quiet

LEMMA TypesOK == Types => TypeOK
<1> SUFFICES ASSUME Types PROVE TypeOK
  OBVIOUS
<1> USE DEF Types
<1>1. task \in [Docs -> [at : {"new", "work", "send", "over"},
                         status : {"new", "ingesting", "parsing"} \cup Finals,
                         msg : Message \cup {None}, to : Seq(Socks), dead : SUBSET Socks]]
  <2>1. {"new"} \cup Emitted = {"new", "ingesting", "parsing"} \cup Finals
    BY DEF Emitted
  <2> QED
    BY <2>1 DEF Records
<1>2. held \in Message \cup {None}
  BY DEF RightInv, RightMessages
<1>3. wire \in [Socks -> Seq(Message)]
  <2>1. \A q \in Seq(RightMessages) : q \in Seq(Message)
    <3> TAKE q \in Seq(RightMessages)
    <3>1. Len(q) \in Nat /\ q \in [1 .. Len(q) -> RightMessages]
      OBVIOUS
    <3>2. q \in [1 .. Len(q) -> Message]
      BY <3>1 DEF RightMessages
    <3> QED
      BY <3>1, <3>2, SeqDef
  <2> QED
    BY <2>1 DEF RightInv
<1>4. feed \in Seq(Items)
  <2>1. Len(feed) \in Nat /\ feed \in [1 .. Len(feed) -> RightItems]
    BY DEF RightInv
  <2>2. feed \in [1 .. Len(feed) -> Items]
    BY <2>1 DEF RightItems
  <2> QED
    BY <2>1, <2>2, SeqDef
<1>5. hook \in [current : Socks \cup {None}, attempts : 0 .. MaxAttempts,
                timers : Nat, streams : Nat, lost : Nat,
                remounts : 0 .. MaxRemounts]
  <2>1. hook \in Hooks /\ hook.attempts \in Nat /\ hook.remounts \in Nat
    BY DEF Inv, HookType, Hooks
  <2>2. hook.attempts \in 0 .. MaxAttempts /\ hook.remounts \in 0 .. MaxRemounts
    BY <2>1, FeedAssumption
  <2> QED
    BY <2>1, <2>2 DEF Hooks
<1>6. /\ sock \in [Socks -> {"closed", "connecting", "open", "closing"}]
      /\ token \in BOOLEAN
  BY DEF Inv, HookType, States
<1> QED
  BY <1>1, <1>2, <1>3, <1>4, <1>5, <1>6 DEF TypeOK, Items

\* Every reachable state of the feed, of the server's tasks and sockets and of
\* the hook is well typed, and the feed has at most MaxFeed items.
THEOREM TypeCorrect == Spec => []TypeOK
<1>1. Core => TypeOK
  BY TypesOK DEF Core
<1> QED
  BY CoreInit, CoreStep, <1>1, PTL DEF Spec

---------------------------------------------------------------------------
(* The order on a socket *)

Reached(d) == Rank(task[d].status)

\* A message on s tells the status of its document or an earlier one, and less
\* than what is still to be sent to s.
InTime(m, s) ==
  /\ Rank(m.status) <= Reached(m.doc)
  /\ Rank(m.status) = Reached(m.doc) => m.status = task[m.doc].status
  /\ s \in ToSet(task[m.doc].to) => Rank(m.status) < Reached(m.doc)

InOrder(q) ==
  \A i, j \in 1 .. Len(q) :
    (i < j /\ q[i].doc = q[j].doc) => Rank(q[i].status) < Rank(q[j].status)

Wires ==
  \A s \in Socks : InOrder(wire[s]) /\ \A m \in ToSet(wire[s]) : InTime(m, s)

LEMMA RestInOrder ==
  ASSUME NEW q \in Seq(Message), q # <<>>, InOrder(q)
  PROVE  /\ InOrder(Tail(q))
         /\ \A m \in ToSet(Tail(q)) :
              m.doc = Head(q).doc => Rank(Head(q).status) < Rank(m.status)
<1> DEFINE r == Tail(q)
           n == Len(q)
<1>1. /\ Len(r) = n - 1 /\ n \in Nat /\ r \in Seq(Message)
      /\ \A i \in 1 .. n - 1 : i + 1 \in 1 .. n /\ r[i] = q[i + 1]
  BY FirstAndRest
<1>2. Head(q) = q[1] /\ n >= 1
  BY EmptySeq, HeadTailProperties
<1> HIDE DEF r, n
<1>3. InOrder(r)
  <2> SUFFICES ASSUME NEW i \in 1 .. n - 1, NEW j \in 1 .. n - 1, i < j, r[i].doc = r[j].doc
               PROVE  Rank(r[i].status) < Rank(r[j].status)
    BY <1>1 DEF InOrder
  <2>1. /\ i + 1 \in 1 .. n /\ j + 1 \in 1 .. n /\ i + 1 < j + 1
        /\ r[i] = q[i + 1] /\ r[j] = q[j + 1]
    BY <1>1
  <2> QED
    BY <2>1 DEF InOrder, n
<1>4. ASSUME NEW m \in ToSet(r), m.doc = Head(q).doc
      PROVE  Rank(Head(q).status) < Rank(m.status)
  <2>1. PICK j \in 1 .. n - 1 : m = r[j]
    BY <1>1 DEF ToSet
  <2>2. j + 1 \in 1 .. n /\ m = q[j + 1] /\ 1 \in 1 .. n /\ 1 < j + 1
    BY <1>1, <1>2, <2>1
  <2> QED
    BY <1>2, <1>4, <2>2 DEF InOrder, n
<1> QED
  BY <1>3, <1>4 DEF r

LEMMA MoreInOrder ==
  ASSUME NEW q \in Seq(Message), NEW e \in Message, InOrder(q),
         \A m \in ToSet(q) : m.doc = e.doc => Rank(m.status) < Rank(e.status)
  PROVE  InOrder(Append(q, e))
<1> DEFINE r == Append(q, e)
           n == Len(q)
<1>1. /\ Len(r) = n + 1 /\ n \in Nat /\ r[n + 1] = e
      /\ \A i \in 1 .. n : r[i] = q[i] /\ q[i] \in ToSet(q)
  <2>1. DOMAIN q = 1 .. n
    OBVIOUS
  <2> QED
    BY <2>1, LastAdded DEF ToSet
<1> HIDE DEF r, n
<1>2. SUFFICES ASSUME NEW i \in 1 .. n + 1, NEW j \in 1 .. n + 1, i < j, r[i].doc = r[j].doc
               PROVE  Rank(r[i].status) < Rank(r[j].status)
  BY <1>1 DEF InOrder, r
<1>3. i \in 1 .. n /\ (j \in 1 .. n \/ j = n + 1)
  BY <1>1, <1>2
<1>4. CASE j \in 1 .. n
  BY <1>1, <1>2, <1>3, <1>4 DEF InOrder, n
<1>5. CASE j = n + 1
  BY <1>1, <1>2, <1>3, <1>5
<1> QED
  BY <1>3, <1>4, <1>5

\* What is known of the wires and the tasks.
LEMMA WireTypes ==
  ASSUME Types
  PROVE  /\ \A s \in Socks : wire[s] \in Seq(Message)
         /\ \A s \in Socks : \A m \in ToSet(wire[s]) :
              m \in Message /\ m.doc \in Docs /\ Rank(m.status) \in 0 .. 3
         /\ \A d \in Docs : Reached(d) \in 0 .. 3
<1>1. TypeOK
  BY TypesOK
<1>2. \A s \in Socks : wire[s] \in Seq(Message)
  BY <1>1 DEF TypeOK
<1>3. \A m \in Message : m.doc \in Docs /\ m.status \in Emitted
  BY DEF Message, Emitted
<1>4. \A s \in Socks : \A m \in ToSet(wire[s]) : m \in Message
  BY <1>2 DEF ToSet
<1>5. \A d \in Docs : Reached(d) \in 0 .. 3
  BY Ranks DEF Types, Records, Reached
<1> QED
  BY <1>2, <1>3, <1>4, <1>5, Ranks

LEMMA EmitWires ==
  ASSUME Core, Wires, NEW d \in Docs, NEW status \in Emitted, NEW t,
         Rank(task[d].status) < Rank(status), Emitting(d, status, t)
  PROVE  Wires'
<1>1. /\ Types /\ wire' = wire /\ task' = [task EXCEPT ![d] = t] /\ t.status = status
      /\ task \in [Docs -> Records]
  BY DEF Core, Types, Emitting
<1>2. ASSUME NEW s \in Socks, NEW m \in ToSet(wire[s]) PROVE InTime(m, s)'
  <2>1. InTime(m, s) /\ m.doc \in Docs /\ Rank(m.status) \in 0 .. 3
    BY <1>1, WireTypes DEF Wires
  <2>2. CASE m.doc = d
    <3>1. /\ Rank(m.status) <= Rank(task[d].status) /\ Rank(task[d].status) \in 0 .. 3
          /\ Rank(status) \in 0 .. 3
      BY <1>1, <2>1, <2>2, WireTypes, Ranks DEF InTime, Reached
    <3>2. /\ Rank(m.status) < Rank(status) /\ Rank(m.status) <= Rank(status)
          /\ Rank(m.status) # Rank(status)
      BY <2>1, <3>1
    <3>3. task'[m.doc].status = status
      BY <1>1, <2>2
    <3> QED
      BY <3>2, <3>3 DEF InTime, Reached
  <2>3. CASE m.doc # d
    <3>1. task'[m.doc] = task[m.doc]
      BY <1>1, <2>1, <2>3
    <3> QED
      BY <2>1, <3>1 DEF InTime, Reached
  <2> QED
    BY <2>2, <2>3
<1> QED
  BY <1>1, <1>2 DEF Wires

LEMMA DeliverWires ==
  ASSUME Core, Wires, NEW d \in Docs, NEW s \in Socks, NEW t, Delivering(d, s, t),
         \/ wire' = wire
         \/ wire' = [wire EXCEPT ![s] = Append(wire[s], task[d].msg)]
  PROVE  Wires'
<1>0. PICK e : e = task[d].msg
  OBVIOUS
<1>1. /\ Types /\ task' = [task EXCEPT ![d] = t] /\ t.status = task[d].status
      /\ task \in [Docs -> Records] /\ DOMAIN wire = Socks
      /\ ToSet(t.to) = ToSet(task[d].to) \ {s} /\ s \in ToSet(task[d].to)
      /\ e \in Message /\ e.doc = d /\ e.status = task[d].status
  BY <1>0 DEF Core, Types, Delivering, RightInv
<1>2. ASSUME NEW u \in Socks, NEW m \in ToSet(wire[u]) PROVE InTime(m, u)'
  <2>1. InTime(m, u) /\ m.doc \in Docs
    BY <1>1, WireTypes DEF Wires
  <2>2. /\ task'[m.doc].status = task[m.doc].status
        /\ ToSet(task'[m.doc].to) \subseteq ToSet(task[m.doc].to)
    BY <1>1, <2>1
  <2> QED
    BY <2>1, <2>2 DEF InTime, Reached
<1>3. InTime(e, s)'
  <2>1. task'[e.doc] = t /\ e.status = t.status /\ s \notin ToSet(t.to)
    BY <1>1
  <2>2. Rank(t.status) <= Rank(t.status)
    <3>1. Rank(task[d].status) \in 0 .. 3
      BY <1>1, WireTypes DEF Reached
    <3> QED
      BY <1>1, <3>1
  <2> QED
    BY <2>1, <2>2 DEF InTime, Reached
<1>4. CASE wire' = wire
  BY <1>2, <1>4 DEF Wires
<1>5. CASE wire' = [wire EXCEPT ![s] = Append(wire[s], e)]
  <2>1. wire[s] \in Seq(Message) /\ InOrder(wire[s])
    BY <1>1, WireTypes DEF Wires
  <2>2. \A m \in ToSet(wire[s]) : m.doc = e.doc => Rank(m.status) < Rank(e.status)
    BY <1>1 DEF Wires, InTime, Reached
  <2>3. InOrder(Append(wire[s], e)) /\ ToSet(Append(wire[s], e)) = ToSet(wire[s]) \cup {e}
    BY <1>1, <2>1, <2>2, MoreInOrder, LastAdded
  <2>4. ASSUME NEW u \in Socks
        PROVE  InOrder(wire'[u]) /\ \A m \in ToSet(wire'[u]) : InTime(m, u)'
    <3>1. CASE u = s
      <4>1. wire'[s] = Append(wire[s], e)
        BY <1>1, <1>5
      <4> QED
        BY <1>2, <1>3, <2>3, <3>1, <4>1
    <3>2. CASE u # s
      BY <1>1, <1>2, <1>5, <3>2 DEF Wires
    <3> QED
      BY <3>1, <3>2
  <2> QED
    BY <2>4 DEF Wires
<1> QED
  BY <1>0, <1>4, <1>5

\* The task steps, by what they do.
LEMMA TaskSteps ==
  ASSUME Core, NEW d \in Docs, TaskStep(d)
  PROVE  \/ \E status \in Emitted, t \in Records :
              /\ Rank(task[d].status) < Rank(status) /\ task[d].to = <<>>
              /\ Emitting(d, status, t)
         \/ \E s \in Socks, t \in Records :
              /\ Delivering(d, s, t)
              /\ \/ Up(s) /\ wire' = [wire EXCEPT ![s] = Append(wire[s], task[d].msg)]
                 \/ ~(Up(s) /\ served[s] = "yes") /\ wire' = wire
<1>1. CASE Begin(d) \/ Downloaded(d) \/ Analysed(d) \/ Failed(d)
  <2>1. PICK status \in Emitted :
          /\ Emit(d, status) /\ Rank(task[d].status) < Rank(status) /\ task[d].to = <<>>
    BY <1>1, EmitsLater DEF Core
  <2>2. PICK t : Emitting(d, status, t)
    BY <2>1, Emits DEF Core
  <2> QED
    BY <2>1, <2>2 DEF Emitting
<1>2. CASE SendText(d)
  <2>1. PICK s \in Socks, t \in Records :
          /\ Delivering(d, s, t)
          /\ Up(s) => wire' = [wire EXCEPT ![s] = Append(wire[s], task[d].msg)]
          /\ ~Up(s) => wire' = wire
    BY <1>2, Texts DEF Core
  <2> QED
    BY <2>1
<1>3. CASE SendRaises(d)
  <2>1. PICK s \in Socks, t \in Records :
          Delivering(d, s, t) /\ wire' = wire /\ ~(Up(s) /\ served[s] = "yes")
    BY <1>3, Raises DEF Core
  <2> QED
    BY <2>1
<1> QED
  BY <1>1, <1>2, <1>3 DEF TaskStep

LEMMA WiresStep == Core /\ Wires /\ [Next]_vars => Wires'
<1> SUFFICES ASSUME Core, Wires, [Next]_vars PROVE Wires'
  OBVIOUS
<1>1. /\ Types /\ DOMAIN wire = Socks
      /\ \A s \in Socks : \A m \in ToSet(wire[s]) : m.doc \in Docs
  BY WireTypes DEF Core, Types, RightInv
<1>2. ASSUME NEW d \in Docs, TaskStep(d) PROVE Wires'
  BY <1>2, TaskSteps, EmitWires, DeliverWires
<1>3. CASE Restart
  <2>1. /\ wire' = wire
        /\ \A d \in Docs : task'[d].to = <<>> /\ task'[d].status = task[d].status
    <3>1. wire' = wire
      BY <1>3 DEF Restart
    <3> QED
      BY <1>3, <3>1, RestartCore
  <2>2. ToSet(<<>>) = {}
    BY DEF ToSet
  <2>3. ASSUME NEW s \in Socks, NEW m \in ToSet(wire[s]) PROVE InTime(m, s)'
    BY <1>1, <2>1, <2>2 DEF Wires, InTime, Reached
  <2> QED
    BY <2>1, <2>3 DEF Wires
<1>4. ASSUME NEW s \in Socks, OnClose(s) PROVE Wires'
  <2>1. wire' = [wire EXCEPT ![s] = <<>>] /\ task' = task
    BY <1>4 DEF OnClose, Closes, server
  <2>2. ToSet(<<>>) = {} /\ InOrder(<<>>)
    BY DEF ToSet, InOrder
  <2> QED
    BY <1>1, <2>1, <2>2 DEF Wires, InTime, Reached
<1>5. ASSUME NEW s \in Socks, OnMessage(s) PROVE Wires'
  <2>1. wire' = [wire EXCEPT ![s] = Tail(wire[s])] /\ task' = task /\ wire[s] # <<>>
    BY <1>5 DEF OnMessage, server
  <2>2. InOrder(Tail(wire[s])) /\ ToSet(Tail(wire[s])) \subseteq ToSet(wire[s])
    <3>1. wire[s] \in Seq(Message) /\ InOrder(wire[s])
      BY <1>1, WireTypes DEF Wires
    <3> QED
      BY <2>1, <3>1, RestInOrder, FirstAndRest
  <2> QED
    BY <1>1, <2>1, <2>2 DEF Wires, InTime, Reached
<1>6. CASE UNCHANGED <<task, wire>>
  BY <1>6 DEF Wires, InTime, Reached
<1> QED
  BY <1>2, <1>3, <1>4, <1>5, <1>6
     DEF Next, SecondPasses, Accept, Register, HandlerEnds, Retry, Remount, OnOpen,
         LogOut, LogIn, RetryLoggedOut, StreamFails, server, vars

\* Whatever is held back and merged, and however many tasks send at once, a
\* socket receives the statuses of a document in their order and each once.
THEOREM InOrderOnWire == Spec => []WireInOrder
<1>1. Core /\ Wires => WireInOrder
  <2> SUFFICES ASSUME Core, Wires, NEW s \in Socks, NEW i \in DOMAIN wire[s]
               PROVE  /\ \A j \in DOMAIN wire[s] :
                           (i < j /\ wire[s][j].doc = wire[s][i].doc) =>
                             Rank(wire[s][i].status) < Rank(wire[s][j].status)
                      /\ s \in ToSet(task[wire[s][i].doc].to) =>
                           Rank(wire[s][i].status) < Rank(task[wire[s][i].doc].msg.status)
    BY DEF WireInOrder
  <2>1. wire[s] \in Seq(Message) /\ DOMAIN wire[s] = 1 .. Len(wire[s])
    BY WireTypes DEF Core
  <2>2. PICK m : m = wire[s][i]
    OBVIOUS
  <2>3. m \in ToSet(wire[s]) /\ m.doc \in Docs /\ InTime(m, s)
    <3>1. m \in ToSet(wire[s])
      BY <2>2 DEF ToSet
    <3> QED
      BY <3>1, WireTypes DEF Core, Wires
  <2>4. ASSUME s \in ToSet(task[m.doc].to)
        PROVE  task[m.doc].msg.status = task[m.doc].status
    <3>1. GoodTask(m.doc, task[m.doc])
      BY <2>3 DEF Core, Tasks
    <3>2. ToSet(<<>>) = {}
      BY DEF ToSet
    <3> QED
      BY <2>4, <3>1, <3>2 DEF GoodTask
  <2> QED
    BY <2>1, <2>2, <2>3, <2>4 DEF Wires, InOrder, InTime, Reached
<1>2. Init => Wires
  <2>1. ToSet(<<>>) = {} /\ InOrder(<<>>)
    BY DEF ToSet, InOrder
  <2> QED
    BY <2>1 DEF Init, Wires
<1>3. Core /\ Wires /\ [Next]_vars => Core' /\ Wires'
  BY CoreStep, WiresStep
<1> QED
  BY CoreInit, <1>1, <1>2, <1>3, PTL DEF Spec

---------------------------------------------------------------------------
(* The two ends of a socket *)

\* Nothing is on its way to a socket that the browser closed, and nothing owed
\* to it; one that the browser still has and that is being sent to is served.
Ends ==
  \A s \in Socks :
    /\ sock[s] = "closed" => wire[s] = <<>> /\ \A d \in Docs : owed[s][d] = 0
    /\ Up(s) => \A d \in Docs : s \in ToSet(task[d].to) => served[s] = "yes"

\* While the page was not mounted again there is a socket or a timer, not both.
Single ==
  hook.remounts = 0 =>
    /\ hook.timers <= 1
    /\ \A s \in Socks : sock[s] # "closed" =>
         hook.timers = 0 /\ \A u \in Socks : sock[u] # "closed" => u = s

LEMMA EndsTask ==
  ASSUME Core, Ends, NEW d \in Docs, TaskStep(d)
  PROVE  Ends'
<1>1. /\ Types /\ task \in [Docs -> Records] /\ DOMAIN wire = Socks
      /\ \A s \in ToSet(conns) : served[s] = "yes"
      /\ owed \in [Socks -> [Docs -> 0 .. 3]]
  BY DEF Core, Types, RightInv, Registered
<1>2. ASSUME NEW status \in Emitted, NEW t \in Records, Emitting(d, status, t)
      PROVE  Ends'
  <2>1. UNCHANGED <<served, wire, sock>> /\ task' = [task EXCEPT ![d] = t]
    BY <1>2 DEF Emitting
  <2>2. \A s \in Socks : s \in ToSet(t.to) => served[s] = "yes"
    <3>1. ToSet(<<>>) = {}
      BY DEF ToSet
    <3> QED
      BY <1>1, <1>2, <3>1 DEF Emitting
  <2>3. \A s \in Socks, c \in Docs : sock[s] = "closed" => owed'[s][c] = owed[s][c]
    BY <1>1, <1>2 DEF Emitting, Up
  <2> QED
    BY <1>1, <2>1, <2>2, <2>3 DEF Ends, Up
<1>3. ASSUME NEW s \in Socks, NEW t \in Records, Delivering(d, s, t),
             \/ Up(s) /\ wire' = [wire EXCEPT ![s] = Append(wire[s], task[d].msg)]
             \/ wire' = wire
      PROVE  Ends'
  <2>1. /\ UNCHANGED <<served, sock, owed>> /\ task' = [task EXCEPT ![d] = t]
        /\ ToSet(t.to) \subseteq ToSet(task[d].to)
    BY <1>3 DEF Delivering
  <2>2. \A u \in Socks : sock[u] = "closed" => wire'[u] = wire[u]
    BY <1>1, <1>3 DEF Up
  <2> QED
    BY <1>1, <2>1, <2>2 DEF Ends, Up
<1> QED
  BY <1>2, <1>3, TaskSteps

LEMMA EndsStep == Core /\ Ends /\ [Next]_vars => Ends'
<1> SUFFICES ASSUME Core, Ends, [Next]_vars PROVE Ends'
  OBVIOUS
<1>1. /\ DOMAIN wire = Socks /\ DOMAIN task = Docs /\ sock \in [Socks -> States]
      /\ served \in [Socks -> {"no", "accepted", "yes"}]
      /\ owed \in [Socks -> [Docs -> 0 .. 3]]
  BY DEF Core, Types, RightInv, Inv, HookType
<1>2. CASE Restart
  <2>1. /\ wire' = wire
        /\ \A s \in Socks : sock'[s] = "closed" => sock[s] = "closed"
        /\ \A s \in Socks, d \in Docs : owed'[s][d] = 0
    BY <1>2 DEF Restart
  <2>2. \A d \in Docs : task'[d].to = <<>>
    BY <1>2, RestartCore
  <2>3. ToSet(<<>>) = {}
    BY DEF ToSet
  <2> QED
    BY <2>1, <2>2, <2>3 DEF Ends
<1>3. ASSUME NEW s \in Socks, Accept(s) \/ Register(s) \/ HandlerEnds(s) PROVE Ends'
  <2>1. UNCHANGED <<wire, sock, owed, task>>
    BY <1>3 DEF Accept, Register, HandlerEnds, server
  <2>2. ASSUME NEW u \in Socks, Up(u), served[u] = "yes" PROVE served'[u] = "yes"
    BY <1>1, <1>3, <2>2 DEF Accept, Register, HandlerEnds, Up
  <2> QED
    BY <2>1, <2>2 DEF Ends, Up
<1>4. ASSUME NEW s \in Socks, Retry(s) \/ Remount(s) \/ OnOpen(s) PROVE Ends'
  <2>1. UNCHANGED <<wire, served, owed, task>>
    BY <1>4 DEF Retry, Remount, OnOpen, server
  <2>2. ASSUME NEW u \in Socks, sock'[u] = "closed" PROVE sock[u] = "closed"
    BY <1>1, <1>4, <2>2 DEF Retry, Remount, OnOpen
  <2>3. ASSUME NEW u \in Socks, Up(u)'
        PROVE  Up(u) \/ \A d \in Docs : u \notin ToSet(task[d].to)
    BY <1>1, <1>4, <2>3 DEF Retry, Remount, OnOpen, Up, Free
  <2> QED
    BY <2>1, <2>2, <2>3 DEF Ends
<1>5. ASSUME NEW s \in Socks, OnClose(s) PROVE Ends'
  BY <1>1, <1>5 DEF OnClose, Closes, server, Ends, Up
<1>6. ASSUME NEW s \in Socks, OnMessage(s) PROVE Ends'
  BY <1>1, <1>6 DEF OnMessage, server, Ends, Up
<1>7. CASE SecondPasses \/ UNCHANGED vars
  BY <1>7 DEF SecondPasses, vars, server, Ends, Up
<1>8. CASE Quiet
  BY <1>8 DEF Quiet, LogOut, LogIn, RetryLoggedOut, StreamFails, server, Ends, Up
<1> QED
  BY <1>2, <1>3, <1>4, <1>5, <1>6, <1>7, <1>8, EndsTask DEF Next, Quiet

LEMMA SingleStep == Core /\ Single /\ [Next]_vars => Single'
<1> SUFFICES ASSUME Core, Single, [Next]_vars, hook'.remounts = 0
             PROVE  /\ hook'.timers <= 1
                    /\ \A s \in Socks : sock'[s] # "closed" =>
                         /\ hook'.timers = 0
                         /\ \A u \in Socks : sock'[u] # "closed" => u = s
  BY DEF Single
<1>1. /\ HookType /\ sock \in [Socks -> States]
      /\ hook.timers \in Nat /\ hook.remounts \in Nat
  BY DEF Core, Types, Inv, HookType, Hooks
<1>2. CASE UNCHANGED <<sock, hook>>
  BY <1>2 DEF Single
<1>3. CASE Restart
  <2>1. hook' = hook /\ \A s \in Socks : sock'[s] = "closed" <=> sock[s] = "closed"
    BY <1>1, <1>3 DEF Restart, client
  <2> QED
    BY <2>1 DEF Single
<1>4. ASSUME NEW s \in Socks, Retry(s) PROVE Single'
  <2>1. /\ hook'.timers = hook.timers - 1 /\ hook.timers > 0
        /\ hook'.remounts = hook.remounts
        /\ sock' = [sock EXCEPT ![s] = "connecting"]
    BY <1>1, <1>4, RetrySteps
  <2>2. hook'.timers = 0 /\ \A u \in Socks : sock[u] = "closed"
    BY <1>1, <2>1 DEF Single
  <2>3. \A u \in Socks : sock'[u] # "closed" => u = s
    BY <1>1, <2>1, <2>2
  <2> QED
    BY <2>2, <2>3 DEF Single
<1>5. ASSUME NEW s \in Socks, Remount(s) PROVE Single'
  BY <1>1, <1>5, RemountSteps
<1>6. ASSUME NEW s \in Socks, OnOpen(s) PROVE Single'
  <2>1. /\ hook'.timers = hook.timers /\ hook'.remounts = hook.remounts
        /\ sock[s] = "connecting" /\ sock' = [sock EXCEPT ![s] = "open"]
    BY <1>1, <1>6, OpenSteps
  <2>2. \A u \in Socks : sock'[u] = "closed" <=> sock[u] = "closed"
    BY <1>1, <2>1
  <2> QED
    BY <2>1, <2>2 DEF Single
<1>7. ASSUME NEW s \in Socks, OnClose(s) PROVE Single'
  <2>1. /\ hook'.remounts = hook.remounts /\ sock[s] # "closed"
        /\ hook'.timers \in {hook.timers, hook.timers + 1}
        /\ sock' = [sock EXCEPT ![s] = "closed"]
    BY <1>1, <1>7, CloseSteps
  <2>2. hook.timers = 0 /\ \A u \in Socks : sock[u] # "closed" => u = s
    BY <2>1 DEF Single
  <2>3. \A u \in Socks : sock'[u] = "closed"
    BY <1>1, <2>1, <2>2
  <2>4. hook'.timers <= 1
    BY <2>1, <2>2
  <2> QED
    BY <2>3, <2>4 DEF Single
<1>8. CASE Quiet
  <2>1. /\ sock' = sock /\ hook'.remounts = hook.remounts
        /\ hook'.timers <= hook.timers /\ hook'.timers \in Nat
    BY <1>1, <1>8, QuietSteps DEF Hooks
  <2>2. /\ hook.timers <= 1
        /\ \A s \in Socks : sock[s] # "closed" =>
             hook.timers = 0 /\ \A u \in Socks : sock[u] # "closed" => u = s
    BY <2>1 DEF Single
  <2> QED
    BY <1>1, <2>1, <2>2 DEF Single
<1>9. CASE UNCHANGED vars
  BY <1>2, <1>9 DEF vars, client
<1> QED
  BY <1>2, <1>3, <1>4, <1>5, <1>6, <1>7, <1>8, <1>9, Others DEF Single

---------------------------------------------------------------------------
(* What is shown never goes back *)

\* What is shown of a document is behind what is on its way.
Behind(f) ==
  /\ Rank(f.status) <= Reached(f.id)
  /\ \A s \in Socks : sock[s] # "closed" =>
       /\ \A m \in ToSet(wire[s]) : m.doc = f.id => Rank(f.status) < Rank(m.status)
       /\ s \in ToSet(task[f.id].to) => Rank(f.status) < Reached(f.id)

Shown == hook.remounts = 0 => \A i \in 1 .. Len(feed) : Behind(feed[i])

\* A document is shown once.
Once == \A i, j \in 1 .. Len(feed) : feed[i].id = feed[j].id => i = j

FeedInv == Core /\ Wires /\ Ends /\ Single /\ Once /\ Shown

LEMMA BehindTask ==
  ASSUME Core, NEW f \in Items, Behind(f), NEW d \in Docs, TaskStep(d)
  PROVE  Behind(f)'
<1>0. /\ Types /\ task \in [Docs -> Records] /\ DOMAIN wire = Socks /\ f.id \in Docs
      /\ Rank(f.status) \in 0 .. 3 /\ Rank(task[d].status) \in 0 .. 3
      /\ \A e \in Socks : wire[e] \in Seq(Message)
  <2>1. f.id \in Docs /\ f.status \in Emitted
    BY DEF Items, Emitted
  <2> QED
    BY <2>1, WireTypes, Ranks DEF Core, Types, RightInv, Reached
<1>1. ASSUME NEW status \in Emitted, NEW t \in Records,
             Rank(task[d].status) < Rank(status), Emitting(d, status, t)
      PROVE  Behind(f)'
  <2>1. /\ UNCHANGED <<wire, sock>> /\ task' = [task EXCEPT ![d] = t]
        /\ t.status = status
    BY <1>1 DEF Emitting
  <2>2. CASE f.id = d
    <3>1. Rank(f.status) <= Rank(task[d].status) /\ Rank(status) \in 0 .. 3
      BY <2>2, Ranks DEF Behind, Reached
    <3>2. Rank(f.status) < Rank(status) /\ Rank(f.status) <= Rank(status)
      BY <1>0, <1>1, <3>1
    <3>3. Reached(f.id)' = Rank(status)
      BY <1>0, <2>1, <2>2 DEF Reached
    <3> QED
      BY <2>1, <3>2, <3>3 DEF Behind
  <2>3. CASE f.id # d
    <3>1. task'[f.id] = task[f.id]
      BY <1>0, <2>1, <2>3
    <3> QED
      BY <2>1, <3>1 DEF Behind, Reached
  <2> QED
    BY <2>2, <2>3
<1>2. ASSUME NEW s \in Socks, NEW t \in Records, Delivering(d, s, t),
             \/ wire' = [wire EXCEPT ![s] = Append(wire[s], task[d].msg)]
             \/ wire' = wire
      PROVE  Behind(f)'
  <2>0. PICK e : e = task[d].msg
    OBVIOUS
  <2>1. /\ sock' = sock /\ task' = [task EXCEPT ![d] = t] /\ t.status = task[d].status
        /\ ToSet(t.to) \subseteq ToSet(task[d].to) /\ s \in ToSet(task[d].to)
        /\ e \in Message /\ e.doc = d /\ e.status = task[d].status
    BY <1>2, <2>0 DEF Delivering
  <2>2. /\ task'[f.id].status = task[f.id].status
        /\ ToSet(task'[f.id].to) \subseteq ToSet(task[f.id].to)
    BY <1>0, <2>1
  <2>3. ASSUME NEW u \in Socks, NEW m \in ToSet(wire'[u])
        PROVE  m \in ToSet(wire[u]) \/ (m = e /\ u = s)
    <3>1. CASE wire' = wire
      BY <2>3, <3>1
    <3>2. CASE wire' = [wire EXCEPT ![s] = Append(wire[s], e)]
      <4>1. ToSet(Append(wire[s], e)) = ToSet(wire[s]) \cup {e}
        BY <1>0, <2>1, LastAdded
      <4> QED
        BY <1>0, <2>3, <3>2, <4>1
    <3> QED
      BY <1>2, <2>0, <3>1, <3>2
  <2>4. ASSUME NEW u \in Socks, sock[u] # "closed", NEW m \in ToSet(wire'[u]), m.doc = f.id
        PROVE  Rank(f.status) < Rank(m.status)
    BY <2>1, <2>3, <2>4 DEF Behind, Reached
  <2> QED
    BY <2>1, <2>2, <2>4 DEF Behind, Reached
<1> QED
  BY <1>1, <1>2, TaskSteps

LEMMA BehindStep ==
  ASSUME Core, Ends, NEW f \in Items, Behind(f), [Next]_vars
  PROVE  Behind(f)'
<1>1. /\ Types /\ DOMAIN wire = Socks /\ sock \in [Socks -> States]
      /\ DOMAIN task = Docs /\ f.id \in Docs /\ ToSet(<<>>) = {}
      /\ \A s \in Socks : wire[s] \in Seq(Message)
  BY WireTypes DEF Core, Types, RightInv, Inv, HookType, Items, ToSet
<1>2. CASE Restart
  <2>1. /\ wire' = wire /\ \A s \in Socks : sock'[s] = "closed" <=> sock[s] = "closed"
    BY <1>1, <1>2 DEF Restart
  <2>2. task'[f.id].to = <<>> /\ task'[f.id].status = task[f.id].status
    BY <1>1, <1>2, RestartCore
  <2> QED
    BY <1>1, <2>1, <2>2 DEF Behind, Reached
<1>3. ASSUME NEW s \in Socks, Retry(s) \/ Remount(s) \/ OnOpen(s) PROVE Behind(f)'
  <2>1. UNCHANGED <<wire, task>>
    BY <1>3 DEF Retry, Remount, OnOpen, server
  <2>2. ASSUME NEW u \in Socks, sock[u] = "closed", sock'[u] # "closed"
        PROVE  wire[u] = <<>> /\ u \notin ToSet(task[f.id].to)
    BY <1>1, <1>3, <2>2 DEF Retry, Remount, OnOpen, Free, Ends
  <2> QED
    BY <1>1, <2>1, <2>2 DEF Behind, Reached
<1>4. ASSUME NEW s \in Socks, OnClose(s) PROVE Behind(f)'
  BY <1>1, <1>4 DEF OnClose, Closes, server, Behind, Reached
<1>5. ASSUME NEW s \in Socks, OnMessage(s) PROVE Behind(f)'
  <2>1. /\ UNCHANGED <<sock, task>> /\ wire' = [wire EXCEPT ![s] = Tail(wire[s])]
        /\ wire[s] # <<>>
    BY <1>5 DEF OnMessage, server
  <2>2. ToSet(Tail(wire[s])) \subseteq ToSet(wire[s])
    BY <1>1, <2>1, FirstAndRest
  <2> QED
    BY <1>1, <2>1, <2>2 DEF Behind, Reached
<1>6. CASE UNCHANGED <<task, wire, sock>>
  BY <1>6 DEF Behind, Reached
<1> QED
  BY <1>2, <1>3, <1>4, <1>5, <1>6, BehindTask
     DEF Next, SecondPasses, Accept, Register, HandlerEnds, LogOut, LogIn,
         RetryLoggedOut, StreamFails, server, vars

\* Only a message changes the feed.
LEMMA FeedMoves ==
  ASSUME [Next]_vars
  PROVE  feed' = feed \/ \E s \in Socks : OnMessage(s)
BY DEF Next, TaskStep, Begin, Downloaded, Analysed, Failed, Emit, SendText, SendRaises,
       SecondPasses, Accept, Register, HandlerEnds, Retry, Remount, OnOpen, OnClose,
       Closes, LogOut, LogIn, RetryLoggedOut, StreamFails, Restart, client, vars

\* Mounts are only counted up.
LEMMA NotMounted ==
  ASSUME Core, [Next]_vars, hook'.remounts = 0
  PROVE  hook.remounts = 0
<1>1. HookType /\ hook.remounts \in Nat
  BY DEF Core, Types, Inv, HookType, Hooks
<1>2. ASSUME NEW s \in Socks, Retry(s) \/ OnOpen(s) \/ OnClose(s)
      PROVE  hook'.remounts = hook.remounts
  BY <1>1, <1>2, RetrySteps, OpenSteps, CloseSteps
<1>3. ASSUME NEW s \in Socks, Remount(s) PROVE FALSE
  BY <1>1, <1>3, RemountSteps
<1>4. CASE Quiet
  BY <1>1, <1>4, QuietSteps
<1>5. CASE Restart \/ UNCHANGED vars
  BY <1>5 DEF Restart, client, vars
<1> QED
  BY <1>2, <1>3, <1>4, <1>5, Others

LEMMA OnceMessage ==
  ASSUME Core, Once, NEW s \in Socks, OnMessage(s)
  PROVE  Once'
<1>1. PICK m : /\ Item(m).id = m.doc
               /\ InPlace(m, feed') \/ InFront(m, feed')
  BY Received DEF Core
<1>2. CASE InPlace(m, feed')
  <2>1. Len(feed') = Len(feed) /\ \A i \in 1 .. Len(feed) : feed'[i].id = feed[i].id
    BY <1>1, <1>2 DEF InPlace
  <2> QED
    BY <2>1 DEF Once
<1>3. CASE InFront(m, feed')
  <2> DEFINE n == Len(feed')
  <2>0. n \in Nat
    BY CoreStep DEF Next, Core, Types, RightInv
  <2>1. \A i \in 1 .. n : i = 1 \/ i \in 2 .. n
    BY <2>0
  <2>2. feed'[1].id = m.doc /\ \A i \in 1 .. Len(feed) : feed[i].id # m.doc
    BY <1>1, <1>3 DEF InFront
  <2>3. \A i \in 2 .. n : i - 1 \in 1 .. Len(feed) /\ feed'[i] = feed[i - 1]
    BY <1>3 DEF InFront
  <2>4. \A i, j \in 2 .. n : i - 1 = j - 1 => i = j
    BY <2>0
  <2> HIDE DEF n
  <2>5. \A i, j \in 1 .. n : feed'[i].id = feed'[j].id => i = j
    BY <2>1, <2>2, <2>3, <2>4 DEF Once
  <2> QED
    BY <2>5 DEF Once, n
<1> QED
  BY <1>1, <1>2, <1>3

\* Every item after a message is the one of the message or was there before.
LEMMA ItemsAfter ==
  ASSUME Core, NEW s \in Socks, OnMessage(s), NEW j \in 1 .. Len(feed')
  PROVE  LET m == Head(wire[s]) IN
         \/ feed'[j] = Item(m)
         \/ \E i \in 1 .. Len(feed) : feed'[j] = feed[i] /\ feed[i].id # m.doc
<1> DEFINE m == Head(wire[s])
<1>1. InPlace(m, feed') \/ InFront(m, feed')
  BY Received DEF Core
<1>2. Len(feed') \in Nat
  BY CoreStep DEF Next, Core, Types, RightInv
<1>3. j = 1 \/ j \in 2 .. Len(feed')
  BY <1>2
<1> HIDE DEF m
<1>4. CASE InPlace(m, feed')
  BY <1>4 DEF InPlace, m
<1>5. CASE InFront(m, feed')
  BY <1>3, <1>5 DEF InFront, m
<1> QED
  BY <1>1, <1>4, <1>5

LEMMA ItemBehind ==
  ASSUME Core, Wires, Single, hook.remounts = 0, NEW s \in Socks, OnMessage(s)
  PROVE  \E f \in Items : f = Item(Head(wire[s])) /\ Behind(f)'
<1>0. PICK m : m = Head(wire[s])
  OBVIOUS
<1>1. /\ wire[s] \in Seq(Message) /\ wire[s] # <<>> /\ sock[s] = "open"
      /\ UNCHANGED <<sock, task>> /\ wire' = [wire EXCEPT ![s] = Tail(wire[s])]
      /\ DOMAIN wire = Socks
  BY WireTypes DEF Core, Types, RightInv, OnMessage, server
<1>2. /\ m \in Message /\ m \in ToSet(wire[s]) /\ InTime(m, s) /\ InOrder(wire[s])
      /\ \A n \in ToSet(Tail(wire[s])) : n.doc = m.doc => Rank(m.status) < Rank(n.status)
  <2>1. m \in Message /\ m \in ToSet(wire[s])
    BY <1>0, <1>1, FirstAndRest
  <2>2. InTime(m, s) /\ InOrder(wire[s])
    BY <2>1 DEF Wires
  <2> QED
    BY <1>0, <1>1, <2>1, <2>2, RestInOrder
<1>3. Item(m).id = m.doc /\ Item(m).status = m.status /\ Item(m) \in Items
  BY <1>2 DEF Item, Items, Message
<1>4. PICK f : f = Item(m)
  OBVIOUS
<1>5. \A u \in Socks : sock[u] # "closed" => u = s
  BY <1>1 DEF Single
<1>6. Behind(f)'
  BY <1>1, <1>2, <1>3, <1>4, <1>5 DEF Behind, InTime, Reached
<1> QED
  BY <1>0, <1>3, <1>4, <1>6

LEMMA ShownStep ==
  ASSUME Core, Wires, Ends, Single, Once, Shown, [Next]_vars
  PROVE  Once' /\ Shown'
<1>0. \A i \in 1 .. Len(feed) : feed[i] \in Items
  <2>1. feed \in Seq(RightItems) /\ \A f \in RightItems : f \in Items
    BY DEF Core, Types, RightInv, RightItems
  <2> QED
    BY <2>1
<1>1. Once'
  <2>1. CASE feed' = feed
    BY <2>1 DEF Once
  <2>2. CASE \E s \in Socks : OnMessage(s)
    BY <2>2, OnceMessage
  <2> QED
    BY <2>1, <2>2, FeedMoves
<1>2. ASSUME hook'.remounts = 0 PROVE \A j \in 1 .. Len(feed') :
                                    \E f \in Items : f = feed'[j] /\ Behind(f)'
  <2>1. hook.remounts = 0
    BY <1>2, NotMounted
  <2>2. \A f \in Items : Behind(f) => Behind(f)'
    BY BehindStep
  <2>3. \A i \in 1 .. Len(feed) : \E f \in Items : f = feed[i] /\ Behind(f)'
    <3> TAKE i \in 1 .. Len(feed)
    <3>1. PICK f \in Items : f = feed[i]
      BY <1>0
    <3>2. Behind(f)
      BY <2>1, <3>1 DEF Shown
    <3> QED
      BY <2>2, <3>1, <3>2
  <2>4. ASSUME NEW j \in 1 .. Len(feed')
        PROVE  \E f \in Items : f = feed'[j] /\ Behind(f)'
    <3>1. CASE feed' = feed
      BY <2>3, <2>4, <3>1
    <3>2. ASSUME NEW s \in Socks, OnMessage(s)
          PROVE  \E f \in Items : f = feed'[j] /\ Behind(f)'
      BY <2>1, <2>3, <3>2, ItemsAfter, ItemBehind
    <3> QED
      BY <3>1, <3>2, FeedMoves
  <2> QED
    BY <2>4
<1>3. Shown'
  BY <1>2 DEF Shown, Behind, Reached
<1> QED
  BY <1>1, <1>3

LEMMA FeedInvInit == Init => FeedInv
<1> SUFFICES ASSUME Init PROVE FeedInv
  OBVIOUS
<1>1. ToSet(<<>>) = {} /\ InOrder(<<>>) /\ Len(<<>>) = 0
  BY DEF ToSet, InOrder
<1>2. Wires
  BY <1>1 DEF Init, Wires
<1>3. Ends
  BY DEF Init, Ends, Up
<1>4. Single
  BY DEF Init, Single
<1>5. Once /\ Shown
  BY <1>1 DEF Init, Once, Shown
<1> QED
  BY <1>2, <1>3, <1>4, <1>5, CoreInit DEF FeedInv

LEMMA FeedInvStep == FeedInv /\ [Next]_vars => FeedInv'
BY CoreStep, WiresStep, EndsStep, SingleStep, ShownStep DEF FeedInv

---------------------------------------------------------------------------
(* The board *)

\* What StatusShown says, of any list of items.
ShownIn(f, d) ==
  IF \E i \in DOMAIN f : f[i].id = d
  THEN f[CHOOSE i \in DOMAIN f : f[i].id = d].status ELSE "new"

\* Of a document that has one item the status of that item is shown.
LEMMA OneShown ==
  ASSUME NEW f, NEW i \in DOMAIN f, \A j \in DOMAIN f : f[i].id = f[j].id => i = j
  PROVE  ShownIn(f, f[i].id) = f[i].status
<1>1. PICK k : k = CHOOSE j \in DOMAIN f : f[j].id = f[i].id
  OBVIOUS
<1>2. k \in DOMAIN f /\ f[k].id = f[i].id
  BY <1>1
<1>3. k = i
  BY <1>2
<1> QED
  BY <1>1, <1>3 DEF ShownIn

\* A status comes before another if it is not as far along.
LEMMA EarlierIsLess ==
  ASSUME NEW a \in {"new"} \cup Emitted, NEW b \in Emitted, Rank(a) < Rank(b)
  PROVE  a \in Board!Earlier(b)
BY DEF Rank, Emitted, Finals, Board!Earlier

\* The items before and after a message, without their places.
LEMMA ItemsKept ==
  ASSUME FeedInv, NEW s \in Socks, OnMessage(s)
  PROVE  LET m == Head(wire[s]) IN
         /\ \E j \in DOMAIN feed' : feed'[j] = Item(m)
         /\ \/ \A i \in DOMAIN feed : feed[i].id # m.doc =>
                 \E j \in DOMAIN feed' : feed'[j] = feed[i]
            \/ /\ \A i \in DOMAIN feed : feed[i].id # m.doc
               /\ \E last \in DOMAIN feed :
                    /\ \A j \in DOMAIN feed' : feed'[j].id # feed[last].id
                    /\ \A i \in DOMAIN feed : i # last =>
                         \E j \in DOMAIN feed' : feed'[j] = feed[i]
<1> DEFINE m == Head(wire[s])
           n == Len(feed)
           k == Len(feed')
<1>1. /\ InPlace(m, feed') \/ InFront(m, feed')
      /\ Item(m).id = m.doc
  BY Received DEF FeedInv, Core
<1>2. /\ n \in Nat /\ k \in Nat /\ DOMAIN feed = 1 .. n /\ DOMAIN feed' = 1 .. k
      /\ n <= MaxFeed /\ MaxFeed \in Nat /\ MaxFeed >= 1
  BY CoreStep, FeedAssumption DEF FeedInv, Core, Types, RightInv, Next
<1>3. \A i, j \in 1 .. n : feed[i].id = feed[j].id => i = j
  BY DEF FeedInv, Once
<1> HIDE DEF m
<1>4. CASE InPlace(m, feed')
  <2>1. k = n /\ \A i \in 1 .. n : feed'[i] = IF feed[i].id = m.doc THEN Item(m) ELSE feed[i]
    BY <1>4 DEF InPlace
  <2>2. PICK i \in 1 .. n : feed[i].id = m.doc
    BY <1>4 DEF InPlace
  <2> HIDE DEF n, k
  <2>3. feed'[i] = Item(m) /\ \A l \in 1 .. n : feed[l].id # m.doc => feed'[l] = feed[l]
    BY <2>1, <2>2
  <2> QED
    BY <1>2, <2>1, <2>3 DEF m
<1>5. CASE InFront(m, feed')
  <2>1. /\ \A i \in 1 .. n : feed[i].id # m.doc
        /\ k = IF n < MaxFeed THEN n + 1 ELSE MaxFeed
        /\ k >= 1 /\ feed'[1] = Item(m)
        /\ \A i \in 2 .. k : i - 1 \in 1 .. n /\ feed'[i] = feed[i - 1]
    BY <1>5 DEF InFront
  <2> HIDE DEF n, k
  <2>2. 1 \in 1 .. k
    BY <1>2, <2>1
  <2>3. ASSUME NEW i \in 1 .. n, i + 1 <= k PROVE \E j \in 1 .. k : feed'[j] = feed[i]
    <3>1. i + 1 \in 2 .. k /\ i + 1 \in 1 .. k /\ (i + 1) - 1 = i
      BY <1>2, <2>3
    <3> QED
      BY <2>1, <3>1
  <2>4. CASE n < MaxFeed
    <3>1. \A i \in 1 .. n : i + 1 <= k
      BY <1>2, <2>1, <2>4
    <3> QED
      BY <1>2, <2>1, <2>2, <2>3, <3>1 DEF m
  <2>5. CASE ~(n < MaxFeed)
    <3>1. n \in 1 .. n /\ k = n /\ \A i \in 1 .. n : i # n => i + 1 <= k
      BY <1>2, <2>1, <2>5
    <3>2. ASSUME NEW j \in 1 .. k PROVE feed'[j].id # feed[n].id
      <4>1. CASE j = 1
        BY <1>1, <2>1, <3>1, <4>1
      <4>2. CASE j # 1
        <5>1. j \in 2 .. k /\ j - 1 \in 1 .. n /\ j - 1 # n
          BY <1>2, <3>1, <4>2
        <5> QED
          BY <1>3, <2>1, <3>1, <5>1
      <4> QED
        BY <4>1, <4>2
    <3> QED
      BY <1>2, <2>1, <2>2, <2>3, <3>1, <3>2 DEF m
  <2> QED
    BY <2>4, <2>5
<1> QED
  BY <1>1, <1>4, <1>5

\* A message that arrives shows the status of its document.
LEMMA MessageShows ==
  ASSUME FeedInv, hook.remounts = 0, NEW s \in Socks, OnMessage(s)
  PROVE  \E d \in Docs, status \in Emitted : Board!Show(d, status)
<1>0. PICK m : m = Head(wire[s])
  OBVIOUS
<1> DEFINE d == m.doc
<1>1. /\ m \in Message /\ m \in ToSet(wire[s]) /\ d \in Docs /\ m.status \in Emitted
      /\ Item(m).id = d /\ Item(m).status = m.status /\ sock[s] # "closed"
  <2>1. wire[s] \in Seq(Message) /\ wire[s] # <<>> /\ sock[s] # "closed"
    BY WireTypes DEF FeedInv, Core, OnMessage
  <2>2. m \in Message /\ m \in ToSet(wire[s])
    BY <1>0, <2>1, FirstAndRest
  <2>3. Item(m).id = d /\ Item(m).status = m.status
    BY <1>0, Received DEF FeedInv, Core
  <2> QED
    BY <2>1, <2>2, <2>3 DEF Message, Emitted
<1>2. m.status = task[d].status \/ m.status \in Board!Earlier(task[d].status)
  <2>1. /\ InTime(m, s) /\ task[d].status \in {"new"} \cup Emitted
        /\ Rank(m.status) \in 0 .. 3 /\ Reached(d) \in 0 .. 3
    BY <1>1, WireTypes DEF FeedInv, Wires, Core, Types, Records
  <2>2. CASE Rank(m.status) = Reached(d)
    BY <2>1, <2>2 DEF InTime
  <2>3. CASE Rank(m.status) < Reached(d)
    <3>1. task[d].status # "new"
      BY <2>1, <2>3, Ranks DEF Reached
    <3> QED
      BY <1>1, <2>1, <2>3, <3>1, EarlierIsLess DEF Reached
  <2> QED
    BY <2>1, <2>2, <2>3 DEF InTime
<1>3. /\ DOMAIN feed = 1 .. Len(feed) /\ DOMAIN feed' = 1 .. Len(feed')
      /\ \A i \in DOMAIN feed : feed[i].status \in Emitted /\ feed[i].id \in Docs
  <2>1. feed \in Seq(RightItems) /\ feed' \in Seq(RightItems)
    BY CoreStep DEF FeedInv, Core, Types, RightInv, Next
  <2>2. \A i \in DOMAIN feed : feed[i] \in Items
    BY <2>1 DEF RightItems
  <2> QED
    BY <2>1, <2>2 DEF Items, Emitted
<1>4. /\ \A i, j \in DOMAIN feed : feed[i].id = feed[j].id => i = j
      /\ \A i, j \in DOMAIN feed' : feed'[i].id = feed'[j].id => i = j
  BY <1>3, OnceMessage DEF FeedInv, Once
<1>5. /\ \A c \in Docs : StatusShown(c) = ShownIn(feed, c)
      /\ \A c \in Docs : StatusShown(c)' = ShownIn(feed', c)
  BY DEF StatusShown, ShownIn
<1>6. /\ \A i \in DOMAIN feed : ShownIn(feed, feed[i].id) = feed[i].status
      /\ \A j \in DOMAIN feed' : ShownIn(feed', feed'[j].id) = feed'[j].status
  <2>1. \A i \in DOMAIN feed : ShownIn(feed, feed[i].id) = feed[i].status
    BY <1>4, OneShown
  <2>2. PICK f : f = feed'
    OBVIOUS
  <2>3. \A j \in DOMAIN f : ShownIn(f, f[j].id) = f[j].status
    BY <1>4, <2>2, OneShown
  <2> QED
    BY <2>1, <2>2, <2>3
<1>7. ShownIn(feed, d) \in Board!Earlier(m.status)
  <2>1. CASE \E i \in DOMAIN feed : feed[i].id = d
    <3>1. PICK i \in DOMAIN feed : feed[i].id = d
      BY <2>1
    <3>2. Rank(feed[i].status) < Rank(m.status)
      BY <1>1, <1>3, <3>1 DEF FeedInv, Shown, Behind
    <3> QED
      BY <1>1, <1>3, <1>6, <3>1, <3>2, EarlierIsLess
  <2>2. CASE ~ \E i \in DOMAIN feed : feed[i].id = d
    <3>1. ShownIn(feed, d) = "new"
      BY <2>2 DEF ShownIn
    <3> QED
      BY <1>1, <3>1 DEF Board!Earlier, Emitted, Finals
  <2> QED
    BY <2>1, <2>2
<1>8. ShownIn(feed', d) = m.status
  <2>1. \E j \in DOMAIN feed' : feed'[j] = Item(m)
    BY <1>0, ItemsKept
  <2> QED
    BY <1>1, <1>6, <2>1
<1>9. ASSUME NEW i \in DOMAIN feed, \E j \in DOMAIN feed' : feed'[j] = feed[i]
      PROVE  ShownIn(feed', feed[i].id) = ShownIn(feed, feed[i].id)
  BY <1>6, <1>9
<1>10. ASSUME NEW c \in Docs, c # d, \A i \in DOMAIN feed : feed[i].id # c
       PROVE  ShownIn(feed', c) = ShownIn(feed, c)
  <2>1. \A j \in DOMAIN feed' : feed'[j].id # c
    BY <1>0, <1>1, <1>3, <1>10, ItemsAfter DEF FeedInv
  <2> QED
    BY <1>10, <2>1 DEF ShownIn
<1> DEFINE board == [c \in Docs |-> ShownIn(feed, c)]
           after == [c \in Docs |-> ShownIn(feed', c)]
<1>11. \/ after = [board EXCEPT ![d] = m.status]
       \/ /\ board[d] = "new"
          /\ \E out \in Docs \ {d} :
                after = [board EXCEPT ![d] = m.status, ![out] = "new"]
  <2>1. CASE \A i \in DOMAIN feed : feed[i].id # d =>
               \E j \in DOMAIN feed' : feed'[j] = feed[i]
    <3>1. \A c \in Docs : c # d => ShownIn(feed', c) = ShownIn(feed, c)
      BY <1>9, <1>10, <2>1
    <3> QED
      BY <1>1, <1>8, <3>1
  <2>2. ASSUME \A i \in DOMAIN feed : feed[i].id # d,
               NEW last \in DOMAIN feed,
               \A j \in DOMAIN feed' : feed'[j].id # feed[last].id,
               \A i \in DOMAIN feed : i # last => \E j \in DOMAIN feed' : feed'[j] = feed[i]
        PROVE  /\ board[d] = "new"
               /\ \E out \in Docs \ {d} :
                     after = [board EXCEPT ![d] = m.status, ![out] = "new"]
    <3>1. PICK out : out = feed[last].id
      OBVIOUS
    <3>2. out \in Docs /\ out # d
      BY <1>3, <2>2, <3>1
    <3>3. ShownIn(feed', out) = "new" /\ ShownIn(feed, d) = "new"
      BY <2>2, <3>1 DEF ShownIn
    <3>4. \A c \in Docs : c \notin {d, out} => ShownIn(feed', c) = ShownIn(feed, c)
      BY <1>9, <1>10, <2>2, <3>1
    <3>5. after = [board EXCEPT ![d] = m.status, ![out] = "new"]
      BY <1>1, <1>8, <3>2, <3>3, <3>4
    <3> QED
      BY <1>1, <3>2, <3>3, <3>5
  <2> QED
    BY <1>0, <2>1, <2>2, ItemsKept
<1>12. Board!Show(d, m.status)
  <2>1. /\ [c \in Docs |-> StatusShown(c)] = board
        /\ [c \in Docs |-> StatusShown(c)'] = after
        /\ board[d] = ShownIn(feed, d)
    BY <1>1, <1>5
  <2>2. [c \in Docs |-> task[c].status][d] = task[d].status
    BY <1>1
  <2> HIDE DEF board, after
  <2> QED
    BY <1>2, <1>7, <1>11, <2>1, <2>2 DEF Board!Show
<1> QED
  BY <1>1, <1>12

\* What is told changes only by an emission.
LEMMA TellsStep ==
  ASSUME FeedInv, [Next]_vars
  PROVE  \/ \A d \in Docs : task'[d].status = task[d].status
         \/ \E d \in Docs, status \in Emitted : Board!Tell(d, status)
<1>1. task \in [Docs -> Records] /\ Core
  BY DEF FeedInv, Core, Types
<1>2. ASSUME NEW d \in Docs, NEW status \in Emitted, NEW t \in Records,
             Rank(task[d].status) < Rank(status), Emitting(d, status, t)
      PROVE  Board!Tell(d, status)
  <2>1. task' = [task EXCEPT ![d] = t] /\ t.status = status
    BY <1>2 DEF Emitting
  <2>2. task[d].status \in Board!Earlier(status)
    BY <1>1, <1>2, EarlierIsLess DEF Records
  <2>3. [c \in Docs |-> task'[c].status] = [[c \in Docs |-> task[c].status] EXCEPT ![d] = status]
    BY <1>1, <2>1
  <2> QED
    BY <2>2, <2>3 DEF Board!Tell
<1>3. ASSUME NEW d \in Docs, NEW s \in Socks, NEW t \in Records, Delivering(d, s, t)
      PROVE  \A c \in Docs : task'[c].status = task[c].status
  BY <1>1, <1>3 DEF Delivering
<1>4. ASSUME NEW d \in Docs, TaskStep(d)
      PROVE  \/ \A c \in Docs : task'[c].status = task[c].status
             \/ \E c \in Docs, status \in Emitted : Board!Tell(c, status)
  BY <1>1, <1>2, <1>3, <1>4, TaskSteps
<1>5. CASE Restart
  BY <1>1, <1>5, RestartCore
<1>6. CASE task' = task
  BY <1>6
<1> QED
  BY <1>4, <1>5, <1>6
     DEF Next, SecondPasses, Accept, Register, HandlerEnds, Retry, Remount, OnOpen,
         OnClose, Closes, OnMessage, LogOut, LogIn, RetryLoggedOut, StreamFails,
         server, vars

LEMMA BoardStep == FeedInv /\ [Next]_vars => [Board!BoardNext]_(Board!boardVars)
<1> SUFFICES ASSUME FeedInv, [Next]_vars PROVE Board!BoardNext
  OBVIOUS
<1>1. Emitted = Board!Statuses
  BY DEF Emitted, Finals, Board!Statuses
<1>2. Board!Tells
  <2>1. CASE \A d \in Docs : task'[d].status = task[d].status
    <3>1. [d \in Docs |-> task'[d].status] = [d \in Docs |-> task[d].status]
      BY <2>1
    <3> QED
      BY <3>1 DEF Board!Tells
  <2>2. CASE \E d \in Docs, status \in Emitted : Board!Tell(d, status)
    BY <1>1, <2>2 DEF Board!Tells
  <2> QED
    BY <2>1, <2>2, TellsStep
<1>3. ASSUME hook'.remounts = 0 PROVE hook.remounts = 0 /\ Board!Shows
  <2>1. hook.remounts = 0
    BY <1>3, NotMounted DEF FeedInv
  <2>2. CASE feed' = feed
    <3>1. \A d \in Docs : StatusShown(d)' = StatusShown(d)
      BY <2>2 DEF StatusShown
    <3>2. [d \in Docs |-> StatusShown(d)'] = [d \in Docs |-> StatusShown(d)]
      BY <3>1
    <3> QED
      BY <2>1, <3>2 DEF Board!Shows
  <2>3. CASE \E s \in Socks : OnMessage(s)
    BY <1>1, <2>1, <2>3, MessageShows DEF Board!Shows
  <2> QED
    BY <2>2, <2>3, <2>1, FeedMoves
<1> QED
  BY <1>2, <1>3 DEF Board!BoardNext

LEMMA BoardInits == Init => Board!BoardInit
<1> SUFFICES ASSUME Init PROVE Board!BoardInit
  OBVIOUS
<1>1. \A d \in Docs : task[d].status = "new"
  BY DEF Init, Idle
<1>2. \A d \in Docs : StatusShown(d) = "new"
  BY DEF Init, StatusShown
<1>3. hook.remounts = 0
  BY DEF Init
<1> QED
  BY <1>1, <1>2, <1>3 DEF Board!BoardInit

\* The feed implements the board: while the page was not mounted again, what it
\* shows of a document was told of it and never goes back, and a document gives
\* way only to a new one, however many sockets come and go.
THEOREM BoardCorrect == Spec => ImplementsBoard
BY FeedInvInit, FeedInvStep, BoardInits, BoardStep, PTL
   DEF Spec, ImplementsBoard, Board!BoardSpec

---------------------------------------------------------------------------
(* What was addressed arrives *)

\* The feed is full of documents other than d.
Missing(d) == Len(feed) = MaxFeed /\ \A i \in 1 .. Len(feed) : feed[i].id # d

\* Where a status r of d is that was addressed to s: still to be sent, on the
\* wire with nothing before it that would hide it, or shown.
Due(s, d, r) ==
  \/ s \in ToSet(task[d].to)
  \/ \E m \in ToSet(wire[s]) : m.doc = d /\ Rank(m.status) >= r
  \/ /\ \A m \in ToSet(wire[s]) : m.doc # d
     /\ ShownUpTo(d, r) \/ Missing(d)

Owing ==
  \A s \in Socks, d \in Docs :
    /\ owed[s][d] <= Reached(d)
    /\ (hook.remounts = 0 /\ Up(s) /\ owed[s][d] > 0) => Due(s, d, owed[s][d])

LEMMA OwingTask ==
  ASSUME FeedInv, Owing, NEW d \in Docs, TaskStep(d)
  PROVE  Owing'
<1>0. /\ Types /\ task \in [Docs -> Records] /\ DOMAIN wire = Socks
      /\ owed \in [Socks -> [Docs -> 0 .. 3]] /\ Rank(task[d].status) \in 0 .. 3
      /\ \A u \in Socks : wire[u] \in Seq(Message)
      /\ ToSet(<<>>) = {}
  BY WireTypes DEF FeedInv, Core, Types, RightInv, Reached, ToSet
<1>1. ASSUME NEW status \in Emitted, NEW t \in Records,
             Rank(task[d].status) < Rank(status), task[d].to = <<>>, Emitting(d, status, t)
      PROVE  Owing'
  <2>1. /\ UNCHANGED <<wire, sock, hook, feed>> /\ task' = [task EXCEPT ![d] = t]
        /\ t.status = status /\ Rank(status) \in 0 .. 3
    BY <1>1, Ranks DEF Emitting
  <2>2. ASSUME NEW s \in Socks, NEW c \in Docs
        PROVE  \/ owed'[s][c] = owed[s][c]
               \/ c = d /\ owed'[s][c] = Rank(status) /\ s \in ToSet(t.to)
    <3>1. CASE owed' = owed
      BY <3>1
    <3>2. CASE owed' = [u \in Socks |-> IF u \in ToSet(conns) /\ Up(u)
                                        THEN [owed[u] EXCEPT ![d] = Rank(status)]
                                        ELSE owed[u]]
      <4>1. CASE s \in ToSet(conns) /\ Up(s)
        <5>1. owed'[s] = [owed[s] EXCEPT ![d] = Rank(status)] /\ owed[s] \in [Docs -> 0 .. 3]
          BY <1>0, <3>2, <4>1
        <5>2. owed' = owed \/ t.to = conns
          BY <1>1 DEF Emitting
        <5> QED
          BY <4>1, <5>1, <5>2
      <4>2. CASE ~(s \in ToSet(conns) /\ Up(s))
        BY <3>2, <4>2
      <4> QED
        BY <4>1, <4>2
    <3> QED
      BY <1>1, <3>1, <3>2 DEF Emitting
  <2>3. ASSUME NEW s \in Socks, NEW c \in Docs, c # d
        PROVE  /\ owed'[s][c] <= Reached(c)'
               /\ (hook'.remounts = 0 /\ Up(s)' /\ owed'[s][c] > 0) => Due(s, c, owed[s][c])'
    <3>1. task'[c] = task[c] /\ owed'[s][c] = owed[s][c]
      BY <1>0, <2>1, <2>2, <2>3
    <3> QED
      BY <2>1, <3>1 DEF Owing, Due, Reached, Up, ShownUpTo, Missing
  <2>4. ASSUME NEW s \in Socks
        PROVE  /\ owed'[s][d] <= Reached(d)'
               /\ (hook'.remounts = 0 /\ Up(s)' /\ owed'[s][d] > 0) => Due(s, d, owed[s][d])'
    <3>1. task'[d] = t /\ Reached(d)' = Rank(status)
      BY <1>0, <2>1 DEF Reached
    <3>2. CASE owed'[s][d] = owed[s][d]
      <4>1. owed[s][d] \in 0 .. 3 /\ owed[s][d] <= Rank(task[d].status)
        BY <1>0 DEF Owing, Reached
      <4>2. owed[s][d] <= Rank(status)
        BY <1>0, <1>1, <2>1, <4>1
      <4>3. s \notin ToSet(task[d].to)
        BY <1>0, <1>1
      <4> QED
        BY <2>1, <3>1, <3>2, <4>2, <4>3 DEF Owing, Due, Up, ShownUpTo, Missing
    <3>3. CASE owed'[s][d] = Rank(status) /\ s \in ToSet(t.to)
      <4>1. Rank(status) <= Rank(status)
        BY <2>1
      <4> QED
        BY <3>1, <3>3, <4>1 DEF Due
    <3> QED
      BY <2>2, <3>2, <3>3
  <2> QED
    BY <2>3, <2>4 DEF Owing
<1>2. ASSUME NEW s \in Socks, NEW t \in Records, Delivering(d, s, t),
             \/ Up(s) /\ wire' = [wire EXCEPT ![s] = Append(wire[s], task[d].msg)]
             \/ ~(Up(s) /\ served[s] = "yes") /\ wire' = wire
      PROVE  Owing'
  <2>0. PICK e : e = task[d].msg
    OBVIOUS
  <2>1. /\ UNCHANGED <<sock, hook, feed, owed>> /\ task' = [task EXCEPT ![d] = t]
        /\ t.status = task[d].status
        /\ ToSet(t.to) = ToSet(task[d].to) \ {s} /\ s \in ToSet(task[d].to)
        /\ e \in Message /\ e.doc = d /\ e.status = task[d].status
    BY <1>2, <2>0 DEF Delivering
  <2>2. \A u \in Socks : u # s => wire'[u] = wire[u]
    BY <1>0, <1>2
  <2>3. \/ wire'[s] = wire[s] /\ ~(Up(s) /\ served[s] = "yes")
        \/ ToSet(wire'[s]) = ToSet(wire[s]) \cup {e}
    <3>1. ToSet(Append(wire[s], e)) = ToSet(wire[s]) \cup {e}
      BY <1>0, <2>1, LastAdded
    <3> QED
      BY <1>0, <1>2, <2>0, <3>1
  <2>4. \A c \in Docs : Reached(c)' = Reached(c)
    BY <1>0, <2>1 DEF Reached
  <2>5. ASSUME NEW u \in Socks, NEW c \in Docs,
               hook'.remounts = 0, Up(u)', owed'[u][c] > 0
        PROVE  Due(u, c, owed[u][c])'
    <3>1. Due(u, c, owed[u][c]) /\ Up(u)
      BY <2>1, <2>5 DEF Owing, Up
    <3>2. CASE c # d
      <4>1. task'[c] = task[c]
        BY <1>0, <2>1, <3>2
      <4>2. \A m : m.doc = c => (m \in ToSet(wire'[u]) <=> m \in ToSet(wire[u]))
        BY <2>1, <2>2, <2>3, <3>2
      <4> QED
        BY <2>1, <3>1, <4>1, <4>2 DEF Due, ShownUpTo, Missing
    <3>3. CASE c = d /\ u # s
      <4>1. wire'[u] = wire[u] /\ (u \in ToSet(task'[c].to) <=> u \in ToSet(task[c].to))
        BY <1>0, <2>1, <2>2, <3>3
      <4> QED
        BY <2>1, <3>1, <4>1 DEF Due, ShownUpTo, Missing
    <3>4. CASE c = d /\ u = s
      <4>1. served[s] = "yes"
        BY <2>1, <3>1, <3>4 DEF FeedInv, Ends
      <4>2. e \in ToSet(wire'[s])
        BY <2>3, <3>1, <3>4, <4>1
      <4>3. owed[u][c] \in 0 .. 3 /\ owed[u][c] <= Rank(e.status)
        BY <1>0, <2>1, <3>4 DEF Owing, Reached
      <4>4. Rank(e.status) >= owed[u][c]
        BY <1>0, <2>1, <4>3
      <4> QED
        BY <2>1, <3>4, <4>2, <4>4 DEF Due
    <3> QED
      BY <3>2, <3>3, <3>4
  <2> QED
    BY <2>1, <2>4, <2>5 DEF Owing
<1> QED
  BY <1>1, <1>2, TaskSteps DEF FeedInv

\* A message of another document leaves the item, or pushes it out of a feed
\* that is full.
LEMMA StaysShown ==
  ASSUME FeedInv, NEW s \in Socks, OnMessage(s), NEW d \in Docs, d # Head(wire[s]).doc,
         NEW r, ShownUpTo(d, r) \/ Missing(d)
  PROVE  (ShownUpTo(d, r) \/ Missing(d))'
<1> DEFINE n == Len(feed)
           k == Len(feed')
<1>0. PICK m : m = Head(wire[s])
  OBVIOUS
<1>1. /\ InPlace(m, feed') \/ InFront(m, feed')
      /\ Item(m).id = m.doc /\ m.doc # d
  BY <1>0, Received DEF FeedInv, Core
<1>2. /\ n \in Nat /\ k \in Nat /\ DOMAIN feed = 1 .. n /\ DOMAIN feed' = 1 .. k
      /\ n <= MaxFeed /\ MaxFeed \in Nat
  BY CoreStep, FeedAssumption DEF Next, FeedInv, Core, Types, RightInv
<1> HIDE DEF n, k
<1>3. CASE InPlace(m, feed')
  <2>1. /\ k = n /\ \A i \in 1 .. n : feed'[i].id = feed[i].id
        /\ \A i \in 1 .. n : feed[i].id = d => feed'[i] = feed[i]
    BY <1>1, <1>3 DEF InPlace, n, k
  <2>2. CASE ShownUpTo(d, r)
    BY <1>2, <2>1, <2>2 DEF ShownUpTo
  <2>3. CASE Missing(d)
    BY <2>1, <2>3 DEF Missing, n, k
  <2> QED
    BY <2>2, <2>3
<1>4. CASE InFront(m, feed')
  <2>1. /\ k = (IF n < MaxFeed THEN n + 1 ELSE MaxFeed) /\ feed'[1].id # d
        /\ \A i \in 2 .. k : i - 1 \in 1 .. n /\ feed'[i] = feed[i - 1]
    BY <1>1, <1>4 DEF InFront, n, k
  <2>2. \A i \in 1 .. k : i = 1 \/ i \in 2 .. k
    BY <1>2
  <2>3. CASE ShownUpTo(d, r)
    <3>1. PICK i \in 1 .. n : feed[i].id = d /\ Rank(feed[i].status) >= r
      BY <1>2, <2>3 DEF ShownUpTo
    <3>2. CASE i + 1 <= k
      <4>1. i + 1 \in 2 .. k /\ i + 1 \in 1 .. k /\ (i + 1) - 1 = i
        BY <1>2, <3>2
      <4>2. feed'[i + 1] = feed[i]
        BY <2>1, <4>1
      <4> QED
        BY <1>2, <3>1, <4>1, <4>2 DEF ShownUpTo
    <3>3. CASE ~(i + 1 <= k)
      <4>1. k = MaxFeed /\ \A j \in 2 .. k : j - 1 # i
        BY <1>2, <2>1, <3>3
      <4>2. \A j \in 1 .. n : feed[j].id = d => j = i
        BY <3>1 DEF FeedInv, Once, n
      <4>3. \A j \in 1 .. k : feed'[j].id # d
        BY <2>1, <2>2, <4>1, <4>2
      <4> QED
        BY <4>1, <4>3 DEF Missing, k
    <3> QED
      BY <3>2, <3>3
  <2>4. CASE Missing(d)
    <3>1. k = MaxFeed /\ \A j \in 1 .. n : feed[j].id # d
      BY <1>2, <2>1, <2>4 DEF Missing, n
    <3> QED
      BY <2>1, <2>2, <3>1 DEF Missing, k
  <2> QED
    BY <2>3, <2>4
<1> QED
  BY <1>1, <1>3, <1>4

\* After a message its item is in the feed.
LEMMA ItemShown ==
  ASSUME Types, NEW s \in Socks, OnMessage(s)
  PROVE  \E i \in 1 .. Len(feed') : feed'[i] = Item(Head(wire[s]))
<1>0. PICK m : m = Head(wire[s])
  OBVIOUS
<1>1. InPlace(m, feed') \/ InFront(m, feed')
  BY <1>0, Received
<1>2. CASE InPlace(m, feed')
  BY <1>0, <1>2 DEF InPlace
<1>3. CASE InFront(m, feed')
  <2>1. Len(feed') \in Nat
    BY <1>3, FeedAssumption DEF InFront, Types, RightInv
  <2>2. 1 \in 1 .. Len(feed')
    BY <1>3, <2>1 DEF InFront
  <2> QED
    BY <1>0, <1>3, <2>2 DEF InFront
<1> QED
  BY <1>1, <1>2, <1>3

LEMMA OwingMessage ==
  ASSUME FeedInv, Owing, NEW s \in Socks, OnMessage(s)
  PROVE  Owing'
<1>0. PICK m : m = Head(wire[s])
  OBVIOUS
<1>1. /\ UNCHANGED <<sock, task, hook, owed>> /\ wire' = [wire EXCEPT ![s] = Tail(wire[s])]
      /\ DOMAIN wire = Socks /\ wire[s] \in Seq(Message) /\ wire[s] # <<>>
      /\ sock[s] = "open"
  BY WireTypes DEF FeedInv, Core, Types, RightInv, OnMessage, server
<1>2. /\ m \in Message /\ m \in ToSet(wire[s])
      /\ ToSet(Tail(wire[s])) \subseteq ToSet(wire[s])
      /\ ToSet(wire[s]) \subseteq ToSet(Tail(wire[s])) \cup {m}
      /\ \A n \in ToSet(Tail(wire[s])) : n.doc = m.doc => Rank(m.status) < Rank(n.status)
  BY <1>0, <1>1, FirstAndRest, RestInOrder DEF FeedInv, Wires
<1>3. wire'[s] = Tail(wire[s])
  BY <1>1
<1>4. ASSUME NEW u \in Socks, NEW d \in Docs, hook.remounts = 0, Up(u), owed[u][d] > 0
      PROVE  Due(u, d, owed[u][d])'
  <2>0. PICK r : r = owed[u][d]
    OBVIOUS
  <2>1. u = s
    BY <1>1, <1>4 DEF FeedInv, Single, Up
  <2>2. Due(s, d, r) /\ r \in 0 .. 3
    BY <1>4, <2>0, <2>1 DEF Owing, FeedInv, Core, Types
  <2>3. ASSUME s \in ToSet(task[d].to) PROVE Due(s, d, r)'
    BY <1>1, <2>3 DEF Due
  <2>4. ASSUME NEW n \in ToSet(wire[s]), n.doc = d, Rank(n.status) >= r
        PROVE  Due(s, d, r)'
    <3>1. CASE n \in ToSet(Tail(wire[s]))
      BY <1>3, <2>4, <3>1 DEF Due
    <3>2. CASE n = m
      <4>1. CASE \E l \in ToSet(Tail(wire[s])) : l.doc = d
        <5>1. PICK l \in ToSet(Tail(wire[s])) : l.doc = d
          BY <4>1
        <5>2. Rank(m.status) < Rank(l.status) /\ Rank(m.status) >= r
          BY <1>2, <2>4, <3>2, <5>1
        <5>3. Rank(m.status) \in 0 .. 3 /\ Rank(l.status) \in 0 .. 3
          BY <1>2, <5>1, WireTypes DEF FeedInv, Core
        <5>4. Rank(l.status) >= r
          BY <2>2, <5>2, <5>3
        <5> QED
          BY <1>3, <5>1, <5>4 DEF Due
      <4>2. CASE \A l \in ToSet(Tail(wire[s])) : l.doc # d
        <5>1. PICK i \in 1 .. Len(feed') : feed'[i] = Item(m)
          BY <1>0, ItemShown DEF FeedInv, Core
        <5>2. Item(m).id = d /\ Item(m).status = n.status
          BY <2>4, <3>2 DEF Item
        <5>3. DOMAIN feed' = 1 .. Len(feed')
          BY CoreStep DEF Next, FeedInv, Core, Types, RightInv
        <5>4. ShownUpTo(d, r)'
          BY <2>4, <5>1, <5>2, <5>3 DEF ShownUpTo
        <5> QED
          BY <1>3, <4>2, <5>4 DEF Due
      <4> QED
        BY <4>1, <4>2
    <3> QED
      BY <1>2, <3>1, <3>2
  <2>5. ASSUME \A n \in ToSet(wire[s]) : n.doc # d, ShownUpTo(d, r) \/ Missing(d)
        PROVE  Due(s, d, r)'
    <3>1. (ShownUpTo(d, r) \/ Missing(d))'
      BY <1>0, <1>2, <2>5, StaysShown
    <3> QED
      BY <1>2, <1>3, <2>5, <3>1 DEF Due
  <2>6. Due(s, d, r)'
    <3>1. \/ s \in ToSet(task[d].to)
          \/ \E n \in ToSet(wire[s]) : n.doc = d /\ Rank(n.status) >= r
          \/ (\A n \in ToSet(wire[s]) : n.doc # d) /\ (ShownUpTo(d, r) \/ Missing(d))
      BY <2>2 DEF Due
    <3>2. s \in ToSet(task[d].to) => Due(s, d, r)'
      BY <2>3, <2>1
    <3> QED
      BY <2>4, <2>5, <3>1, <3>2
  <2>7. owed'[u][d] = r
    BY <1>1, <2>0
  <2> QED
    BY <2>1, <2>6, <2>7 DEF Due, ShownUpTo, Missing
<1> QED
  BY <1>1, <1>4 DEF Owing, Up, Reached

LEMMA OwingStep == FeedInv /\ Owing /\ [Next]_vars => Owing'
<1> SUFFICES ASSUME FeedInv, Owing, [Next]_vars PROVE Owing'
  OBVIOUS
<1>1. /\ DOMAIN wire = Socks /\ sock \in [Socks -> States] /\ DOMAIN task = Docs
      /\ owed \in [Socks -> [Docs -> 0 .. 3]]
      /\ \A d \in Docs : Reached(d) \in 0 .. 3
  BY WireTypes DEF FeedInv, Core, Types, RightInv, Inv, HookType
<1>2. CASE Restart
  <2>1. \A s \in Socks, d \in Docs : owed'[s][d] = 0
    BY <1>2 DEF Restart
  <2>2. \A d \in Docs : Reached(d)' = Reached(d)
    BY <1>2, RestartCore DEF Reached, FeedInv
  <2>3. ASSUME NEW s \in Socks, NEW d \in Docs
        PROVE  owed'[s][d] <= Reached(d)' /\ ~(owed'[s][d] > 0)
    <3>1. Reached(d) \in 0 .. 3
      BY <1>1
    <3> HIDE DEF Reached
    <3>2. 0 <= Reached(d) /\ ~(0 > 0)
      BY <3>1
    <3> QED
      BY <2>1, <2>2, <3>2
  <2> QED
    BY <2>3 DEF Owing
<1>3. ASSUME NEW s \in Socks, Retry(s) \/ Remount(s) \/ OnOpen(s) PROVE Owing'
  <2>1. UNCHANGED <<wire, task, feed, owed>>
    BY <1>3 DEF Retry, Remount, OnOpen, server
  <2>2. hook'.remounts = 0 => hook.remounts = 0
    BY NotMounted DEF FeedInv
  <2>3. ASSUME NEW u \in Socks, Up(u)' PROVE Up(u) \/ sock[u] = "closed"
    BY <1>1, <1>3, <2>3 DEF Retry, Remount, OnOpen, Up, Free
  <2>4. \A u \in Socks, d \in Docs : sock[u] = "closed" => ~(owed[u][d] > 0)
    BY DEF FeedInv, Ends
  <2> QED
    BY <2>1, <2>2, <2>3, <2>4 DEF Owing, Due, Reached, ShownUpTo, Missing
<1>4. ASSUME NEW s \in Socks, OnClose(s) PROVE Owing'
  <2>1. /\ UNCHANGED <<task, feed>> /\ sock' = [sock EXCEPT ![s] = "closed"]
        /\ wire' = [wire EXCEPT ![s] = <<>>]
        /\ owed' = [owed EXCEPT ![s] = [d \in Docs |-> 0]]
    BY <1>4 DEF OnClose, Closes, server
  <2>2. hook'.remounts = 0 => hook.remounts = 0
    BY NotMounted DEF FeedInv
  <2>3. ASSUME NEW u \in Socks, NEW d \in Docs
        PROVE  /\ owed'[u][d] <= Reached(d)'
               /\ (hook'.remounts = 0 /\ Up(u)' /\ owed'[u][d] > 0) => Due(u, d, owed[u][d])'
    <3>1. CASE u = s
      <4>1. owed'[u][d] = 0 /\ ~(owed'[u][d] > 0)
        BY <1>1, <2>1, <3>1
      <4>2. Reached(d)' \in 0 .. 3
        BY <1>1, <2>1 DEF Reached
      <4> QED
        BY <4>1, <4>2
    <3>2. CASE u # s
      BY <1>1, <2>1, <2>2, <3>2 DEF Owing, Due, Reached, ShownUpTo, Missing, Up
    <3> QED
      BY <3>1, <3>2
  <2> QED
    BY <2>3 DEF Owing
<1>5. CASE UNCHANGED <<task, wire, feed, owed, sock>>
  <2>1. hook'.remounts = 0 => hook.remounts = 0
    BY NotMounted DEF FeedInv
  <2> QED
    BY <1>5, <2>1 DEF Owing, Due, Reached, ShownUpTo, Missing, Up
<1> QED
  BY <1>2, <1>3, <1>4, <1>5, OwingTask, OwingMessage
     DEF Next, SecondPasses, Accept, Register, HandlerEnds, LogOut, LogIn,
         RetryLoggedOut, StreamFails, server, client, vars

\* What was addressed to a socket still open is on its way or shown, whatever
\* happens to the other sockets, unless newer documents fill the feed.
THEOREM Arrival == Spec => []AddressedArrives
<1>1. FeedInv /\ Owing => AddressedArrives
  <2> SUFFICES ASSUME FeedInv, Owing, hook.remounts = 0, NEW s \in Socks, NEW d \in Docs,
                      sock[s] = "open", owed[s][d] > 0
               PROVE  \/ s \in ToSet(task[d].to)
                      \/ \E i \in DOMAIN wire[s] :
                           wire[s][i].doc = d /\ Rank(wire[s][i].status) >= owed[s][d]
                      \/ ShownUpTo(d, owed[s][d])
                      \/ Len(feed) = MaxFeed /\ ~ShownUpTo(d, 0)
    BY DEF AddressedArrives
  <2>1. Due(s, d, owed[s][d])
    BY DEF Owing, Up
  <2>2. Missing(d) => ~ShownUpTo(d, 0)
    BY DEF Missing, ShownUpTo, FeedInv, Core, Types, RightInv
  <2> QED
    BY <2>1, <2>2 DEF Due, Missing, ToSet
<1>2. Init => Owing
  BY Ranks DEF Init, Owing, Reached, Idle
<1>3. FeedInv /\ Owing /\ [Next]_vars => FeedInv' /\ Owing'
  BY FeedInvStep, OwingStep
<1> QED
  BY FeedInvInit, <1>1, <1>2, <1>3, PTL DEF Spec
===========================================================================
