--------------------------- MODULE CtsClientProofs ---------------------------
(***************************************************************************)
(* A client process, for any threads, files, callbacks and failures: the   *)
(* counted connection, and subscriptions that change while changes are     *)
(* announced and dispatched.                                               *)
(***************************************************************************)
EXTENDS CtsClientProps, FiniteSetTheorems, SequenceTheorems, TLAPS

-----------------------------------------------------------------------------
(* The inductive invariant. *)

Watch == [wd : Nat \ {0}, mask : Masks]

Types ==
  /\ refcnt \in Nat /\ opened \subseteq {"socket", "db", "view", "inotify", "vconf"}
  /\ permitted \in BOOLEAN
  /\ held \in [Threads -> Nat] /\ left \in [Threads -> Nat]
  /\ op \in Call
  /\ list \in Seq(Entry) /\ watch \in [Paths -> Watch \cup {NoWatch}] /\ lastwd \in Nat
  /\ queue \in Seq(Nat \ {0}) /\ walk \in [wd : Nat, at : Nat]
  /\ order \in Orders /\ setting \in Orders

\* What each call of the main thread may use up.
Spent ==
  /\ lastwd + left[Main] <= Calls[Main]
  /\ Len(list) + left[Main] + (IF op.what = "subscribe" THEN 1 ELSE 0) <= Calls[Main]

\* The reference count, and what it stands for.
Counted ==
  /\ IsFiniteSet(Connections) /\ refcnt = Cardinality(Connections)
  /\ refcnt > 0 => /\ {"socket", "db"} \subseteq opened
                   /\ permitted \/ "view" \in opened
  /\ refcnt = 0 => /\ opened \subseteq {"db"} /\ ~permitted
                   /\ list = <<>> /\ queue = <<>> /\ watch = [p \in Paths |-> NoWatch]

\* The main thread stays connected while it subscribes.
MainConnected == op.what # "idle" \/ list # <<>> => held[Main] > 0

\* The call in progress knows its path's descriptor.
InCall ==
  op.what # "idle" => /\ watch[op.path] # NoWatch
                      /\ op.what = "subscribe" => op.of # {}

Numbered ==
  /\ \A p \in Paths : watch[p] # NoWatch => watch[p].wd <= lastwd
  /\ \A p, q \in Paths :
       watch[p] # NoWatch /\ watch[q] # NoWatch /\ watch[p].wd = watch[q].wd => p = q

\* Every entry's path is watched for changes, or is being called for.
Watched(e) ==
  \E p \in Paths : /\ watch[p] # NoWatch /\ watch[p].wd = e.wd
                   /\ watch[p].mask = "close_write" \/ (op.what # "idle" /\ op.path = p)
Subscribed ==
  /\ \A i, j \in DOMAIN list : list[i] = list[j] => i = j
  /\ \A i \in DOMAIN list : Watched(list[i])

\* The walk has called what it has passed, and stands on an entry that stays.
Walking ==
  /\ walk.at <= Len(list) /\ (walk.wd = 0 => walk.at = 0)
  /\ walk.wd > 0 => \A i \in 1..walk.at : list[i].wd = walk.wd => list[i] \in called
  /\ op.what = "unsubscribe" /\ walk.at > 0 =>
       ~Chosen(list[walk.at], watch[op.path].wd, op.of)

CInv ==
  /\ Types /\ Spent /\ Counted /\ MainConnected /\ InCall /\ Numbered /\ Subscribed /\ Walking

-----------------------------------------------------------------------------
(* The counting of connections. *)

LEMMA Connects ==
  ASSUME NEW t \in Threads, held \in [Threads -> Nat], IsFiniteSet(Connections),
         held' = [held EXCEPT ![t] = @ + 1]
  PROVE  /\ IsFiniteSet(Connections')
         /\ Cardinality(Connections') = Cardinality(Connections) + 1
<1> DEFINE c == <<t, held[t] + 1>>
<1>1. held'[t] = held[t] + 1 /\ \A u \in Threads \ {t} : held'[u] = held[u]
  OBVIOUS
<1>2. c \notin Connections
  BY DEF Connections
<1>3. 1..held'[t] = (1..held[t]) \cup {held[t] + 1}
  BY <1>1
<1>4. Connections' = Connections \cup {c}
  BY <1>1, <1>3 DEF Connections
<1> HIDE DEF c
<1> QED
  BY <1>2, <1>4, FS_AddElement

LEMMA Disconnects ==
  ASSUME NEW t \in Threads, held \in [Threads -> Nat], IsFiniteSet(Connections),
         held[t] > 0, held' = [held EXCEPT ![t] = @ - 1]
  PROVE  /\ IsFiniteSet(Connections')
         /\ Cardinality(Connections') = Cardinality(Connections) - 1
<1> DEFINE c == <<t, held[t]>>
<1>1. held'[t] = held[t] - 1 /\ \A u \in Threads \ {t} : held'[u] = held[u]
  OBVIOUS
<1>2. c \in Connections
  BY DEF Connections
<1>3. 1..held'[t] = (1..held[t]) \ {held[t]}
  BY <1>1
<1>4. Connections' = Connections \ {c}
  BY <1>1, <1>3 DEF Connections
<1> HIDE DEF c
<1> QED
  BY <1>2, <1>4, FS_RemoveElement

\* A thread that has a connection is counted, and so are two of them.
LEMMA HeldIsCounted ==
  ASSUME held \in [Threads -> Nat], IsFiniteSet(Connections)
  PROVE  /\ \A t \in Threads : held[t] > 0 => Cardinality(Connections) > 0
         /\ \A t, u \in Threads : t # u /\ held[t] > 0 /\ held[u] > 0 => Cardinality(Connections) # 1
<1>1. ASSUME NEW t \in Threads, held[t] > 0
      PROVE  <<t, 1>> \in Connections
  BY <1>1 DEF Connections
<1>2. Cardinality(Connections) \in Nat
  BY FS_CardinalityType
<1>3. ASSUME NEW t \in Threads, held[t] > 0
      PROVE  Cardinality(Connections) > 0
  <2>1. Connections # {}
    BY <1>1, <1>3
  <2>2. Cardinality(Connections) # 0
    BY <2>1, FS_EmptySet
  <2> QED
    BY <1>2, <2>2
<1>4. ASSUME NEW t \in Threads, NEW u \in Threads, t # u, held[t] > 0, held[u] > 0,
             Cardinality(Connections) = 1
      PROVE  FALSE
  <2>1. PICK x : Connections = {x}
    BY <1>4, FS_Singleton
  <2>2. <<t, 1>> = <<u, 1>>
    BY <1>1, <1>4, <2>1
  <2> QED
    BY <1>4, <2>2
<1> QED
  BY <1>3, <1>4

-----------------------------------------------------------------------------
(* Positions in order. *)

LEMMA FirstNumbers ==
  ASSUME NEW n \in Nat
  PROVE  IsFiniteSet(1..n) /\ Cardinality(1..n) = n
<1>1. 1 \in Int /\ n \in Int
  OBVIOUS
<1>2. IsFiniteSet(1..n) /\ Cardinality(1..n) = IF 1 > n THEN 0 ELSE n - 1 + 1
  BY <1>1, FS_Interval
<1> QED
  BY <1>2

LEMMA InOrderLists ==
  ASSUME NEW K \in SUBSET Nat, IsFiniteSet(K), NEW f \in InOrder(K)
  PROVE  /\ Cardinality(K) \in Nat /\ f \in [1..Cardinality(K) -> K]
         /\ \A i, j \in 1..Cardinality(K) : i < j => f[i] < f[j]
         /\ \A i, j \in 1..Cardinality(K) : f[i] = f[j] => i = j
         /\ \A x \in K : \E k \in 1..Cardinality(K) : f[k] = x
<1> DEFINE n == Cardinality(K)
<1>1. n \in Nat
  BY FS_CardinalityType
<1>2. f \in [1..n -> K] /\ \A i, j \in 1..n : i < j => f[i] < f[j]
  BY DEF InOrder
<1> HIDE DEF n
<1>3. ASSUME NEW i \in 1..n, NEW j \in 1..n, f[i] = f[j]
      PROVE  i = j
  <2>1. f[i] \in Nat /\ f[j] \in Nat
    BY <1>2
  <2>2. ~(i < j) /\ ~(j < i)
    BY <1>2, <1>3, <2>1
  <2> QED
    BY <2>2
<1>4. f \in Injection(1..n, K)
  BY <1>2, <1>3 DEF Injection, IsInjective
<1>5. Cardinality(1..n) = n
  BY <1>1, FirstNumbers
<1>6. f \in Surjection(1..n, K)
  BY <1>4, <1>5, FS_Injection DEF n
<1>7. \A x \in K : \E k \in 1..n : f[k] = x
  BY <1>6 DEF Surjection
<1> QED
  BY <1>1, <1>2, <1>3, <1>7 DEF n

\* The first positions stay the first.
LEMMA InOrderPrefix ==
  ASSUME NEW K \in SUBSET Nat, IsFiniteSet(K), NEW f \in InOrder(K), NEW n \in Nat,
         NEW k \in 1..Cardinality(K), k <= Cardinality({i \in K : i <= n})
  PROVE  f[k] <= n
<1> DEFINE A == {i \in K : i <= n}
           h == [a \in A |-> CHOOSE j \in 1..(k - 1) : f[j] = a]
<1> SUFFICES ASSUME ~(f[k] <= n) PROVE FALSE
  OBVIOUS
<1>1. /\ Cardinality(K) \in Nat /\ f \in [1..Cardinality(K) -> K]
      /\ \A i, j \in 1..Cardinality(K) : i < j => f[i] < f[j]
      /\ \A x \in K : \E j \in 1..Cardinality(K) : f[j] = x
  BY InOrderLists
<1>2. f[k] \in Nat /\ f[k] > n
  <2>1. f[k] \in K
    BY <1>1
  <2>2. f[k] \in Nat
    BY <2>1
  <2> QED
    BY <2>2
<1>3. ASSUME NEW a \in A
      PROVE  \E j \in 1..(k - 1) : f[j] = a
  <2>1. PICK j \in 1..Cardinality(K) : f[j] = a
    BY <1>1
  <2>2. j # k /\ ~(k < j)
    BY <1>1, <1>2, <2>1
  <2> QED
    BY <1>1, <2>1, <2>2
<1>4. \A a \in A : h[a] \in 1..(k - 1) /\ f[h[a]] = a
  BY <1>3
<1>5. h \in Injection(A, 1..(k - 1))
  <2>1. h \in [A -> 1..(k - 1)] /\ \A a, b \in A : h[a] = h[b] => a = b
    BY <1>4
  <2> HIDE DEF h, A
  <2> QED
    BY <2>1 DEF Injection, IsInjective
<1> HIDE DEF h, A
<1>6. IsFiniteSet(1..(k - 1)) /\ Cardinality(1..(k - 1)) = k - 1
  <2>1. k - 1 \in Nat
    BY <1>1
  <2> QED
    BY <2>1, FirstNumbers
<1>7. IsFiniteSet(A) /\ Cardinality(A) <= k - 1
  BY <1>5, <1>6, FS_Injection
<1>8. Cardinality(A) \in Nat /\ k <= Cardinality(A)
  BY <1>7, FS_CardinalityType DEF A
<1> QED
  BY <1>1, <1>7, <1>8

-----------------------------------------------------------------------------
(* Parts of a step. *)

Subs == InCall /\ Numbered /\ Subscribed /\ Walking

LEMMA StillKeeps ==
  ASSUME Subs, UNCHANGED <<op, list, watch, lastwd, walk, called>>
  PROVE  Subs'
  BY DEF Subs, InCall, Numbered, Subscribed, Watched, Walking

LEMMA Spends ==
  ASSUME Types, NEW t \in Threads, left[t] > 0, Spend(t)
  PROVE  /\ left' \in [Threads -> Nat] /\ left'[Main] <= left[Main]
         /\ t = Main => left'[Main] = left[Main] - 1
<1> USE ConstantsAssumption DEF ConstantsAssumption
<1>1. left \in [Threads -> Nat] /\ left' = [left EXCEPT ![t] = left[t] - 1]
  BY DEF Types, Spend
<1>2. left[t] - 1 \in Nat
  BY <1>1
<1> QED
  BY <1>1, <1>2

\* A connection that the main thread has is one that is counted.
LEMMA MainIsCounted ==
  ASSUME Types, Counted, held[Main] > 0
  PROVE  refcnt > 0
  BY HeldIsCounted, ConstantsAssumption DEF Types, Counted, ConstantsAssumption

LEMMA AddWatchKeeps ==
  ASSUME Types, Numbered, NEW p \in Paths, NEW mask \in Masks, AddWatch(p, mask)
  PROVE  /\ watch' \in [Paths -> Watch \cup {NoWatch}] /\ lastwd' \in Nat /\ Numbered'
         /\ watch'[p] # NoWatch /\ watch'[p].mask = mask
         /\ \A q \in Paths \ {p} : watch'[q] = watch[q]
         /\ watch[p] # NoWatch => lastwd' = lastwd /\ watch'[p].wd = watch[p].wd
         /\ watch[p] = NoWatch => lastwd' = lastwd + 1 /\ watch'[p].wd = lastwd + 1
<1>1. watch \in [Paths -> Watch \cup {NoWatch}] /\ lastwd \in Nat
  BY DEF Types
<1>2. NoWatch \notin Watch
  BY ConstantsAssumption DEF ConstantsAssumption, Watch
<1>3. PICK w \in Watch :
        /\ watch' = [watch EXCEPT ![p] = w] /\ w.mask = mask
        /\ watch[p] # NoWatch => lastwd' = lastwd /\ w.wd = watch[p].wd
        /\ watch[p] = NoWatch => lastwd' = lastwd + 1 /\ w.wd = lastwd + 1
  <2>1. CASE watch[p] = NoWatch
    <3> DEFINE w == [wd |-> lastwd + 1, mask |-> mask]
    <3>1. w \in Watch /\ w.mask = mask /\ w.wd = lastwd + 1
      BY <1>1 DEF Watch
    <3>2. watch' = [watch EXCEPT ![p] = w] /\ lastwd' = lastwd + 1
      BY <2>1 DEF AddWatch
    <3> HIDE DEF w
    <3> QED
      BY <2>1, <3>1, <3>2
  <2>2. CASE watch[p] # NoWatch
    <3> DEFINE w == [watch[p] EXCEPT !.mask = mask]
    <3>1. watch[p] \in Watch
      BY <1>1, <2>2
    <3>2. w \in Watch /\ w.mask = mask /\ w.wd = watch[p].wd
      BY <3>1 DEF Watch
    <3>3. watch' = [watch EXCEPT ![p] = w] /\ lastwd' = lastwd
      BY <2>2 DEF AddWatch
    <3> HIDE DEF w
    <3> QED
      BY <2>2, <3>2, <3>3
  <2> QED
    BY <2>1, <2>2
<1>4. watch'[p] = w /\ \A q \in Paths \ {p} : watch'[q] = watch[q]
  BY <1>1, <1>3
<1>5. \A q \in Paths : watch[q] # NoWatch => watch[q].wd \in Nat
  BY <1>1 DEF Watch
<1>6. w.wd \in Nat
  BY DEF Watch
<1>7. Numbered'
  <2>1. ASSUME NEW q \in Paths, watch'[q] # NoWatch
        PROVE  watch'[q].wd <= lastwd'
    BY <1>1, <1>3, <1>4, <1>5, <2>1 DEF Numbered
  <2>2. ASSUME NEW q \in Paths, NEW r \in Paths, watch'[q] # NoWatch, watch'[r] # NoWatch,
               watch'[q].wd = watch'[r].wd
        PROVE  q = r
    <3>1. CASE watch[p] = NoWatch
      <4>1. \A x \in Paths \ {p} : watch[x] # NoWatch => watch[x].wd # lastwd + 1
        BY <1>1, <1>5 DEF Numbered
      <4> QED
        BY <1>3, <1>4, <2>2, <3>1, <4>1 DEF Numbered
    <3>2. CASE watch[p] # NoWatch
      BY <1>3, <1>4, <2>2, <3>2 DEF Numbered
    <3> QED
      BY <3>1, <3>2
  <2> QED
    BY <2>1, <2>2 DEF Numbered
<1>8. watch' \in [Paths -> Watch \cup {NoWatch}] /\ lastwd' \in Nat
  BY <1>1, <1>3
<1> QED
  BY <1>2, <1>3, <1>4, <1>7, <1>8

-----------------------------------------------------------------------------
(* Connecting and disconnecting. *)

LEMMA ConnectKeeps ==
  ASSUME CInv, NEW t \in Threads, Connect(t)
  PROVE  CInv'
<1> USE ConstantsAssumption DEF ConstantsAssumption
<1>0. Types /\ Spent /\ Counted /\ MainConnected /\ Subs
  BY DEF CInv, Subs
<1>1. /\ left[t] > 0 /\ Spend(t) /\ held' = [held EXCEPT ![t] = @ + 1]
      /\ UNCHANGED <<op, list, watch, lastwd, queue, walk, called, setting>>
  BY DEF Connect, May, subscriptions, dispatch
<1>2. /\ refcnt' = refcnt + 1 /\ opened' \subseteq {"socket", "db", "view", "inotify", "vconf"}
      /\ permitted' \in BOOLEAN /\ order' \in Orders
      /\ {"socket", "db"} \subseteq opened' /\ (permitted' \/ "view" \in opened')
  <2>1. CASE refcnt > 0
    BY <1>0, <2>1 DEF Connect, Types, Counted
  <2>2. CASE ~(refcnt > 0)
    <3>1. refcnt = 0
      BY <1>0, <2>2 DEF Types
    <3>2. PICK permit \in BOOLEAN : ConnectFirst(permit)
      BY <2>2 DEF Connect
    <3>3. PICK noti \in SUBSET {"inotify", "vconf"} :
            /\ opened' = opened \cup {"socket", "db"} \cup Restriction(permit) \cup noti
            /\ permitted' = permit /\ refcnt' = 1 /\ order' \in {order, setting, DefaultOrder}
      BY <3>2 DEF ConnectFirst, Registrations, OrdersRead, Failing
    <3>4. Restriction(permit) \subseteq {"view"} /\ (permit \/ "view" \in Restriction(permit))
      BY DEF Restriction
    <3>5. opened \subseteq {"socket", "db", "view", "inotify", "vconf"} /\ order \in Orders /\ setting \in Orders
      BY <1>0 DEF Types
    <3>6. opened' \subseteq {"socket", "db", "view", "inotify", "vconf"}
      BY <3>3, <3>4, <3>5
    <3>7. {"socket", "db"} \subseteq opened' /\ (permitted' \/ "view" \in opened')
      BY <3>3, <3>4
    <3>8. refcnt' = refcnt + 1 /\ permitted' \in BOOLEAN /\ order' \in Orders
      BY <3>1, <3>3, <3>5
    <3> QED
      BY <3>6, <3>7, <3>8
  <2> QED
    BY <2>1, <2>2
<1>3. left' \in [Threads -> Nat] /\ left'[Main] <= left[Main]
  BY <1>0, <1>1, Spends
<1>4. held' \in [Threads -> Nat] /\ held'[Main] >= held[Main]
  BY <1>0, <1>1 DEF Types
<1>5. Types'
  BY <1>0, <1>1, <1>2, <1>3, <1>4 DEF Types
<1>6. Spent'
  <2>1. left[Main] \in Nat /\ left'[Main] \in Nat /\ lastwd \in Nat /\ Len(list) \in Nat /\ Calls[Main] \in Nat
    BY <1>0, <1>3 DEF Types
  <2> QED
    BY <1>0, <1>1, <1>3, <2>1 DEF Spent
<1>7. Counted'
  <2>1. IsFiniteSet(Connections') /\ Cardinality(Connections') = Cardinality(Connections) + 1
    BY <1>0, <1>1, Connects DEF Types, Counted
  <2>2. refcnt' > 0
    BY <1>0, <1>2 DEF Types
  <2> QED
    BY <1>0, <1>2, <2>1, <2>2 DEF Counted
<1>8. MainConnected'
  <2>1. held[Main] \in Nat /\ held'[Main] \in Nat
    BY <1>0, <1>4 DEF Types
  <2> QED
    BY <1>0, <1>1, <1>4, <2>1 DEF MainConnected
<1>9. Subs'
  BY <1>0, <1>1, StillKeeps
<1> QED
  BY <1>5, <1>6, <1>7, <1>8, <1>9 DEF CInv, Subs

\* Steps that leave the connections of the threads and all subscriptions.
LEMMA PlainKeeps ==
  ASSUME CInv, left' \in [Threads -> Nat], left'[Main] <= left[Main],
         UNCHANGED <<refcnt, permitted, held, op, list, watch, lastwd, queue, walk, called>>,
         opened' = opened \/ (refcnt = 0 /\ opened' = opened \cup {"db"}),
         order' \in Orders, setting' \in Orders
  PROVE  CInv'
<1> USE ConstantsAssumption DEF ConstantsAssumption
<1>0. Types /\ Spent /\ Counted /\ MainConnected /\ Subs
  BY DEF CInv, Subs
<1>1. Types'
  BY <1>0 DEF Types
<1>2. Spent'
  <2>1. left[Main] \in Nat /\ left'[Main] \in Nat /\ lastwd \in Nat /\ Len(list) \in Nat /\ Calls[Main] \in Nat
    BY <1>0 DEF Types
  <2> QED
    BY <1>0, <2>1 DEF Spent
<1>3. Counted'
  <2>1. Connections' = Connections
    BY DEF Connections
  <2>2. refcnt > 0 => opened' = opened
    BY <1>0 DEF Types
  <2>3. refcnt = 0 => opened' \subseteq {"db"}
    BY <1>0 DEF Counted
  <2> QED
    BY <1>0, <2>1, <2>2, <2>3 DEF Counted
<1>4. MainConnected'
  BY <1>0 DEF MainConnected
<1>5. Subs'
  BY <1>0, StillKeeps
<1> QED
  BY <1>1, <1>2, <1>3, <1>4, <1>5 DEF CInv, Subs

LEMMA NoConnectKeeps ==
  ASSUME CInv, NEW t \in Threads, ConnectFails(t) \/ DisconnectRefused(t)
  PROVE  CInv'
<1>1. /\ UNCHANGED <<refcnt, permitted, held, op, list, watch, lastwd, queue, walk, called, order, setting>>
      /\ left[t] > 0 /\ Spend(t)
  BY DEF ConnectFails, DisconnectRefused, May, connection, subscriptions, dispatch, names
<1>2. left' \in [Threads -> Nat] /\ left'[Main] <= left[Main]
  BY <1>1, Spends DEF CInv
<1>3. opened' = opened \/ (refcnt = 0 /\ opened' = opened \cup {"db"})
  BY DEF ConnectFails, DisconnectRefused, Undone, connection, CInv, Types
<1>4. order' \in Orders /\ setting' \in Orders
  BY <1>1 DEF CInv, Types
<1> QED
  BY <1>1, <1>2, <1>3, <1>4, PlainKeeps

LEMMA DisconnectKeeps ==
  ASSUME CInv, NEW t \in Threads, Disconnect(t)
  PROVE  CInv'
<1> USE ConstantsAssumption DEF ConstantsAssumption
<1>0. Types /\ Spent /\ Counted /\ MainConnected /\ Subs
  BY DEF CInv, Subs
<1>1. /\ left[t] > 0 /\ Spend(t) /\ held[t] > 0 /\ held' = [held EXCEPT ![t] = @ - 1]
      /\ refcnt' = refcnt - 1 /\ UNCHANGED <<op, lastwd, walk, called, order, setting>>
  BY DEF Disconnect, May, subscriptions, names
<1>2. left' \in [Threads -> Nat] /\ left'[Main] <= left[Main]
  BY <1>0, <1>1, Spends
<1>3. refcnt > 0 /\ refcnt \in Nat /\ (t # Main /\ refcnt = 1 => held[Main] = 0)
  BY <1>0, <1>1, HeldIsCounted DEF Types, Counted
<1>4. /\ held' \in [Threads -> Nat] /\ (t # Main => held'[Main] = held[Main])
      /\ (t = Main => held'[Main] = held[Main] - 1)
  BY <1>0, <1>1 DEF Types
<1>5. IsFiniteSet(Connections') /\ Cardinality(Connections') = refcnt'
  BY <1>0, <1>1, Disconnects DEF Types, Counted
<1>6. left[Main] \in Nat /\ left'[Main] \in Nat /\ lastwd \in Nat /\ Len(list) \in Nat /\ Calls[Main] \in Nat
  BY <1>0, <1>2 DEF Types
<1>7. CASE refcnt = 1
  <2>1. /\ opened' = opened \ Closed /\ permitted' = FALSE
        /\ list' = <<>> /\ watch' = [p \in Paths |-> NoWatch] /\ queue' = <<>>
    BY <1>7 DEF Disconnect
  <2>2. op.what = "idle" /\ walk.at = 0
    <3>1. CASE t = Main
      BY <1>0, <3>1 DEF Disconnect, May, Subs, Walking
    <3>2. CASE t # Main
      <4>1. op.what = "idle" /\ list = <<>>
        BY <1>0, <1>3, <1>7, <3>2 DEF MainConnected
      <4> QED
        BY <1>0, <4>1 DEF Subs, Walking, Types
    <3> QED
      BY <3>1, <3>2
  <2>3. Types'
    <3>1. list' \in Seq(Entry) /\ queue' \in Seq(Nat \ {0})
      BY <2>1, EmptySeq
    <3>2. watch' \in [Paths -> Watch \cup {NoWatch}] /\ opened' \subseteq {"socket", "db", "view", "inotify", "vconf"}
      BY <1>0, <2>1 DEF Types
    <3>3. refcnt' \in Nat
      BY <1>1, <1>7
    <3> QED
      BY <1>0, <1>1, <1>2, <1>4, <2>1, <3>1, <3>2, <3>3 DEF Types
  <2>4. Spent'
    <3>1. Len(list') = 0
      BY <2>1
    <3> QED
      BY <1>0, <1>1, <1>2, <1>6, <2>2, <3>1 DEF Spent
  <2>5. Counted'
    <3>1. opened' \subseteq {"db"}
      BY <1>0, <2>1 DEF Types, Closed
    <3>2. refcnt' = 0
      BY <1>1, <1>7
    <3> QED
      BY <1>5, <2>1, <3>1, <3>2 DEF Counted
  <2>6. MainConnected'
    BY <1>1, <2>1, <2>2 DEF MainConnected
  <2>7. Subs'
    <3>1. InCall' /\ Numbered'
      BY <1>1, <2>1, <2>2 DEF InCall, Numbered
    <3>2. DOMAIN list' = {} /\ Len(list') = 0
      BY <2>1
    <3>3. Subscribed'
      BY <3>2 DEF Subscribed
    <3>4. Walking'
      BY <1>1, <2>2, <3>2 DEF Walking
    <3> QED
      BY <3>1, <3>3, <3>4 DEF Subs
  <2> QED
    BY <2>3, <2>4, <2>5, <2>6, <2>7 DEF CInv, Subs
<1>8. CASE refcnt # 1
  <2>1. UNCHANGED <<opened, permitted, list, watch, queue>> /\ refcnt' > 0 /\ refcnt' \in Nat
    BY <1>1, <1>3, <1>8 DEF Disconnect, subscriptions
  <2>2. Types'
    BY <1>0, <1>1, <1>2, <1>4, <2>1 DEF Types
  <2>3. Spent'
    BY <1>0, <1>1, <1>2, <1>6, <2>1 DEF Spent
  <2>4. Counted'
    BY <1>0, <1>3, <1>5, <2>1 DEF Counted
  <2>5. MainConnected'
    <3>1. CASE t # Main
      BY <1>0, <1>1, <1>4, <2>1, <3>1 DEF MainConnected
    <3>2. CASE t = Main
      <4>1. op.what = "idle" /\ (list = <<>> \/ held[Main] > 1)
        BY <1>8, <3>2 DEF Disconnect, May
      <4>2. held[Main] \in Nat
        BY <1>0 DEF Types
      <4> QED
        BY <1>1, <1>4, <2>1, <3>2, <4>1, <4>2 DEF MainConnected
    <3> QED
      BY <3>1, <3>2
  <2>6. Subs'
    BY <1>0, <1>1, <2>1, StillKeeps
  <2> QED
    BY <2>2, <2>3, <2>4, <2>5, <2>6 DEF CInv, Subs
<1> QED
  BY <1>7, <1>8

-----------------------------------------------------------------------------
(* Subscribing and unsubscribing. *)

LEMMA BeginKeeps ==
  ASSUME CInv, NEW what \in {"subscribe", "unsubscribe"}, NEW p \in Paths,
         NEW of \in SUBSET (Callbacks \X Datas), what = "subscribe" => of # {},
         what = "unsubscribe" /\ walk.at > 0 /\ watch[p] # NoWatch =>
           ~Chosen(list[walk.at], watch[p].wd, of),
         BeginCall(what, p, of)
  PROVE  CInv'
<1> USE ConstantsAssumption DEF ConstantsAssumption
<1>0. /\ Types /\ Spent /\ Counted /\ MainConnected /\ Subs
      /\ InCall /\ Numbered /\ Subscribed /\ Walking
  BY DEF CInv, Subs
<1>1. /\ left[Main] > 0 /\ Spend(Main) /\ op.what = "idle" /\ held[Main] > 0
      /\ op' = [what |-> what, path |-> p, of |-> of]
      /\ AddWatch(p, "access")
      /\ UNCHANGED <<refcnt, opened, permitted, held, list, queue, walk, called, order, setting>>
  BY DEF BeginCall, MainCalls, Listening, connection, dispatch, names
<1>2. left' \in [Threads -> Nat] /\ left'[Main] = left[Main] - 1
  BY <1>0, <1>1, Spends
<1>3. /\ watch' \in [Paths -> Watch \cup {NoWatch}] /\ lastwd' \in Nat /\ Numbered'
      /\ watch'[p] # NoWatch /\ \A q \in Paths \ {p} : watch'[q] = watch[q]
      /\ watch[p] # NoWatch => lastwd' = lastwd /\ watch'[p].wd = watch[p].wd
      /\ watch[p] = NoWatch => lastwd' = lastwd + 1 /\ watch'[p].wd = lastwd + 1
  BY <1>0, <1>1, AddWatchKeeps DEF Masks
<1>4. op'.what = what /\ op'.path = p /\ op'.of = of /\ op' \in Call
  BY <1>1 DEF Call
<1>5. Types'
  BY <1>0, <1>1, <1>2, <1>3, <1>4 DEF Types
<1>6. Spent'
  <2>1. left[Main] \in Nat /\ lastwd \in Nat /\ Len(list) \in Nat /\ Calls[Main] \in Nat
    BY <1>0 DEF Types
  <2>2. lastwd' <= lastwd + 1
    BY <1>3, <2>1
  <2> QED
    BY <1>0, <1>1, <1>2, <1>3, <2>1, <2>2 DEF Spent
<1>7. Counted'
  <2>1. refcnt > 0
    BY <1>0, <1>1, MainIsCounted
  <2>2. Connections' = Connections
    BY <1>1 DEF Connections
  <2>3. refcnt # 0
    BY <2>1
  <2> QED
    BY <1>0, <1>1, <2>1, <2>2, <2>3 DEF Counted
<1>8. MainConnected'
  BY <1>1 DEF MainConnected
<1>9. InCall'
  BY <1>3, <1>4 DEF InCall
<1>10. Subscribed'
  <2>1. ASSUME NEW i \in DOMAIN list
        PROVE  Watched(list[i])'
    <3>1. PICK q \in Paths : /\ watch[q] # NoWatch /\ watch[q].wd = list[i].wd
                             /\ watch[q].mask = "close_write"
      BY <1>0, <1>1 DEF Subscribed, Watched
    <3>2. CASE q = p
      BY <1>1, <1>3, <1>4, <3>1, <3>2 DEF Watched
    <3>3. CASE q # p
      BY <1>1, <1>3, <3>1, <3>3 DEF Watched
    <3> QED
      BY <3>2, <3>3
  <2> QED
    BY <1>0, <1>1, <2>1 DEF Subscribed
<1>11. Walking'
  <2>1. ASSUME what = "unsubscribe", walk.at > 0
        PROVE  ~Chosen(list[walk.at], watch'[p].wd, of)
    <3>1. CASE watch[p] # NoWatch
      BY <1>3, <2>1, <3>1
    <3>2. CASE watch[p] = NoWatch
      <4>1. walk.at \in DOMAIN list
        BY <1>0, <2>1 DEF Types, Walking
      <4>2. list[walk.at].wd <= lastwd
        BY <1>0, <4>1 DEF Subscribed, Watched, Numbered
      <4>3. lastwd \in Nat /\ list[walk.at].wd \in Nat
        <5>1. list \in Seq(Entry) /\ lastwd \in Nat /\ Calls[Main] \in Nat
          BY <1>0 DEF Types
        <5>2. list[walk.at] \in Entry
          BY <4>1, <5>1, ElementOfSeq, LenProperties
        <5> QED
          BY <5>1, <5>2 DEF Entry
      <4> QED
        BY <1>3, <3>2, <4>2, <4>3 DEF Chosen
    <3> QED
      BY <3>1, <3>2
  <2> QED
    BY <1>0, <1>1, <1>4, <2>1 DEF Walking
<1> QED
  BY <1>3, <1>5, <1>6, <1>7, <1>8, <1>9, <1>10, <1>11 DEF CInv

\* What is known when the main thread is inside a call.
LEMMA CallKnown ==
  ASSUME CInv, op.what # "idle"
  PROVE  /\ op.path \in Paths /\ op.of \in SUBSET (Callbacks \X Datas)
         /\ watch[op.path] # NoWatch /\ watch[op.path].wd \in 1..lastwd
         /\ refcnt > 0 /\ held[Main] > 0
<1>1. op.path \in Paths /\ op.of \in SUBSET (Callbacks \X Datas)
  BY DEF CInv, Types, Call
<1>2. watch[op.path] # NoWatch
  BY DEF CInv, InCall
<1>3. watch[op.path].wd \in Nat \ {0} /\ lastwd \in Nat
  BY <1>1, <1>2 DEF CInv, Types, Watch
<1>4. watch[op.path].wd <= lastwd
  BY <1>1, <1>2 DEF CInv, Numbered
<1>5. held[Main] > 0
  BY DEF CInv, MainConnected
<1>6. refcnt > 0
  BY <1>5, MainIsCounted DEF CInv
<1> QED
  BY <1>1, <1>2, <1>3, <1>4, <1>5, <1>6

LEMMA EndSubscribeKeeps ==
  ASSUME CInv, EndSubscribe
  PROVE  CInv'
<1> USE ConstantsAssumption DEF ConstantsAssumption
<1> DEFINE new == CHOOSE pair \in op.of : TRUE
           entry == [wd |-> watch[op.path].wd, cb |-> new[1], data |-> new[2]]
<1>0. /\ Types /\ Spent /\ Counted /\ MainConnected
      /\ InCall /\ Numbered /\ Subscribed /\ Walking
  BY DEF CInv
<1>1. /\ op.what = "subscribe" /\ op' = [what |-> "idle"] /\ AddWatch(op.path, "close_write")
      /\ list' = IF entry \in Range(list) THEN list ELSE Append(list, entry)
      /\ UNCHANGED <<refcnt, opened, permitted, held, left, queue, walk, called, order, setting>>
  BY DEF EndSubscribe, Rewatch, connection, dispatch, names
<1>2. PICK p \in Paths :
        /\ p = op.path /\ op.of \in SUBSET (Callbacks \X Datas)
        /\ watch[p] # NoWatch /\ watch[p].wd \in 1..lastwd /\ refcnt > 0 /\ held[Main] > 0
  BY <1>1, CallKnown
<1>3. /\ watch' \in [Paths -> Watch \cup {NoWatch}] /\ lastwd' = lastwd /\ Numbered'
      /\ watch'[p] # NoWatch /\ watch'[p].mask = "close_write" /\ watch'[p].wd = watch[p].wd
      /\ \A q \in Paths \ {p} : watch'[q] = watch[q]
  BY <1>0, <1>1, <1>2, AddWatchKeeps DEF Masks
<1>4. op'.what = "idle" /\ op' \in Call
  BY <1>1 DEF Call
<1>5. lastwd \in Nat /\ Len(list) \in Nat /\ left[Main] \in Nat /\ Calls[Main] \in Nat
  BY <1>0 DEF Types
<1>6. entry \in Entry /\ entry.wd = watch[p].wd
  <2>1. op.of # {}
    BY <1>0, <1>1 DEF InCall
  <2>2. new \in Callbacks \X Datas
    BY <1>2, <2>1
  <2>3. watch[p].wd \in 1..Calls[Main]
    <3>1. lastwd + left[Main] <= Calls[Main]
      BY <1>0 DEF Spent
    <3>2. watch[p].wd \in 1..lastwd
      BY <1>2
    <3> HIDE DEF new, entry
    <3> QED
      BY <1>5, <3>1, <3>2
  <2>4. new[1] \in Callbacks /\ new[2] \in Datas
    BY <2>2
  <2> HIDE DEF new
  <2> QED
    BY <1>2, <2>3, <2>4 DEF Entry
<1> HIDE DEF entry, new
<1>7. /\ list' \in Seq(Entry) /\ Len(list') <= Len(list) + 1 /\ Len(list') >= Len(list)
      /\ Len(list') \in Nat
      /\ \A i \in DOMAIN list : list'[i] = list[i]
      /\ \A i \in DOMAIN list' : i \in DOMAIN list \/ (list'[i] = entry /\ i = Len(list) + 1 /\ entry \notin Range(list))
  <2>1. list \in Seq(Entry) /\ DOMAIN list = 1..Len(list)
    BY <1>0, LenProperties DEF Types
  <2>2. CASE entry \in Range(list)
    BY <1>1, <1>5, <2>1, <2>2
  <2>3. CASE entry \notin Range(list)
    <3>1. list' = Append(list, entry)
      BY <1>1, <2>3
    <3>2. /\ list' \in Seq(Entry) /\ Len(list') = Len(list) + 1
          /\ \A i \in 1..Len(list) : list'[i] = list[i]
          /\ list'[Len(list) + 1] = entry /\ DOMAIN list' = 1..(Len(list) + 1)
      BY <1>6, <2>1, <3>1, AppendProperties, LenProperties
    <3> QED
      BY <1>5, <2>1, <2>3, <3>2
  <2> QED
    BY <2>2, <2>3
<1>8. Types'
  BY <1>0, <1>1, <1>3, <1>4, <1>5, <1>7 DEF Types
<1>9. Spent'
  BY <1>0, <1>1, <1>3, <1>4, <1>5, <1>7 DEF Spent
<1>10. Counted'
  <2>1. Connections' = Connections
    BY <1>1 DEF Connections
  <2>2. refcnt # 0
    BY <1>2
  <2> QED
    BY <1>0, <1>1, <1>2, <2>1, <2>2 DEF Counted
<1>11. MainConnected' /\ InCall'
  BY <1>1, <1>2, <1>4 DEF MainConnected, InCall
<1>12. Subscribed'
  <2>1. ASSUME NEW i \in DOMAIN list
        PROVE  Watched(list[i])'
    <3>1. PICK q \in Paths : /\ watch[q] # NoWatch /\ watch[q].wd = list[i].wd
                             /\ watch[q].mask = "close_write" \/ op.path = q
      BY <1>0 DEF Subscribed, Watched
    <3>2. list'[i] = list[i]
      BY <1>7
    <3>3. CASE q = p
      BY <1>3, <3>1, <3>2, <3>3 DEF Watched
    <3>4. CASE q # p
      BY <1>2, <1>3, <3>1, <3>2, <3>4 DEF Watched
    <3> QED
      BY <3>3, <3>4
  <2>2. ASSUME NEW i \in DOMAIN list', i \notin DOMAIN list
        PROVE  Watched(list[i])'
    <3>1. list'[i].wd = watch'[p].wd
      BY <1>3, <1>6, <1>7, <2>2
    <3> QED
      BY <1>3, <3>1 DEF Watched
  <2>3. ASSUME NEW i \in DOMAIN list', NEW j \in DOMAIN list', list'[i] = list'[j]
        PROVE  i = j
    <3>1. \A k \in DOMAIN list : list[k] \in Range(list)
      BY DEF Range
    <3> QED
      BY <1>0, <1>7, <2>3, <3>1 DEF Subscribed
  <2> QED
    BY <2>1, <2>2, <2>3 DEF Subscribed
<1>13. Walking'
  <2>1. walk.at \in Nat /\ walk.at <= Len(list) /\ DOMAIN list = 1..Len(list)
    BY <1>0, LenProperties DEF Walking, Types
  <2>2. \A i \in 1..walk.at : list'[i] = list[i]
    BY <1>5, <1>7, <2>1
  <2>3. walk'.at <= Len(list')
    BY <1>1, <1>5, <1>7, <2>1
  <2> QED
    BY <1>0, <1>1, <1>4, <2>2, <2>3 DEF Walking
<1> QED
  BY <1>3, <1>8, <1>9, <1>10, <1>11, <1>12, <1>13 DEF CInv

\* The entry on which the walk stands stays, so the walk keeps what is before it.
LEMMA EndUnsubscribeKeeps ==
  ASSUME CInv, EndUnsubscribe
  PROVE  CInv'
<1> USE ConstantsAssumption DEF ConstantsAssumption
<1> DEFINE wd == watch[op.path].wd
           gone == {i \in DOMAIN list : Chosen(list[i], wd, op.of)}
           rest == DOMAIN list \ gone
           passed == {i \in gone : i < walk.at}
           before == Cardinality(passed)
           n == Cardinality(rest)
<1>0. /\ Types /\ Spent /\ Counted /\ MainConnected
      /\ InCall /\ Numbered /\ Subscribed /\ Walking
  BY DEF CInv
<1>1. /\ op.what = "unsubscribe" /\ op' = [what |-> "idle"]
      /\ walk' = [walk EXCEPT !.at = @ - before]
      /\ IF LastOfPath(gone, rest)
         THEN watch' = [watch EXCEPT ![op.path] = NoWatch] /\ UNCHANGED lastwd
         ELSE AddWatch(op.path, "close_write")
      /\ UNCHANGED <<refcnt, opened, permitted, held, left, queue, called, order, setting>>
  BY DEF EndUnsubscribe, connection, names
<1>2. PICK f \in InOrder(rest) : list' = [k \in DOMAIN f |-> list[f[k]]]
  BY DEF EndUnsubscribe
<1>3. PICK p \in Paths :
        /\ p = op.path /\ watch[p] # NoWatch /\ refcnt > 0 /\ held[Main] > 0
  BY <1>1, CallKnown
<1>4. op'.what = "idle" /\ op' \in Call
  BY <1>1 DEF Call
<1>5. list \in Seq(Entry) /\ DOMAIN list = 1..Len(list) /\ Len(list) \in Nat /\ walk \in [wd : Nat, at : Nat]
  BY <1>0, LenProperties DEF Types
<1>6. gone \subseteq 1..Len(list) /\ rest \subseteq 1..Len(list)
      /\ IsFiniteSet(gone) /\ IsFiniteSet(rest) /\ rest \in SUBSET Nat /\ n <= Len(list)
  <2>1. gone \subseteq 1..Len(list) /\ rest \subseteq 1..Len(list)
    BY <1>5
  <2>2. IsFiniteSet(1..Len(list)) /\ Cardinality(1..Len(list)) = Len(list)
    BY <1>5, FirstNumbers
  <2> HIDE DEF gone, rest
  <2>3. IsFiniteSet(gone) /\ IsFiniteSet(rest) /\ Cardinality(rest) <= Len(list)
    BY <2>1, <2>2, FS_Subset
  <2> QED
    BY <2>1, <2>3
<1> HIDE DEF gone, rest, passed, before, n
<1>7. /\ n \in Nat /\ f \in [1..n -> rest]
      /\ \A i, j \in 1..n : f[i] = f[j] => i = j
      /\ \A x \in rest : \E k \in 1..n : f[k] = x
  BY <1>6, InOrderLists DEF n
<1>8. list' \in Seq(Entry) /\ Len(list') = n /\ DOMAIN list' = 1..n
      /\ \A k \in 1..n : f[k] \in rest /\ f[k] \in DOMAIN list /\ list'[k] = list[f[k]]
  <2>1. list' = [k \in 1..n |-> list[f[k]]]
    BY <1>2, <1>7
  <2>2. \A k \in 1..n : f[k] \in rest /\ f[k] \in 1..Len(list)
    BY <1>6, <1>7
  <2>3. \A k \in 1..n : list[f[k]] \in Entry
    BY <1>5, <2>2, ElementOfSeq
  <2>4. list' \in Seq(Entry)
    BY <1>7, <2>1, <2>3, IsASeq
  <2>5. DOMAIN list' = 1..n
    BY <2>1
  <2>6. Len(list') = n
    BY <1>7, <2>4, <2>5, LenProperties
  <2> QED
    BY <1>5, <2>1, <2>2, <2>4, <2>5, <2>6
\* The walk.
<1>9. \/ walk.at = 0 /\ before = 0
      \/ walk.at \in 1..Len(list) /\ walk.at \in rest
  <2>1. CASE walk.at = 0
    <3>1. \A i \in gone : ~(i < walk.at)
      BY <1>6, <2>1
    <3>2. passed = {}
      BY <3>1 DEF passed
    <3> QED
      BY <2>1, <3>2, FS_EmptySet DEF before
  <2>2. CASE walk.at # 0
    <3>1. walk.at \in 1..Len(list) /\ walk.at > 0
      BY <1>0, <1>5, <2>2 DEF Walking
    <3>2. ~Chosen(list[walk.at], wd, op.of)
      BY <1>0, <1>1, <3>1 DEF Walking
    <3> QED
      BY <1>5, <3>1, <3>2 DEF gone, rest
  <2> QED
    BY <2>1, <2>2
<1>10. /\ walk.at - before \in Nat
       /\ Cardinality({i \in rest : i <= walk.at}) = walk.at - before
       /\ IsFiniteSet({i \in rest : i <= walk.at})
  <2> DEFINE at == walk.at
             kept == {i \in rest : i <= at}
  <2>1. at \in Nat /\ at <= Len(list)
    BY <1>0, <1>5 DEF Walking
  <2>2. IsFiniteSet(1..at) /\ Cardinality(1..at) = at
    BY <2>1, FirstNumbers
  <2>3. passed \subseteq 1..at /\ kept = (1..at) \ passed
    <3>1. \A i \in 1..at : i \in DOMAIN list
      BY <1>5, <2>1
    <3>2. \A i \in gone : i \in 1..Len(list) /\ i # at
      BY <1>6, <1>9, <1>5 DEF rest
    <3>3. passed \subseteq 1..at
      BY <2>1, <3>2 DEF passed
    <3>4. \A i : i \in kept => i \in (1..at) \ passed
      BY <1>6, <2>1 DEF rest, passed
    <3>5. \A i : i \in (1..at) \ passed => i \in kept
      BY <2>1, <3>1, <3>2 DEF rest, passed
    <3> QED
      BY <3>3, <3>4, <3>5
  <2>4. (1..at) \cap passed = passed
    BY <2>3
  <2> HIDE DEF at, kept
  <2>5. IsFiniteSet(kept) /\ Cardinality(kept) = at - before
    <3>1. /\ IsFiniteSet((1..at) \ passed)
          /\ Cardinality((1..at) \ passed) = Cardinality(1..at) - Cardinality((1..at) \cap passed)
      BY <2>2, FS_Difference
    <3> QED
      BY <2>2, <2>3, <2>4, <3>1 DEF before
  <2>6. Cardinality(kept) \in Nat
    BY <2>5, FS_CardinalityType
  <2> QED
    BY <2>5, <2>6 DEF at, kept
<1>11. walk'.at = walk.at - before /\ walk'.wd = walk.wd /\ walk' \in [wd : Nat, at : Nat]
  BY <1>1, <1>5, <1>10
<1>12. walk'.at <= n
  <2>1. {i \in rest : i <= walk.at} \in SUBSET rest
    OBVIOUS
  <2> QED
    BY <1>6, <1>10, <1>11, <2>1, FS_Subset DEF n
<1>13. ASSUME NEW k \in 1..walk'.at
       PROVE  k \in 1..n /\ f[k] \in 1..walk.at
  <2>1. k \in 1..n /\ k <= Cardinality({i \in rest : i <= walk.at})
    BY <1>7, <1>10, <1>11, <1>12
  <2>2. f[k] <= walk.at
    <3>1. walk.at \in Nat
      BY <1>5
    <3> QED
      BY <1>6, <2>1, <3>1, InOrderPrefix DEF n
  <2>3. f[k] \in 1..Len(list)
    BY <1>6, <1>7, <2>1
  <2> QED
    BY <1>5, <2>1, <2>2, <2>3
<1>14. Walking'
  <2>1. walk'.wd = 0 => walk'.at = 0
    <3>1. walk'.wd = 0 => walk.at = 0
      BY <1>0, <1>11 DEF Walking
    <3>2. walk.at = 0 => before = 0
      BY <1>9
    <3> QED
      BY <1>11, <3>1, <3>2
  <2>2. ASSUME walk'.wd > 0, NEW k \in 1..walk'.at, list'[k].wd = walk'.wd
        PROVE  list'[k] \in called'
    <3>1. list'[k] = list[f[k]] /\ f[k] \in 1..walk.at
      BY <1>8, <1>13
    <3> QED
      BY <1>0, <1>1, <1>11, <2>2, <3>1 DEF Walking
  <2>3. walk'.at <= Len(list')
    BY <1>8, <1>12
  <2> QED
    BY <1>4, <2>1, <2>2, <2>3 DEF Walking
\* The watches.
<1>15. /\ watch' \in [Paths -> Watch \cup {NoWatch}] /\ lastwd' = lastwd /\ Numbered'
       /\ \A q \in Paths \ {p} : watch'[q] = watch[q]
       /\ LastOfPath(gone, rest) \/ (/\ watch'[p] # NoWatch /\ watch'[p].mask = "close_write"
                                    /\ watch'[p].wd = watch[p].wd)
  <2>1. CASE LastOfPath(gone, rest)
    <3>1. watch' = [watch EXCEPT ![p] = NoWatch] /\ lastwd' = lastwd
      BY <1>1, <1>3, <2>1
    <3>2. watch \in [Paths -> Watch \cup {NoWatch}]
      BY <1>0 DEF Types
    <3>3. watch' \in [Paths -> Watch \cup {NoWatch}] /\ watch'[p] = NoWatch
          /\ \A q \in Paths \ {p} : watch'[q] = watch[q]
      BY <3>1, <3>2
    <3>4. Numbered'
      BY <1>0, <3>1, <3>3 DEF Numbered
    <3> QED
      BY <2>1, <3>1, <3>3, <3>4
  <2>2. CASE ~LastOfPath(gone, rest)
    <3>1. AddWatch(p, "close_write")
      BY <1>1, <1>3, <2>2
    <3> QED
      BY <1>0, <1>3, <3>1, AddWatchKeeps DEF Masks
  <2> QED
    BY <2>1, <2>2
<1>16. Types'
  <2>1. lastwd' \in Nat
    BY <1>0, <1>15 DEF Types
  <2> QED
    BY <1>0, <1>1, <1>4, <1>8, <1>11, <1>15, <2>1 DEF Types
<1>17. Spent'
  <2>1. left[Main] \in Nat /\ Calls[Main] \in Nat
    BY <1>0 DEF Types
  <2> QED
    BY <1>0, <1>1, <1>4, <1>5, <1>6, <1>7, <1>8, <1>15, <2>1 DEF Spent
<1>18. Counted'
  <2>1. Connections' = Connections
    BY <1>1 DEF Connections
  <2>2. refcnt # 0
    BY <1>3
  <2> QED
    BY <1>0, <1>1, <1>3, <2>1, <2>2 DEF Counted
<1>19. MainConnected' /\ InCall'
  BY <1>1, <1>3, <1>4 DEF MainConnected, InCall
<1>20. Subscribed'
  <2>1. ASSUME NEW k \in 1..n
        PROVE  Watched(list[k])'
    <3>1. f[k] \in rest /\ f[k] \in DOMAIN list /\ list'[k] = list[f[k]]
      BY <1>8
    <3>2. PICK q \in Paths : /\ watch[q] # NoWatch /\ watch[q].wd = list[f[k]].wd
                             /\ watch[q].mask = "close_write" \/ op.path = q
      BY <1>0, <3>1 DEF Subscribed, Watched
    <3>3. CASE q # p
      BY <1>3, <1>15, <3>1, <3>2, <3>3 DEF Watched
    <3>4. CASE q = p
      <4>1. ~LastOfPath(gone, rest)
        BY <1>3, <3>1, <3>2, <3>4 DEF LastOfPath
      <4> QED
        BY <1>15, <3>1, <3>2, <3>4, <4>1 DEF Watched
    <3> QED
      BY <3>3, <3>4
  <2>2. ASSUME NEW i \in 1..n, NEW j \in 1..n, list'[i] = list'[j]
        PROVE  i = j
    <3>1. f[i] = f[j]
      BY <1>0, <1>8, <2>2 DEF Subscribed
    <3> QED
      BY <1>7, <3>1
  <2> QED
    BY <1>8, <2>1, <2>2 DEF Subscribed
<1> QED
  BY <1>14, <1>15, <1>16, <1>17, <1>18, <1>19, <1>20 DEF CInv

-----------------------------------------------------------------------------
(* Changes, their events, and the name order. *)

\* Subs and the counts when only the queue and the walk move.
LEMMA DispatchKeeps ==
  ASSUME CInv, UNCHANGED <<refcnt, opened, permitted, held, left, op, list, watch, lastwd, order, setting>>,
         queue' \in Seq(Nat \ {0}), walk' \in [wd : Nat, at : Nat],
         refcnt = 0 => queue' = <<>>, Walking'
  PROVE  CInv'
<1>1. Types' /\ Spent' /\ MainConnected'
  BY DEF CInv, Types, Spent, MainConnected
<1>2. Connections' = Connections
  BY DEF Connections
<1>3. Counted'
  BY <1>2 DEF CInv, Counted
<1>4. InCall' /\ Numbered' /\ Subscribed'
  BY DEF CInv, InCall, Numbered, Subscribed, Watched
<1> QED
  BY <1>1, <1>3, <1>4 DEF CInv

LEMMA ChangeKeeps ==
  ASSUME CInv, Change
  PROVE  CInv'
<1>0. Types /\ Counted /\ Walking /\ queue \in Seq(Nat \ {0}) /\ walk \in [wd : Nat, at : Nat]
  BY DEF CInv, Types
<1>1. UNCHANGED <<refcnt, opened, permitted, held, left, op, list, watch, lastwd, order, setting, walk, called>>
  BY DEF Change, connection, subscriptions, names
<1>2. \E p \in Paths : queue' # queue => (watch[p] # NoWatch /\ queue' = Append(queue, watch[p].wd))
  <2>1. PICK p \in Paths :
          IF watch[p] # NoWatch /\ watch[p].mask = "close_write"
          THEN queue' = IF queue # <<>> /\ queue[Len(queue)] = watch[p].wd THEN queue
                        ELSE Append(queue, watch[p].wd)
          ELSE queue' = queue
    BY DEF Change
  <2>2. queue' # queue => (watch[p] # NoWatch /\ queue' = Append(queue, watch[p].wd))
    BY <2>1
  <2> QED
    BY <2>2
<1>3. PICK p \in Paths : queue' # queue => (watch[p] # NoWatch /\ queue' = Append(queue, watch[p].wd))
  BY <1>2
<1>4. watch[p] # NoWatch => watch[p].wd \in Nat \ {0} /\ refcnt # 0
  BY <1>0 DEF Types, Counted, Watch
<1>5. queue' \in Seq(Nat \ {0})
  <2>1. CASE queue' = queue
    BY <1>0, <2>1
  <2>2. CASE queue' # queue
    <3>1. watch[p].wd \in Nat \ {0} /\ queue' = Append(queue, watch[p].wd)
      BY <1>3, <1>4, <2>2
    <3> QED
      BY <1>0, <3>1, AppendProperties
  <2> QED
    BY <2>1, <2>2
<1>6. refcnt = 0 => queue' = <<>>
  BY <1>0, <1>3, <1>4 DEF Counted
<1>7. Walking'
  BY <1>0, <1>1 DEF Walking
<1> QED
  BY <1>0, <1>1, <1>5, <1>6, <1>7, DispatchKeeps

LEMMA ReadEventKeeps ==
  ASSUME CInv, ReadEvent
  PROVE  CInv'
<1>0. Types /\ Counted /\ queue \in Seq(Nat \ {0}) /\ queue # <<>> /\ Len(list) \in Nat
  BY DEF CInv, Types, ReadEvent
<1>1. /\ UNCHANGED <<refcnt, opened, permitted, held, left, op, list, watch, lastwd, order, setting>>
      /\ op.what = "idle" /\ queue' = Tail(queue) /\ walk' = [wd |-> Head(queue), at |-> 0]
  BY DEF ReadEvent, connection, subscriptions, names
<1>2. Head(queue) \in Nat \ {0} /\ Tail(queue) \in Seq(Nat \ {0})
  BY <1>0, HeadTailProperties
<1>3. walk' \in [wd : Nat, at : Nat] /\ walk'.at = 0 /\ walk'.wd # 0
  BY <1>1, <1>2
<1>4. refcnt # 0
  BY <1>0 DEF Counted
<1>5. Walking'
  BY <1>0, <1>1, <1>3 DEF Walking
<1> QED
  BY <1>1, <1>2, <1>3, <1>4, <1>5, DispatchKeeps

LEMMA NextEntryKeeps ==
  ASSUME CInv, NextEntry
  PROVE  CInv'
<1>0. /\ Types /\ Counted /\ Walking /\ queue \in Seq(Nat \ {0}) /\ Len(list) \in Nat
      /\ walk \in [wd : Nat, at : Nat]
  BY DEF CInv, Types
<1>1. /\ UNCHANGED <<refcnt, opened, permitted, held, left, op, list, watch, lastwd, order, setting, queue>>
      /\ walk.wd > 0 /\ op.what = "idle"
  BY DEF NextEntry, connection, subscriptions, names
<1>2. CASE walk.at = Len(list)
  <2>1. walk' = [wd |-> 0, at |-> 0]
    BY <1>2 DEF NextEntry, EndOfList
  <2>2. walk' \in [wd : Nat, at : Nat] /\ walk'.at = 0 /\ walk'.wd = 0
    BY <2>1
  <2>3. Walking'
    BY <1>0, <1>1, <2>2 DEF Walking
  <2> QED
    BY <1>0, <1>1, <2>2, <2>3, DispatchKeeps DEF Counted
<1>3. CASE walk.at # Len(list)
  <2> DEFINE entry == list[walk.at + 1]
  <2>1. /\ walk' = [walk EXCEPT !.at = @ + 1]
        /\ called' = IF entry.wd = walk.wd THEN called \cup {entry} ELSE called
    BY <1>3 DEF NextEntry, EndOfList
  <2>2. /\ walk' \in [wd : Nat, at : Nat] /\ walk'.at = walk.at + 1 /\ walk'.wd = walk.wd
        /\ walk.at < Len(list)
    BY <1>0, <1>3, <2>1 DEF Walking
  <2>3. ASSUME NEW i \in 1..walk'.at, list'[i].wd = walk'.wd
        PROVE  list'[i] \in called'
    <3>1. CASE i = walk.at + 1
      BY <1>1, <2>1, <2>2, <2>3, <3>1
    <3>2. CASE i # walk.at + 1
      <4>1. i \in 1..walk.at
        BY <1>0, <2>2, <3>2
      <4> QED
        BY <1>0, <1>1, <2>1, <2>2, <2>3, <4>1 DEF Walking
    <3> QED
      BY <3>1, <3>2
  <2>4. walk'.at <= Len(list') /\ walk'.wd # 0
    BY <1>0, <1>1, <2>2
  <2>5. Walking'
    BY <1>1, <2>3, <2>4 DEF Walking
  <2> QED
    BY <1>0, <1>1, <2>2, <2>5, DispatchKeeps DEF Counted
<1> QED
  BY <1>2, <1>3

LEMMA OrderKeeps ==
  ASSUME CInv, SetOrder \/ OtherSetsOrder \/ OrderChanged \/ UNCHANGED vars
  PROVE  CInv'
<1> USE ConstantsAssumption DEF ConstantsAssumption
<1>0. Types /\ left \in [Threads -> Nat] /\ order \in Orders /\ setting \in Orders
  BY DEF CInv, Types
<1>1. UNCHANGED <<refcnt, permitted, held, op, list, watch, lastwd, queue, walk, called, opened>>
  BY DEF SetOrder, OtherSetsOrder, OrderChanged, vars, connection, subscriptions, dispatch
<1>2. order' \in Orders /\ setting' \in Orders
  BY <1>0 DEF SetOrder, OtherSetsOrder, OrderChanged, vars, names
<1>3. left' \in [Threads -> Nat] /\ left'[Main] <= left[Main]
  <2>1. CASE SetOrder
    BY <1>0, <2>1, Spends DEF SetOrder, May
  <2>2. CASE UNCHANGED left
    BY <1>0, <2>2
  <2> QED
    BY <2>1, <2>2 DEF OtherSetsOrder, OrderChanged, vars
<1> QED
  BY <1>1, <1>2, <1>3, PlainKeeps

-----------------------------------------------------------------------------
(* The theorems. *)

LEMMA InitHolds == Init => CInv
<1> USE ConstantsAssumption DEF ConstantsAssumption
<1> SUFFICES ASSUME Init PROVE CInv
  OBVIOUS
<1>1. <<>> \in Seq(Entry) /\ <<>> \in Seq(Nat \ {0}) /\ Len(<<>>) = 0 /\ DOMAIN <<>> = {}
  BY EmptySeq
<1>2. op = [what |-> "idle"] /\ op \in Call
  BY DEF Init, Call
<1>3. Types
  BY <1>1, <1>2 DEF Init, Types
<1>4. Spent
  BY <1>1, <1>2 DEF Init, Spent
<1>5. Counted
  <2>1. Connections = {}
    BY DEF Init, Connections
  <2> QED
    BY <2>1, FS_EmptySet DEF Init, Counted
<1>6. MainConnected /\ InCall /\ Numbered
  BY <1>2 DEF Init, MainConnected, InCall, Numbered
<1>7. Subscribed /\ Walking
  BY <1>1, <1>2 DEF Init, Subscribed, Walking
<1> QED
  BY <1>3, <1>4, <1>5, <1>6, <1>7 DEF CInv

LEMMA StepKeeps ==
  ASSUME CInv, [Next]_vars
  PROVE  CInv'
<1>1. CASE Subscribe
  <2>1. PICK p \in Paths, cb \in Callbacks, d \in Datas : BeginCall("subscribe", p, {<<cb, d>>})
    BY <1>1 DEF Subscribe
  <2>2. {<<cb, d>>} \in SUBSET (Callbacks \X Datas) /\ {<<cb, d>>} # {}
    OBVIOUS
  <2> QED
    BY <2>1, <2>2, BeginKeeps
<1>2. CASE Unsubscribe
  <2>1. PICK p \in Paths, of \in SUBSET (Callbacks \X Datas) :
          /\ walk.at > 0 /\ watch[p] # NoWatch => ~Chosen(list[walk.at], watch[p].wd, of)
          /\ BeginCall("unsubscribe", p, of)
    BY <1>2 DEF Unsubscribe
  <2> QED
    BY <2>1, BeginKeeps
<1>3. CASE MainLoop
  BY <1>3, ReadEventKeeps, NextEntryKeeps, EndSubscribeKeeps, EndUnsubscribeKeeps, OrderKeeps
  DEF MainLoop
<1> QED
  BY <1>1, <1>2, <1>3, ConnectKeeps, NoConnectKeeps, DisconnectKeeps, ChangeKeeps, OrderKeeps
  DEF Next

LEMMA Inductive == Spec => []CInv
<1>1. Init => CInv
  BY InitHolds
<1>2. CInv /\ [Next]_vars => CInv'
  BY StepKeeps
<1> QED
  BY <1>1, <1>2, PTL DEF Spec

\* For any number of threads, files and callbacks the statics of cts-service.c and
\* cts-inotify.c keep their types, and the walk of handle_callback stays in the
\* list whatever its callbacks remove.
THEOREM ClientIsTyped == Spec => []TypeOK
<1>1. CInv => TypeOK
  <2> SUFFICES ASSUME CInv PROVE TypeOK
    OBVIOUS
  <2>1. list \in Seq(Entry) /\ DOMAIN list = 1..Len(list) /\ Len(list) \in Nat
    BY LenProperties DEF CInv, Types
  <2>2. \A i \in DOMAIN list : list[i] \in Entry
    BY <2>1, ElementOfSeq
  <2>3. \A p \in Paths : watch[p] = NoWatch \/ watch[p].mask \in Masks
    BY DEF CInv, Types, Watch
  <2>4. walk.at \in 0..Len(list)
    BY <2>1 DEF CInv, Types, Walking
  <2>5. Len(list) <= Calls[Main]
    BY <2>1, ConstantsAssumption DEF CInv, Types, Spent, ConstantsAssumption
  <2> QED
    BY <2>2, <2>3, <2>4, <2>5 DEF CInv, Types, TypeOK
<1> QED
  BY <1>1, Inductive, PTL

\* However the threads of a process connect, fail to connect and disconnect,
\* cts_conn_refcnt is the number of their connections.  While there is one, the
\* socket, the database and the view of a restricted process are open; without
\* one nothing is, but the database of a connect that failed at its view
\* (contacts_svc_connect, contacts_svc_disconnect).
THEOREM ConnectionIsWhole == Spec => []ConnectionWhole
<1>1. CInv => ConnectionWhole
  BY DEF CInv, Counted, ConnectionWhole
<1> QED
  BY <1>1, Inductive, PTL

\* No order of subscribing and unsubscribing, inside or outside a callback,
\* leaves an entry of cts_noti_list whose file is not watched for changes.
THEOREM SubscriptionsAreWatched == Spec => []SubscribedIsWatched
<1>1. CInv => SubscribedIsWatched
  <2> SUFFICES ASSUME CInv PROVE SubscribedIsWatched
    OBVIOUS
  <2>1. IsInjective(list)
    BY DEF CInv, Subscribed, IsInjective
  <2>2. ASSUME op.what = "idle", NEW i \in DOMAIN list
        PROVE  \E p \in Paths : watch[p] = [wd |-> list[i].wd, mask |-> "close_write"]
    <3>1. PICK p \in Paths : /\ watch[p] # NoWatch /\ watch[p].wd = list[i].wd
                             /\ watch[p].mask = "close_write"
      BY <2>2 DEF CInv, Subscribed, Watched
    <3>2. watch[p] \in Watch
      BY <3>1 DEF CInv, Types
    <3>3. watch[p] = [wd |-> watch[p].wd, mask |-> watch[p].mask]
      BY <3>2 DEF Watch
    <3> QED
      BY <3>1, <3>3
  <2> QED
    BY <2>1, <2>2 DEF SubscribedIsWatched
<1> QED
  BY <1>1, Inductive, PTL

\* A change that another process announces is queued for the subscribers of its
\* file, unless this process is inside a call of cts-inotify.c for that file.
THEOREM ChangesAreQueued == Spec => MissedOnlyInCalls
<1> DEFINE Miss == \A p \in missed' \ missed : op.what # "idle" /\ op.path = p
<1>1. ASSUME CInv, [Next]_vars
      PROVE  [Miss]_vars
  <2>1. ~Change => missed' = missed
    BY <1>1 DEF Next, vars, MainLoop, Connect, ConnectFails, Disconnect, DisconnectRefused,
       Subscribe, Unsubscribe, BeginCall, SetOrder, ReadEvent, NextEntry, EndSubscribe,
       EndUnsubscribe, OrderChanged, OtherSetsOrder
  <2>2. ASSUME Change, NEW p \in missed' \ missed
        PROVE  op.what # "idle" /\ op.path = p
    <3>1. p \in Paths /\ Subscribers(p) # {}
          /\ ~(watch[p] # NoWatch /\ watch[p].mask = "close_write")
      BY <2>2 DEF Change
    <3>2. PICK i \in DOMAIN list : watch[p] # NoWatch /\ list[i].wd = watch[p].wd
      BY <3>1 DEF Subscribers
    <3>3. PICK q \in Paths : /\ watch[q] # NoWatch /\ watch[q].wd = list[i].wd
                             /\ watch[q].mask = "close_write" \/ (op.what # "idle" /\ op.path = q)
      BY <1>1 DEF CInv, Subscribed, Watched
    <3>4. q = p
      BY <1>1, <3>1, <3>2, <3>3 DEF CInv, Numbered
    <3> QED
      BY <3>1, <3>2, <3>3, <3>4
  <2> QED
    BY <2>1, <2>2
<1>2. CInv /\ [Next]_vars => [Miss]_vars
  BY <1>1
<1> QED
  BY <1>2, Inductive, PTL DEF Spec, MissedOnlyInCalls

\* When handle_callback has walked the list, every callback registered for the
\* file was called, also when callbacks unsubscribed others meanwhile.
THEOREM SubscribersAreCalled == Spec => AllSubscribersCalled
<1> DEFINE All == walk.wd > 0 /\ walk'.wd = 0 =>
                    \A i \in DOMAIN list : list[i].wd = walk.wd => list[i] \in called
<1>1. ASSUME CInv, [Next]_vars
      PROVE  [All]_vars
  <2>1. ASSUME walk.wd > 0, walk'.wd = 0
        PROVE  walk.at = Len(list)
    <3>1. walk \in [wd : Nat, at : Nat]
      BY <1>1 DEF CInv, Types
    <3>2. ~ReadEvent /\ walk' # walk
      BY <2>1, <3>1 DEF ReadEvent
    <3>3. \A b : [walk EXCEPT !.at = b].wd = walk.wd
      BY <3>1
    <3>4. ASSUME EndUnsubscribe
          PROVE  FALSE
      <4>1. \E b : walk' = [walk EXCEPT !.at = b]
        BY <3>4 DEF EndUnsubscribe
      <4> QED
        BY <2>1, <3>3, <4>1
    <3>5. NextEntry
      BY <1>1, <3>2, <3>4 DEF Next, vars, MainLoop, Connect, ConnectFails, Disconnect,
         DisconnectRefused, Subscribe, Unsubscribe, BeginCall, SetOrder, EndSubscribe,
         OrderChanged, OtherSetsOrder, Change, dispatch
    <3>6. ASSUME ~EndOfList
          PROVE  FALSE
      <4>1. \E b : walk' = [walk EXCEPT !.at = b]
        BY <3>5, <3>6 DEF NextEntry
      <4> QED
        BY <2>1, <3>3, <4>1
    <3> QED
      BY <3>6 DEF EndOfList
  <2>2. DOMAIN list = 1..Len(list)
    BY <1>1, LenProperties DEF CInv, Types
  <2> QED
    BY <1>1, <2>1, <2>2 DEF CInv, Walking
<1>2. CInv /\ [Next]_vars => [All]_vars
  BY <1>1
<1> QED
  BY <1>2, Inductive, PTL DEF Spec, AllSubscribersCalled
=============================================================================
