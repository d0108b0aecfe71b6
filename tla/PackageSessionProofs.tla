------------------------ MODULE PackageSessionProofs ------------------------
(***************************************************************************)
(* Theorems about a package, the storage it borrows from and a session on  *)
(* it, for any files, any number of buffers and arena epochs, and caches   *)
(* of any capacity.                                                        *)
(***************************************************************************)
EXTENDS PackageSession, WaveCacheOpsProofs

USE CapacityAssumption, FreeAssumption, MaxGenAssumption, ImageAssumption, LoadsAssumption,
    ViewAssumption, FitsAssumption, DistinctAssumption

-----------------------------------------------------------------------------
(***************************************************************************)
(* The warm-up of a cache.                                                 *)
(***************************************************************************)

(* The highest of some block ids.                                          *)
Highest(S) == CHOOSE x \in S : \A y \in S : x >= y

(* A nonempty set of block ids has a highest one.                          *)
LEMMA HighestIsMember ==
  ASSUME NEW S \in SUBSET BlockId, S # {}
  PROVE  Highest(S) \in S
<1> DEFINE Topless(n) == \E T \in SUBSET BlockId : /\ T # {} /\ Cardinality(T) = n
                                                   /\ \A x \in T : \E y \in T : ~(x >= y)
           N == {n \in Nat : Topless(n)}
<1>1. ASSUME NEW T \in SUBSET BlockId
      PROVE  IsFiniteSet(T) /\ Cardinality(T) \in Nat /\ T \subseteq Nat
  BY FS_Subset, FS_CardinalityType
<1>2. N = {}
  <2> SUFFICES ASSUME N # {} PROVE FALSE
    OBVIOUS
  <2>1. PICK m \in N : \A n \in N : m <= n
    <3>1. N \in SUBSET Nat
      OBVIOUS
    <3> QED BY <3>1, LeastNatural
  <2>2. PICK T \in SUBSET BlockId : /\ T # {} /\ Cardinality(T) = m
                                    /\ \A x \in T : \E y \in T : ~(x >= y)
    BY <2>1
  <2>3. PICK x \in T : TRUE
    BY <2>2
  <2> DEFINE U == T \ {x}
  <2>4. U \in SUBSET BlockId /\ Cardinality(U) = m - 1 /\ T \subseteq Nat
    BY <1>1, <2>2, <2>3, FS_RemoveElement
  <2>5. U # {}
    <3>1. \E y \in T : ~(x >= y)
      BY <2>2, <2>3
    <3> QED BY <2>3, <2>4, <3>1
  <2>6. m - 1 \notin N
    BY <2>1
  <2>7. PICK z \in U : \A y \in U : z >= y
    <3>1. m - 1 \in Nat
      BY <1>1, <2>4
    <3>2. ~Topless(m - 1)
      BY <2>6, <3>1
    <3> QED BY <2>4, <2>5, <3>2
  <2>8. \E t \in T : \A y \in T : t >= y
    <3>1. CASE x >= z
      BY <2>3, <2>4, <2>7, <3>1
    <3>2. CASE ~(x >= z)
      BY <2>3, <2>4, <2>7, <3>2
    <3> QED BY <3>1, <3>2
  <2> QED BY <2>2, <2>8
<1>3. ~Topless(Cardinality(S))
  BY <1>1, <1>2
<1>4. \E x \in S : \A y \in S : x >= y
  BY <1>3
<1> QED BY <1>4 DEF Highest

(* The function that Warmed iterates exists, and Warmed is its value.      *)
LEMMA WarmedSatisfiesItsEquation ==
  ASSUME NEW c
  PROVE  \E put :
           /\ put = [S \in SUBSET BlockId |->
                       IF S = {} THEN c
                       ELSE PutFromBlock(put[S \ {Highest(S)}], Highest(S), Samples)]
           /\ \A blocks : Warmed(c, blocks) = put[blocks]
<1> DEFINE body(f, S) == IF S = {} THEN c
                         ELSE PutFromBlock(f[S \ {Highest(S)}], Highest(S), Samples)
           Sub(n) == {S \in SUBSET BlockId : Cardinality(S) <= n}
           Defined(n) == \E f : f = [S \in Sub(n) |-> body(f, S)]
           N == {n \in Nat : ~Defined(n)}
<1>1. ASSUME NEW S \in SUBSET BlockId
      PROVE  IsFiniteSet(S) /\ Cardinality(S) \in Nat
  BY FS_Subset, FS_CardinalityType
<1>2. ASSUME NEW S \in SUBSET BlockId, S # {}
      PROVE  /\ S \ {Highest(S)} \in SUBSET BlockId
             /\ Cardinality(S \ {Highest(S)}) = Cardinality(S) - 1
  BY <1>1, <1>2, HighestIsMember, FS_RemoveElement
<1>3. ASSUME NEW S \in SUBSET BlockId, Cardinality(S) = 0
      PROVE  S = {}
  BY <1>1, <1>3, FS_EmptySet
<1>4. N = {}
  <2> SUFFICES ASSUME N # {} PROVE FALSE
    OBVIOUS
  <2>1. PICK m \in N : \A n \in N : m <= n
    <3>1. N \in SUBSET Nat
      OBVIOUS
    <3> QED BY <3>1, LeastNatural
  <2>2. CASE m = 0
    <3> DEFINE f == [S \in Sub(0) |-> c]
    <3>1. \A S \in Sub(0) : body(f, S) = c
      BY <1>1, <1>3
    <3>2. f = [S \in Sub(0) |-> body(f, S)]
      BY <3>1, Zenon
    <3>3. Defined(0)
      BY <3>2
    <3> QED BY <2>1, <2>2, <3>3
  <2>3. CASE m # 0
    <3>1. Defined(m - 1)
      <4>1. m \in Nat /\ \A n \in Nat : ~Defined(n) => m <= n
        <5> HIDE DEF Defined
        <5> QED BY <2>1
      <4>2. m - 1 \in Nat /\ ~(m <= m - 1)
        BY <2>3, <4>1
      <4> HIDE DEF Defined
      <4> QED BY <4>1, <4>2
    <3>2. PICK f : f = [S \in Sub(m - 1) |-> body(f, S)]
      BY <3>1
    <3> DEFINE g == [S \in Sub(m) |-> IF S \in Sub(m - 1) THEN f[S] ELSE body(f, S)]
    <3>3. ASSUME NEW S \in Sub(m) PROVE g[S] = body(f, S)
      BY <3>2
    <3>4. ASSUME NEW S \in Sub(m), S # {} PROVE g[S \ {Highest(S)}] = f[S \ {Highest(S)}]
      <4> DEFINE R == S \ {Highest(S)}
      <4>1. m \in Nat /\ S \in SUBSET BlockId /\ Cardinality(S) <= m
        <5> HIDE DEF Defined
        <5> QED BY <2>1
      <4>2. R \in SUBSET BlockId /\ Cardinality(R) = Cardinality(S) - 1
        BY <1>2, <3>4, <4>1
      <4>3. R \in Sub(m - 1) /\ R \in Sub(m)
        <5> HIDE DEF R
        <5>1. Cardinality(S) \in Nat
          BY <1>1, <4>1
        <5> QED BY <4>1, <4>2, <5>1
      <4> QED BY <4>3
    <3>5. ASSUME NEW S \in Sub(m) PROVE g[S] = body(g, S)
      BY <3>3, <3>4
    <3>6. g = [S \in Sub(m) |-> g[S]]
      OBVIOUS
    <3>7. g = [S \in Sub(m) |-> body(g, S)]
      <4> HIDE DEF g, body, Sub
      <4> QED BY <3>5, <3>6, Zenon
    <3>8. Defined(m)
      BY <3>7
    <3> QED BY <2>1, <3>8
  <2> QED BY <2>2, <2>3
<1>5. Sub(Cardinality(BlockId)) = SUBSET BlockId
  BY <1>1, FS_Subset
<1>6. \E f : f = [S \in SUBSET BlockId |-> body(f, S)]
  <2>1. Defined(Cardinality(BlockId))
    BY <1>1, <1>4
  <2> QED BY <1>5, <2>1
<1> DEFINE put == CHOOSE f : f = [S \in SUBSET BlockId |-> body(f, S)]
<1>7. put = [S \in SUBSET BlockId |-> body(put, S)]
  BY <1>6
<1>8. \A blocks : Warmed(c, blocks) = put[blocks]
  BY DEF Warmed, Highest
<1> QED BY <1>7, <1>8

(* Every entry of a cache shows the samples at v.                          *)
Shows(c, v) == \A i \in InUse(c) : c.slot[i].view = v

(* An update that adds at most pairs showing v leaves only v shown.        *)
LEMMA PairsShow ==
  ASSUME NEW c, NEW d, NEW b, NEW v, Pairs(d) \subseteq Pairs(c) \cup {<<b, v>>}, Shows(c, v)
  PROVE  Shows(d, v)
<1> SUFFICES ASSUME NEW i \in InUse(d) PROVE d.slot[i].view = v
  BY DEF Shows
<1>1. <<d.slot[i].block, d.slot[i].view>> \in Pairs(c) \cup {<<b, v>>}
  BY DEF Pairs
<1> QED BY <1>1 DEF Pairs, Shows

(* A warm-up keeps the bookkeeping of the cache sound, and adds no entry   *)
(* that shows anything but the samples of the WAVE table.                  *)
LEMMA WarmedIsGood ==
  ASSUME NEW c, Good(c), NEW blocks \in SUBSET BlockId, Samples \in View
  PROVE  Good(Warmed(c, blocks)) /\ (Shows(c, Samples) => Shows(Warmed(c, blocks), Samples))
<1>1. PICK put :
        /\ put = [S \in SUBSET BlockId |->
                    IF S = {} THEN c
                    ELSE PutFromBlock(put[S \ {Highest(S)}], Highest(S), Samples)]
        /\ \A bs : Warmed(c, bs) = put[bs]
  BY WarmedSatisfiesItsEquation
<1> DEFINE Kept(d) == Good(d) /\ (Shows(c, Samples) => Shows(d, Samples))
           N == {n \in Nat : \E S \in SUBSET BlockId : Cardinality(S) = n /\ ~Kept(put[S])}
<1>2. N = {}
  <2> SUFFICES ASSUME N # {} PROVE FALSE
    OBVIOUS
  <2>1. PICK m \in N : \A n \in N : m <= n
    <3>1. N \in SUBSET Nat
      OBVIOUS
    <3> QED BY <3>1, LeastNatural
  <2>2. PICK S \in SUBSET BlockId : Cardinality(S) = m /\ ~Kept(put[S])
    BY <2>1
  <2> DEFINE b == Highest(S)
             R == S \ {Highest(S)}
  <2>3. S # {}
    BY <1>1, <2>2
  <2>4. b \in BlockId /\ R \in SUBSET BlockId /\ Cardinality(R) = m - 1 /\ Cardinality(R) \in Nat
    <3>1. IsFiniteSet(S) /\ b \in S
      BY <2>3, FS_Subset, HighestIsMember
    <3>2. IsFiniteSet(R) /\ Cardinality(R) = Cardinality(S) - 1
      BY <3>1, FS_RemoveElement
    <3> QED BY <2>2, <3>1, <3>2, FS_CardinalityType
  <2>5. put[S] = PutFromBlock(put[R], b, Samples)
    BY <1>1, <2>3
  <2>6. Kept(put[R])
    <3>1. m \in Nat /\ \A n \in N : m <= n
      BY <2>1
    <3>2. m - 1 \notin N
      BY <2>4, <3>1
    <3> HIDE DEF Kept
    <3> QED BY <2>4, <3>2
  <2>7. Good(put[S]) /\ Pairs(put[S]) \subseteq Pairs(put[R]) \cup {<<b, Samples>>}
    <3>1. Good(put[R])
      BY <2>6
    <3> HIDE DEF b, R
    <3> QED BY <2>4, <2>5, <3>1, PutKeepsGood, PutHeld
  <2>8. Shows(put[R], Samples) => Shows(put[S], Samples)
    BY <2>7, PairsShow
  <2> QED BY <2>2, <2>6, <2>7, <2>8
<1>3. Cardinality(blocks) \in Nat
  BY FS_Subset, FS_CardinalityType
<1>4. Kept(put[blocks])
  <2> HIDE DEF Kept
  <2> QED BY <1>2, <1>3
<1> QED BY <1>1, <1>4

-----------------------------------------------------------------------------
(***************************************************************************)
(* What the operations on a session keep.                                  *)
(***************************************************************************)

(* The package is complete: its parse happened in an epoch of its arena.   *)
PackageOK == package \in Package /\ package.buf <= loads /\ package.parsed.epoch <= package.epoch

(* Its tables are whole, and point into its buffer and its live arena.     *)
Fresh ==
  package.parsed.whole /\ package.parsed.buf = package.buf /\ package.parsed.epoch = package.epoch

SessionOK(s) == s \in Session /\ s.index <= package.epoch /\ CacheSound(s.cache)

TablesSummary == [rows |-> package.parsed.rows, labels |-> package.epoch]

(* Nothing that a session holds is left from before the last parse.        *)
Current(s) ==
  /\ s.index \in {0, package.epoch}
  /\ Shows(s.cache, package.buf)
  /\ s.derived # None => s.derived = TablesSummary

(* From s to t nothing gets lost that matters, nor anything outdated in.   *)
Keeps(s, t) == SessionOK(t) /\ (Fresh /\ Current(s) => Current(t))

(* The fields of a good package, and that its samples are those of its     *)
(* buffer while nothing is borrowed from storage that is gone.             *)
LEMMA PackageFields ==
  ASSUME PackageOK
  PROVE  /\ package.epoch \in 1 .. MaxEpoch /\ package.parsed.epoch \in 1 .. package.epoch
         /\ package.parsed.rows \in Nat /\ package.parsed.blocks \in SUBSET BlockId
         /\ package.parsed.buf \in 0 .. MaxLoads /\ Samples \in View
         /\ BlocksRead \in SUBSET (SUBSET BlockId)
         /\ Fresh => Samples = package.buf
<1>1. package.parsed \in Parsed /\ package.epoch \in 1 .. MaxEpoch
  BY DEF PackageOK, Package
<1> QED BY <1>1 DEF PackageOK, Parsed, Samples, BlocksRead, TablesAreLive, Fresh

(* An index built on demand is that of the present tables.                 *)
LEMMA EnsureIndexKeeps ==
  ASSUME PackageOK, NEW s, SessionOK(s)
  PROVE  /\ Keeps(s, EnsureIndex(s)) /\ EnsureIndex(s).index # 0
         /\ EnsureIndex(s).cache = s.cache /\ EnsureIndex(s).derived = s.derived
         /\ Fresh /\ Current(s) => EnsureIndex(s).index = package.epoch
BY PackageFields DEF SessionOK, Session, EnsureIndex, Keeps, Current, Fresh

(* A summary that is derived counts the present tables.                    *)
LEMMA DeriveKeeps ==
  ASSUME PackageOK, NEW s, SessionOK(s), s.index # 0
  PROVE  Keeps(s, Derive(s)) /\ Derive(s).index = s.index
BY PackageFields DEF SessionOK, Session, Summary, Derive, Keeps, Current, TablesSummary

(* A summary derived on demand keeps a session current.                    *)
LEMMA EnsureDerivedKeeps ==
  ASSUME PackageOK, NEW s, SessionOK(s), s.index # 0
  PROVE  Keeps(s, EnsureDerived(s)) /\ EnsureDerived(s).index = s.index
BY DeriveKeeps DEF EnsureDerived, Keeps

(* A rebuild of the index keeps the cache and the summary.                 *)
LEMMA RebuiltKeeps ==
  ASSUME PackageOK, NEW s, SessionOK(s)
  PROVE  Keeps(s, Rebuilt(s)) /\ Rebuilt(s).index # 0 /\ Rebuilt(s).cache = s.cache
         /\ Rebuilt(s).derived = s.derived
<1> DEFINE t == [s EXCEPT !.index = 0]
<1>1. SessionOK(t) /\ t.cache = s.cache /\ t.derived = s.derived /\ t.index = 0
  BY PackageFields DEF SessionOK, Session
<1>2. Fresh /\ Current(s) => Current(t)
  BY <1>1 DEF Current
<1>3. Rebuilt(s) = EnsureIndex(t)
  BY DEF Rebuilt
<1> HIDE DEF t
<1>4. Keeps(t, EnsureIndex(t)) /\ EnsureIndex(t).index # 0 /\ EnsureIndex(t).cache = s.cache
      /\ EnsureIndex(t).derived = s.derived
  BY <1>1, EnsureIndexKeeps
<1> QED BY <1>2, <1>3, <1>4 DEF Keeps

(* A warm-up of the cache only adds views of the present samples.          *)
LEMMA WarmCacheKeeps ==
  ASSUME PackageOK, NEW s, SessionOK(s), NEW blocks \in SUBSET BlockId
  PROVE  Keeps(s, WarmCache(s, blocks))
<1> DEFINE i == EnsureIndex(s)
           t == [i EXCEPT !.cache = Warmed(s.cache, blocks)]
<1>1. Keeps(s, i) /\ i.index # 0 /\ i.cache = s.cache
  BY EnsureIndexKeeps
<1>2. Good(s.cache)
  BY DEF SessionOK, Session, Good
<1>3. Good(t.cache) /\ (Shows(s.cache, Samples) => Shows(t.cache, Samples))
  <2>1. i \in Session
    BY <1>1 DEF Keeps, SessionOK
  <2>2. t.cache = Warmed(s.cache, blocks)
    BY <2>1 DEF Session
  <2> QED BY <1>2, <2>2, WarmedIsGood, PackageFields
<1>4. SessionOK(t) /\ t.index = i.index /\ t.derived = i.derived
  <2> HIDE DEF i
  <2>1. i \in Session /\ i.index <= package.epoch
    BY <1>1 DEF Keeps, SessionOK
  <2>2. Warmed(s.cache, blocks) \in Cache /\ CacheSound(Warmed(s.cache, blocks))
    BY <1>2, WarmedIsGood, PackageFields DEF Good
  <2> QED BY <2>1, <2>2 DEF SessionOK, Session
<1>5. Fresh /\ Current(s) => Current(t)
  <2> HIDE DEF i, t
  <2> QED BY <1>1, <1>3, <1>4, PackageFields DEF Keeps, Current
<1>6. Keeps(t, EnsureDerived(t))
  BY <1>1, <1>4, EnsureDerivedKeeps
<1> QED BY <1>5, <1>6 DEF WarmCache, Keeps

-----------------------------------------------------------------------------
(***************************************************************************)
(* The inductive invariant.                                                *)
(***************************************************************************)

(* What the client need not refresh is fresh: the package, and with it the *)
(* session.                                                                *)
FreshUnlessOverdue ==
  /\ package # None =>
       package.parsed.epoch <= package.epoch /\ ("package" \notin overdue => Fresh)
  /\ session = None => "session" \notin overdue
  /\ session # None /\ overdue = {} => Current(session)

(* A checkpoint that was taken of a current session counts the current     *)
(* tables until the arena is reset; a migration resets nothing, but the    *)
(* package is overdue from then to the next reset.                         *)
CheckpointsAge ==
  checkpoint # None =>
    /\ checkpoint.at <= package.epoch
    /\ checkpoint.trusted /\ checkpoint.at = package.epoch /\ "package" \notin overdue =>
         (checkpoint.summary # None => checkpoint.summary = TablesSummary)

(* What the last call showed stays true until the next one.                *)
ReplyIsCurrent ==
  /\ overdue = {} /\ reply.ok =>
       /\ reply.call \in {"wave", "export"} => reply.buf = package.buf
       /\ reply.call \in {"stats", "export"} => reply.summ = reply.rows
  /\ reply.call = "reopen" => package # None

IInv ==
  TypeOK /\ LegacyFlagIsTruthful /\ FreshUnlessOverdue /\ CheckpointsAge /\ ReplyIsCurrent

-----------------------------------------------------------------------------
(***************************************************************************)
(* Steps of the package.                                                   *)
(***************************************************************************)
LEMMA OpenedIsContents ==
  ASSUME NEW x \in Image \cup {Missing}
  PROVE  /\ Opened(x) \in Contents
         /\ DirectoryLoads(x) => x # Missing /\ Opened(x) = x /\ x \in Contents
BY DEF Opened, DirectoryLoads, NoDirectory, Contents

(* A package about to be parsed.                                           *)
Unparsed == [flags : Flags, from_file : BOOLEAN, allow : BOOLEAN, buf : 0 .. MaxLoads,
             image : Contents, epoch : 1 .. MaxEpoch, legacy : BOOLEAN,
             parsed : Parsed \cup {None}]

(* What a successful parse leaves in a package.                            *)
LEMMA FinishOpenFields ==
  ASSUME NEW p \in Unparsed
  PROVE  LET q == FinishOpen(p)
         IN  /\ q \in Package
             /\ q.flags = p.flags /\ q.from_file = p.from_file /\ q.allow = p.allow
             /\ q.buf = p.buf /\ q.image = p.image /\ q.epoch = p.epoch
             /\ q.parsed = [rows |-> p.image.rows, blocks |-> p.image.blocks,
                            marked |-> p.image.marked, whole |-> p.image.good,
                            buf |-> p.buf, epoch |-> p.epoch]
             /\ p.image.good => (q.legacy <=> p.image.major = 1)
<1> DEFINE t == [rows |-> p.image.rows, blocks |-> p.image.blocks,
                 marked |-> p.image.marked, whole |-> p.image.good,
                 buf |-> p.buf, epoch |-> p.epoch]
           g == IF p.image.good THEN p.image.major = 1 ELSE p.legacy
<1>1. p.image \in Contents /\ p.buf \in 0 .. MaxLoads /\ p.epoch \in 1 .. MaxEpoch
      /\ p.legacy \in BOOLEAN
  BY DEF Unparsed
<1>2. t \in Parsed
  BY <1>1 DEF Contents, Parsed
<1>3. g \in BOOLEAN
  BY <1>1
<1>4. FinishOpen(p) = [p EXCEPT !.parsed = t, !.legacy = g]
  BY DEF FinishOpen
<1> HIDE DEF t, g
<1>5. FinishOpen(p) \in Package /\ FinishOpen(p).parsed = t /\ FinishOpen(p).legacy = g
  BY <1>2, <1>3, <1>4 DEF Unparsed, Package
<1>6. LET q == FinishOpen(p)
      IN  /\ q.flags = p.flags /\ q.from_file = p.from_file /\ q.allow = p.allow
          /\ q.buf = p.buf /\ q.image = p.image /\ q.epoch = p.epoch
  BY <1>4 DEF Unparsed
<1> QED BY <1>5, <1>6 DEF t, g

(* A step that leaves an open package as it should be left, and says what  *)
(* the client has to refresh.                                              *)
PackageStep(due) ==
  /\ package' \in Package /\ package'.buf <= loads'
  /\ loads' \in loads .. MaxLoads
  /\ package'.parsed.epoch <= package'.epoch /\ package.epoch <= package'.epoch
  /\ due \/ (Fresh' /\ package.epoch < package'.epoch)
  /\ overdue' = IF due THEN Unusable ELSE Outdated
  /\ UNCHANGED <<file, session, checkpoint>>
  /\ reply'.call \in {"reopen", "reset", "migrate"}

(* A call on the package alone keeps the invariant if the session it       *)
(* leaves behind is counted as overdue.                                    *)
LEMMA PackageStepKeepsInv ==
  ASSUME IInv, package # None, NEW due \in BOOLEAN, PackageStep(due), LegacyFlagIsTruthful'
  PROVE  IInv'
<1>1. package' # None /\ package \in Package /\ package'.epoch \in 1 .. MaxEpoch
      /\ package.epoch \in 1 .. MaxEpoch /\ package'.parsed.epoch \in 1 .. MaxEpoch
  BY DEF PackageStep, IInv, TypeOK, Package, Parsed
<1>2. "package" \in overdue' <=> due
  BY DEF PackageStep, Unusable, Outdated
<1>3. session # None => overdue' # {} 
  BY DEF PackageStep, Unusable, Outdated
<1>4. TypeOK'
  <2>1. session' # None => session'.index <= package'.epoch
    BY <1>1 DEF PackageStep, IInv, TypeOK, Session
  <2> QED BY <1>1, <2>1 DEF PackageStep, IInv, TypeOK, Unusable, Outdated
<1>5. FreshUnlessOverdue'
  BY <1>2, <1>3 DEF PackageStep, FreshUnlessOverdue, Unusable, Outdated
<1>6. CheckpointsAge'
  <2>1. checkpoint # None => checkpoint.at \in 1 .. MaxEpoch /\ checkpoint.at <= package.epoch
    BY DEF IInv, TypeOK, Checkpoint, CheckpointsAge
  <2> QED BY <1>1, <1>2, <2>1 DEF PackageStep, CheckpointsAge
<1>7. ReplyIsCurrent'
  BY <1>1 DEF PackageStep, ReplyIsCurrent
<1> QED BY <1>4, <1>5, <1>6, <1>7 DEF IInv

(* The package in the next epoch of its arena, and with another buffer.    *)
Reset == [package EXCEPT !.epoch = @ + 1]
Refilled(b, x) == [Reset EXCEPT !.buf = b, !.image = x]

(* What a reset changes in a package before it parses again.               *)
LEMMA ResetFields ==
  ASSUME package \in Package, package.epoch < MaxEpoch
  PROVE  /\ Reset \in Package /\ Reset \in Unparsed /\ Reset.epoch = package.epoch + 1
         /\ Reset.buf = package.buf /\ Reset.image = package.image
         /\ Reset.parsed = package.parsed /\ Reset.allow = package.allow
         /\ Reset.flags = package.flags /\ Reset.from_file = package.from_file
<1>1. package.epoch + 1 \in 1 .. MaxEpoch
  BY DEF Package
<1>2. /\ Reset \in Package /\ Reset.epoch = package.epoch + 1
      /\ Reset.buf = package.buf /\ Reset.image = package.image
      /\ Reset.parsed = package.parsed /\ Reset.allow = package.allow
      /\ Reset.flags = package.flags /\ Reset.from_file = package.from_file
  BY <1>1 DEF Package, Reset
<1>3. Reset \in Unparsed
  BY <1>2 DEF Package, Unparsed
<1> QED BY <1>2, <1>3

(* What a reload of the reader changes in a package before it parses       *)
(* again.                                                                  *)
LEMMA RefilledFields ==
  ASSUME package \in Package, package.epoch < MaxEpoch,
         NEW b \in 0 .. MaxLoads, NEW x \in Contents
  PROVE  LET r == Refilled(b, x)
         IN  /\ r \in Package /\ r \in Unparsed /\ r.epoch = package.epoch + 1
             /\ r.buf = b /\ r.image = x /\ r.parsed = package.parsed
             /\ r.allow = package.allow /\ r.flags = package.flags
             /\ r.from_file = package.from_file
<1> DEFINE r == Refilled(b, x)
<1>1. /\ r \in Package /\ r.epoch = Reset.epoch /\ r.buf = b /\ r.image = x
      /\ r.parsed = Reset.parsed /\ r.allow = Reset.allow /\ r.flags = Reset.flags
      /\ r.from_file = Reset.from_file
  BY ResetFields DEF Package, Refilled
<1>2. r \in Unparsed
  <2> HIDE DEF r
  <2> QED BY <1>1 DEF Package, Unparsed
<1> QED BY <1>1, <1>2, ResetFields

(* A reset keeps the invariant, whether or not it can parse.               *)
LEMMA ResetKeepsInv ==
  ASSUME IInv, rv_package_reset
  PROVE  IInv'
<1> DEFINE good == package.image.good
<1>1. /\ package # None /\ package \in Package /\ package.epoch < MaxEpoch
      /\ package.buf \in 0 .. loads /\ loads \in 0 .. MaxLoads
      /\ package.image \in Contents /\ package.epoch \in 1 .. MaxEpoch
  BY DEF IInv, TypeOK, rv_package_reset, Package
<1>2. /\ Reset \in Unparsed /\ Reset.epoch = package.epoch + 1 /\ Reset.buf = package.buf
      /\ Reset.image = package.image
  BY <1>1, ResetFields
<1>3. package' = FinishOpen(Reset)
  BY DEF rv_package_reset, Reset
<1>4. /\ package' \in Package /\ package'.epoch = package.epoch + 1 /\ package'.buf = package.buf
      /\ package'.image = package.image /\ package'.parsed.buf = package.buf
      /\ package'.parsed.epoch = package.epoch + 1 /\ package'.parsed.whole = good
      /\ good => (package'.legacy <=> package.image.major = 1)
  <2> DEFINE t == [rows |-> Reset.image.rows, blocks |-> Reset.image.blocks,
                   marked |-> Reset.image.marked, whole |-> Reset.image.good,
                   buf |-> Reset.buf, epoch |-> Reset.epoch]
  <2>1. /\ package' \in Package /\ package'.epoch = Reset.epoch /\ package'.buf = Reset.buf
        /\ package'.image = Reset.image /\ package'.parsed = t
        /\ Reset.image.good => (package'.legacy <=> Reset.image.major = 1)
    BY <1>2, <1>3, FinishOpenFields
  <2>2. t.buf = Reset.buf /\ t.epoch = Reset.epoch /\ t.whole = Reset.image.good
    OBVIOUS
  <2> QED BY <1>2, <2>1, <2>2
<1>5. good \in BOOLEAN
  BY <1>1 DEF Contents
<1>6. PackageStep(~good)
  BY <1>1, <1>4, <1>5 DEF PackageStep, rv_package_reset, Fresh, Returns
<1>7. LegacyFlagIsTruthful'
  BY <1>4 DEF LegacyFlagIsTruthful
<1> QED BY <1>1, <1>5, <1>6, <1>7, PackageStepKeepsInv

(* A reopen of a package from a file: what it leaves, loaded or not.       *)
LEMMA ReopenEffect ==
  ASSUME IInv, rv_package_reopen, package.from_file
  PROVE  LET b == IF file = Missing THEN 0 ELSE loads + 1
         IN  /\ package \in Package /\ package # None /\ package.epoch \in 1 .. MaxEpoch
             /\ loads \in 0 .. MaxLoads
             /\ package' \in Package /\ package'.epoch = package.epoch + 1 /\ package'.buf = b
             /\ package'.image = Opened(file) /\ package'.flags = package.flags
             /\ package'.from_file = TRUE /\ package'.allow = package.allow
             /\ loads' = IF file = Missing THEN loads ELSE loads + 1
             /\ loads' \in loads .. MaxLoads
             /\ overdue' = IF Usable(file) THEN Outdated ELSE Unusable
             /\ reply' = [call |-> "reopen", ok |-> Usable(file)]
             /\ DirectoryLoads(file) =>
                  /\ b = loads + 1 /\ Opened(file) = file /\ file \in Contents
                  /\ package'.parsed = [rows |-> file.rows, blocks |-> file.blocks,
                                       marked |-> file.marked, whole |-> file.good,
                                       buf |-> b, epoch |-> package.epoch + 1]
                  /\ file.good => (package'.legacy <=> file.major = 1)
             /\ ~DirectoryLoads(file) => package'.parsed = package.parsed
             /\ UNCHANGED <<file, session, checkpoint>>
<1> DEFINE b == IF file = Missing THEN 0 ELSE loads + 1
           p == Refilled(b, Opened(file))
<1>1. /\ package # None /\ package \in Package /\ package.epoch < MaxEpoch
      /\ loads < MaxLoads /\ loads \in 0 .. MaxLoads /\ b \in 0 .. MaxLoads
      /\ package.buf <= loads /\ package.epoch \in 1 .. MaxEpoch
  BY DEF IInv, TypeOK, rv_package_reopen, Package
<1>2. /\ Opened(file) \in Contents
      /\ DirectoryLoads(file) => file # Missing /\ Opened(file) = file /\ file \in Contents
  BY OpenedIsContents DEF IInv, TypeOK
<1>3. /\ p \in Package /\ p \in Unparsed /\ p.epoch = package.epoch + 1 /\ p.buf = b
      /\ p.image = Opened(file) /\ p.parsed = package.parsed /\ p.flags = package.flags
      /\ p.from_file = package.from_file /\ p.allow = package.allow
  BY <1>1, <1>2, RefilledFields
<1>4. /\ package' = IF DirectoryLoads(file) THEN FinishOpen(p) ELSE p
      /\ loads' = IF file = Missing THEN loads ELSE loads + 1
      /\ overdue' = IF Usable(file) THEN Outdated ELSE Unusable
      /\ reply' = [call |-> "reopen", ok |-> Usable(file)]
      /\ UNCHANGED <<file, session, checkpoint>>
  BY DEF rv_package_reopen, Reloaded, Returns, Refilled, Reset
<1>5. package.from_file = TRUE
  BY <1>1 DEF Package
<1>6. loads' \in loads .. MaxLoads
  BY <1>1, <1>4
<1> HIDE DEF p
<1>7. ASSUME DirectoryLoads(file)
      PROVE  /\ b = loads + 1 /\ Opened(file) = file /\ file \in Contents
             /\ package' \in Package /\ package'.epoch = p.epoch /\ package'.buf = p.buf
             /\ package'.image = p.image /\ package'.flags = p.flags
             /\ package'.from_file = p.from_file /\ package'.allow = p.allow
             /\ package'.parsed = [rows |-> file.rows, blocks |-> file.blocks,
                                  marked |-> file.marked, whole |-> file.good,
                                  buf |-> b, epoch |-> package.epoch + 1]
             /\ file.good => (package'.legacy <=> file.major = 1)
  <2>1. package' = FinishOpen(p) /\ p.image = file
    BY <1>2, <1>3, <1>4, <1>7
  <2>2. /\ package' \in Package /\ package'.epoch = p.epoch /\ package'.buf = p.buf
        /\ package'.image = p.image /\ package'.flags = p.flags
        /\ package'.from_file = p.from_file /\ package'.allow = p.allow
        /\ package'.parsed = [rows |-> p.image.rows, blocks |-> p.image.blocks,
                             marked |-> p.image.marked, whole |-> p.image.good,
                             buf |-> p.buf, epoch |-> p.epoch]
        /\ p.image.good => (package'.legacy <=> p.image.major = 1)
    BY <1>3, <2>1, FinishOpenFields
  <2>3. b = loads + 1 /\ Opened(file) = file /\ file \in Contents
    BY <1>2, <1>7
  <2> HIDE DEF b
  <2> QED BY <1>3, <2>1, <2>2, <2>3
<1>8. ASSUME ~DirectoryLoads(file) PROVE package' = p
  BY <1>4, <1>8
<1>9. /\ package' \in Package /\ package'.epoch = p.epoch /\ package'.buf = p.buf
      /\ package'.image = p.image /\ package'.flags = p.flags
      /\ package'.from_file = p.from_file /\ package'.allow = p.allow
  BY <1>3, <1>7, <1>8
<1> QED BY <1>1, <1>3, <1>4, <1>5, <1>6, <1>7, <1>8, <1>9

(* A reopen keeps the invariant, whether or not it can read and parse the  *)
(* file.                                                                   *)
LEMMA ReopenKeepsInv ==
  ASSUME IInv, rv_package_reopen
  PROVE  IInv'
<1>1. CASE ~package.from_file
  BY <1>1 DEF IInv, TypeOK, LegacyFlagIsTruthful, FreshUnlessOverdue, CheckpointsAge,
              ReplyIsCurrent, rv_package_reopen, Returns, Fresh, Current, TablesSummary
<1>2. CASE package.from_file
  <2> DEFINE b == IF file = Missing THEN 0 ELSE loads + 1
  <2>1. /\ package # None /\ package \in Package /\ package.epoch \in 1 .. MaxEpoch
        /\ loads \in 0 .. MaxLoads
        /\ package' \in Package /\ package'.epoch = package.epoch + 1 /\ package'.buf = b
        /\ package'.image = Opened(file) /\ b <= loads'
        /\ overdue' = IF Usable(file) THEN Outdated ELSE Unusable
        /\ UNCHANGED <<file, session, checkpoint>> /\ reply'.call = "reopen"
        /\ loads' \in loads .. MaxLoads
    BY <1>2, ReopenEffect
  <2>2. package.parsed.epoch <= package.epoch /\ package.parsed.epoch \in 1 .. MaxEpoch
    BY <2>1 DEF IInv, FreshUnlessOverdue, Package, Parsed
  <2>3. CASE DirectoryLoads(file)
    <3>1. /\ Opened(file) = file /\ package'.parsed.whole = file.good /\ package'.parsed.buf = b
          /\ package'.parsed.epoch = package.epoch + 1 /\ file \in Contents
          /\ file.good => (package'.legacy <=> file.major = 1)
      BY <1>2, <2>3, ReopenEffect
    <3>2. file.good \in BOOLEAN /\ (Usable(file) <=> file.good)
      BY <2>3, <3>1 DEF Contents, Usable
    <3>3. PackageStep(~file.good)
      BY <2>1, <3>1, <3>2 DEF PackageStep, Fresh
    <3>4. LegacyFlagIsTruthful'
      BY <2>1, <3>1 DEF LegacyFlagIsTruthful
    <3> QED BY <2>1, <3>2, <3>3, <3>4, PackageStepKeepsInv
  <2>4. CASE ~DirectoryLoads(file)
    <3>1. package'.parsed = package.parsed
      BY <1>2, <2>4, ReopenEffect
    <3>2. PackageStep(TRUE)
      BY <2>1, <2>2, <2>4, <3>1 DEF PackageStep, Usable
    <3>3. LegacyFlagIsTruthful'
      BY <2>1, <2>2, <3>1 DEF LegacyFlagIsTruthful
    <3> QED BY <2>1, <3>2, <3>3, PackageStepKeepsInv
  <2> QED BY <2>3, <2>4
<1> QED BY <1>1, <1>2

(* A migration keeps the invariant.                                        *)
LEMMA MigrateKeepsInv ==
  ASSUME IInv, rv_package_migrate_legacy
  PROVE  IInv'
<1>1. /\ package # None /\ package \in Package /\ PackageOK /\ package.epoch \in 1 .. MaxEpoch
      /\ package.parsed \in Parsed /\ loads < MaxLoads /\ loads \in 0 .. MaxLoads
  BY DEF IInv, TypeOK, FreshUnlessOverdue, PackageOK, rv_package_migrate_legacy, Package
<1>2. CASE ~(package.image.major = 1 \/ package.allow)
  BY <1>2 DEF IInv, TypeOK, LegacyFlagIsTruthful, FreshUnlessOverdue, CheckpointsAge,
              ReplyIsCurrent, rv_package_migrate_legacy, Returns, Fresh, Current, TablesSummary
<1>3. CASE package.image.major = 1 \/ package.allow
  <2>1. PICK blocks \in BlocksRead : package' = Migrated(package, blocks)
    BY <1>3 DEF rv_package_migrate_legacy
  <2> DEFINE t == [package.parsed EXCEPT !.marked = TRUE]
             x == [rows |-> package.parsed.rows, blocks |-> blocks, major |-> 2,
                   marked |-> package.parsed.marked, good |-> TRUE, migrated |-> TRUE]
  <2>2. /\ t \in Parsed /\ x \in Contents /\ t.epoch = package.parsed.epoch /\ x.major = 2
    <3>1. blocks \in SUBSET BlockId /\ package.parsed.rows \in Nat
      BY <1>1, <2>1, PackageFields
    <3>2. t \in Parsed /\ t.epoch = package.parsed.epoch /\ package.parsed.marked \in BOOLEAN
      BY <1>1 DEF Parsed
    <3>3. x \in Contents /\ x.major = 2
      BY <3>1, <3>2 DEF Contents
    <3> QED BY <3>2, <3>3
  <2>3. package' = [package EXCEPT !.buf = loads + 1, !.allow = TRUE, !.parsed = t,
                                   !.legacy = FALSE, !.image = x]
    BY <1>1, <2>1 DEF Migrated, Package
  <2> HIDE DEF t, x
  <2>4. /\ package' \in Package /\ package'.buf = loads + 1 /\ package'.parsed = t
        /\ package'.legacy = FALSE /\ package'.image = x /\ package'.epoch = package.epoch
    <3>1. loads + 1 \in 0 .. MaxLoads
      BY <1>1
    <3> QED BY <1>1, <2>2, <2>3, <3>1 DEF Package
  <2>5. loads' = loads + 1 /\ overdue' = Unusable /\ reply'.call = "migrate"
        /\ UNCHANGED <<file, session, checkpoint>>
    BY <1>3 DEF rv_package_migrate_legacy, Returns
  <2>6. PackageStep(TRUE)
    BY <1>1, <2>2, <2>4, <2>5 DEF PackageStep, PackageOK
  <2>7. LegacyFlagIsTruthful'
    BY <2>2, <2>4 DEF LegacyFlagIsTruthful
  <2> QED BY <1>1, <2>6, <2>7, PackageStepKeepsInv
<1> QED BY <1>2, <1>3

(* A package is opened when there is none, so there is no session on it.   *)
LEMMA OpenKeepsInv ==
  ASSUME IInv, NEW flags \in Flags, NEW from_file \in BOOLEAN, NEW x \in Image \cup {Missing},
         Open(flags, from_file, x)
  PROVE  IInv'
<1> DEFINE a == Allocated(flags, from_file, x)
<1>1. /\ package = None /\ session = None /\ checkpoint = None
      /\ loads \in 0 .. MaxLoads /\ loads < MaxLoads
      /\ overdue' = {} /\ package' = OpenResult(flags, from_file, x)
      /\ loads' = IF x = Missing THEN loads ELSE loads + 1
      /\ reply' = [call |-> "open", ok |-> Usable(x)]
      /\ UNCHANGED <<file, session, checkpoint>>
  BY DEF IInv, TypeOK, CheckpointsAge, Open, Returns
<1>2. loads' \in 0 .. MaxLoads
  BY <1>1
<1>3. ReplyIsCurrent'
  BY <1>1 DEF ReplyIsCurrent
<1>4. CheckpointsAge'
  BY <1>1 DEF CheckpointsAge
<1>5. CASE ~Usable(x)
  <2>1. package' = None
    BY <1>1, <1>5 DEF OpenResult
  <2> QED BY <1>1, <1>2, <1>3, <1>4, <2>1
          DEF IInv, TypeOK, LegacyFlagIsTruthful, FreshUnlessOverdue
<1>6. CASE Usable(x)
  <2>1. x # Missing /\ Opened(x) = x /\ x \in Contents /\ x.good = TRUE
    BY <1>6, OpenedIsContents DEF Usable, Contents
  <2>2. /\ a \in Unparsed /\ a.epoch = 1 /\ a.buf = loads + 1 /\ a.image = x
    BY <1>1, <2>1 DEF Allocated, Unparsed
  <2>3. package' = FinishOpen(a)
    BY <1>1, <1>6 DEF OpenResult
  <2> HIDE DEF a
  <2> DEFINE t == [rows |-> a.image.rows, blocks |-> a.image.blocks, marked |-> a.image.marked,
                   whole |-> a.image.good, buf |-> a.buf, epoch |-> a.epoch]
  <2>4. /\ package' \in Package /\ package'.epoch = a.epoch /\ package'.buf = a.buf
        /\ package'.image = a.image /\ package'.parsed = t
        /\ a.image.good => (package'.legacy <=> a.image.major = 1)
    BY <2>2, <2>3, FinishOpenFields
  <2>5. t.buf = a.buf /\ t.epoch = a.epoch /\ t.whole = a.image.good
    OBVIOUS
  <2>6. /\ package'.buf <= loads' /\ package'.parsed.epoch <= package'.epoch /\ Fresh'
        /\ package'.legacy <=> package'.image.major = 1
    <3> HIDE DEF t
    <3> QED BY <1>1, <2>1, <2>2, <2>4, <2>5 DEF Fresh
  <2> QED BY <1>1, <1>2, <1>3, <1>4, <2>4, <2>6
          DEF IInv, TypeOK, LegacyFlagIsTruthful, FreshUnlessOverdue
<1> QED BY <1>5, <1>6

(* A close keeps the invariant.                                            *)
LEMMA CloseKeepsInv ==
  ASSUME IInv, rv_package_close
  PROVE  IInv'
BY DEF rv_package_close, Returns, IInv, TypeOK, LegacyFlagIsTruthful, FreshUnlessOverdue,
       CheckpointsAge, ReplyIsCurrent

(* What happens to the file is seen by nobody before a reopen.             *)
LEMMA FileChangeKeepsInv ==
  ASSUME IInv, FileChanges \/ UNCHANGED vars
  PROVE  IInv'
<1>1. file' \in Image \cup {Missing} /\ UNCHANGED <<loads, package, session, checkpoint, overdue, reply>>
  BY DEF FileChanges, vars, IInv, TypeOK
<1> QED BY <1>1 DEF IInv, TypeOK, LegacyFlagIsTruthful, FreshUnlessOverdue, CheckpointsAge,
                    ReplyIsCurrent, Fresh, Current, TablesSummary

-----------------------------------------------------------------------------
(***************************************************************************)
(* Steps of the session.                                                   *)
(***************************************************************************)

(* A step that leaves the package alone and a session that is complete,    *)
(* and current if nothing is overdue any more.                             *)
SessionStep ==
  /\ UNCHANGED <<file, loads, package>>
  /\ SessionOK(session')
  /\ overdue' \subseteq {"package", "session"}
  /\ "package" \in overdue' <=> "package" \in overdue
  /\ overdue' = {} => Current(session')

(* A call on the session keeps the invariant if it keeps the session       *)
(* current.                                                                *)
LEMMA SessionStepKeepsInv ==
  ASSUME IInv, package # None, SessionStep, ReplyIsCurrent',
         checkpoint' # None => checkpoint' \in Checkpoint, CheckpointsAge'
  PROVE  IInv'
<1>1. session' \in Session /\ session' # None
  BY DEF SessionStep, SessionOK
<1>2. TypeOK'
  BY <1>1 DEF SessionStep, SessionOK, IInv, TypeOK
<1>3. LegacyFlagIsTruthful'
  BY DEF SessionStep, IInv, LegacyFlagIsTruthful
<1>4. FreshUnlessOverdue'
  BY <1>1 DEF SessionStep, IInv, FreshUnlessOverdue, Fresh, Current, TablesSummary
<1> QED BY <1>2, <1>3, <1>4 DEF IInv

(* Checkpoints age with the package only.                                  *)
LEMMA CheckpointsKept ==
  ASSUME IInv, UNCHANGED <<package, checkpoint>>, "package" \in overdue' <=> "package" \in overdue
  PROVE  /\ checkpoint' # None => checkpoint' \in Checkpoint
         /\ CheckpointsAge'
BY DEF IInv, TypeOK, CheckpointsAge, TablesSummary

(* A call that shows nothing of the package.                               *)
LEMMA QuietStepKeepsInv ==
  ASSUME IInv, package # None, SessionStep, checkpoint' = checkpoint,
         reply'.call \notin {"wave", "export", "stats", "reopen"}
  PROVE  IInv'
<1>1. "package" \in overdue' <=> "package" \in overdue
  BY DEF SessionStep
<1>2. ReplyIsCurrent'
  BY DEF ReplyIsCurrent
<1> QED BY <1>1, <1>2, CheckpointsKept, SessionStepKeepsInv DEF SessionStep

(* What a step may rely on.                                                *)
LEMMA OpenSession ==
  ASSUME IInv
  PROVE  /\ package # None => PackageOK
         /\ session # None => package # None /\ SessionOK(session)
         /\ session # None /\ overdue = {} => Fresh /\ Current(session)
         /\ session = None => "session" \notin overdue
         /\ package # None /\ "package" \notin overdue => Fresh
         /\ overdue \subseteq {"package", "session"}
BY DEF IInv, TypeOK, FreshUnlessOverdue, PackageOK, SessionOK

(* Calls that replace the session and leave the package overdue or not.    *)
LEMMA UpdateKeepsInv ==
  ASSUME IInv, session # None, NEW name, NEW s, Update(name, s), Keeps(session, s),
         name \notin {"wave", "export", "stats", "reopen"}
  PROVE  IInv'
<1>1. SessionStep
  BY OpenSession DEF Update, SessionStep, Keeps
<1> QED BY <1>1, OpenSession, QuietStepKeepsInv DEF Update, Returns

(* A warm-up keeps the invariant.                                          *)
LEMMA WarmKeepsInv ==
  ASSUME IInv, rv_session_warm_cache
  PROVE  IInv'
<1>1. PICK blocks \in BlocksRead : session # None /\ Update("warm", WarmCache(session, blocks))
  BY DEF rv_session_warm_cache
<1>2. Keeps(session, WarmCache(session, blocks))
  BY <1>1, OpenSession, PackageFields, WarmCacheKeeps
<1> QED BY <1>1, <1>2, UpdateKeepsInv

(* A rebuild of the index keeps the invariant.                             *)
LEMMA RebuildKeepsInv ==
  ASSUME IInv, rv_session_rebuild_index
  PROVE  IInv'
<1>1. session # None /\ Update("rebuild", Rebuilt(session))
  BY DEF rv_session_rebuild_index
<1>2. Keeps(session, Rebuilt(session))
  BY <1>1, OpenSession, RebuiltKeeps
<1> QED BY <1>1, <1>2, UpdateKeepsInv

(* A new session holds nothing, so it is current.                          *)
LEMMA CreateKeepsInv ==
  ASSUME IInv, rv_session_create
  PROVE  IInv'
<1> DEFINE new == [index |-> 0, cache |-> EmptyCache, derived |-> None]
           indexed == IF "index" \in package.flags THEN EnsureIndex(new) ELSE new
<1>1. package # None /\ session = None /\ PackageOK /\ overdue \subseteq {"package"}
      /\ overdue' = overdue /\ ("package" \notin overdue => Fresh)
      /\ UNCHANGED <<file, loads, package, checkpoint>> /\ reply'.call = "create"
  BY OpenSession DEF rv_session_create, Returns
<1>2. SessionOK(new) /\ Current(new)
  <2>1. EmptyCache \in Cache /\ CacheSound(EmptyCache) /\ InUse(EmptyCache) = {}
    BY EmptyCacheGood DEF Good, InUse, EmptyCache
  <2>2. new \in Session
    BY <2>1 DEF Session
  <2> QED BY <1>1, <2>1, <2>2, PackageFields DEF SessionOK, Current, Shows
<1> HIDE DEF new
<1>3. Keeps(new, indexed)
  BY <1>1, <1>2, EnsureIndexKeeps DEF Keeps
<1>4. PICK blocks \in BlocksRead :
        session' = IF "warm" \in package.flags THEN WarmCache(indexed, blocks) ELSE indexed
  BY DEF rv_session_create, new
<1> HIDE DEF indexed
<1>5. Keeps(indexed, WarmCache(indexed, blocks))
  BY <1>1, <1>3, <1>4, PackageFields, WarmCacheKeeps DEF Keeps
<1>6. Keeps(new, session')
  BY <1>3, <1>4, <1>5 DEF Keeps
<1>7. SessionStep
  BY <1>1, <1>2, <1>6 DEF SessionStep, Keeps
<1> QED BY <1>1, <1>7, QuietStepKeepsInv

(* Destroying the session keeps the invariant.                             *)
LEMMA DestroyKeepsInv ==
  ASSUME IInv, rv_session_destroy
  PROVE  IInv'
<1>1. session' = None /\ overdue' = overdue \ {"session"} /\ reply'.call = "destroy"
      /\ UNCHANGED <<file, loads, package, checkpoint>>
  BY DEF rv_session_destroy, Returns
<1>2. CheckpointsAge'
  BY <1>1, CheckpointsKept
<1>3. ReplyIsCurrent'
  BY <1>1 DEF ReplyIsCurrent
<1> QED BY <1>1, <1>2, <1>3
        DEF IInv, TypeOK, LegacyFlagIsTruthful, FreshUnlessOverdue, Fresh

(* A rebind that keeps the cache refreshes nothing but the index; one that *)
(* does not leaves nothing outdated.                                       *)
LEMMA RebindKeepsInv ==
  ASSUME IInv, NEW retain_cache \in BOOLEAN, rv_session_rebind(retain_cache)
  PROVE  IInv'
<1>1. session # None /\ session' = Rebound(session, retain_cache) /\ reply'.call = "rebind"
      /\ overdue' = (IF retain_cache THEN overdue ELSE overdue \ {"session"})
      /\ UNCHANGED <<file, loads, package, checkpoint>>
  BY DEF rv_session_rebind, Returns
<1>2. package # None /\ PackageOK /\ SessionOK(session) /\ overdue \subseteq {"package", "session"}
      /\ (overdue = {} => Fresh /\ Current(session)) /\ ("package" \notin overdue => Fresh)
  BY <1>1, OpenSession
<1>3. CASE retain_cache
  <2>1. Keeps(session, session')
    BY <1>1, <1>2, <1>3, RebuiltKeeps DEF Rebound
  <2>2. SessionStep
    BY <1>1, <1>2, <1>3, <2>1 DEF SessionStep, Keeps
  <2> QED BY <1>1, <1>2, <2>2, QuietStepKeepsInv
<1>4. CASE ~retain_cache
  <2> DEFINE s == [session EXCEPT !.cache = Invalidate(@), !.derived = None]
             t == [s EXCEPT !.index = 0]
  <2>1. Good(Invalidate(session.cache)) /\ InUse(Invalidate(session.cache)) = {}
    BY <1>2, InvalidateKeepsGood DEF SessionOK, Session, Good
  <2>2. /\ s \in Session /\ s.index = session.index /\ s.cache = Invalidate(session.cache)
        /\ s.derived = None
    BY <1>2, <2>1 DEF SessionOK, Session, Good
  <2>3. SessionOK(s) /\ InUse(s.cache) = {}
    BY <1>2, <2>1, <2>2 DEF SessionOK, Good
  <2>4. session' = EnsureIndex(t)
    BY <1>1, <1>4 DEF Rebound, Rebuilt
  <2> HIDE DEF s
  <2>5. t \in Session /\ t.index = 0 /\ t.cache = s.cache /\ t.derived = s.derived
    BY <2>2 DEF Session
  <2> HIDE DEF t
  <2>6. SessionOK(t) /\ Current(t)
    BY <1>2, <2>2, <2>3, <2>5, PackageFields DEF SessionOK, Current, Shows
  <2>7. Keeps(t, session')
    BY <1>2, <2>4, <2>6, EnsureIndexKeeps
  <2>8. SessionStep
    BY <1>1, <1>2, <1>4, <2>6, <2>7 DEF SessionStep, Keeps
  <2> QED BY <1>1, <1>2, <2>8, QuietStepKeepsInv
<1> QED BY <1>3, <1>4

(* A call that shows something of the package leaves what is overdue; if   *)
(* nothing is, what it shows must be current.                              *)
LEMMA ShowingStepKeepsInv ==
  ASSUME IInv, session # None, Keeps(session, session'),
         UNCHANGED <<file, loads, package, checkpoint, overdue>>,
         ReplyIsCurrent'
  PROVE  IInv'
<1>1. SessionStep
  BY OpenSession DEF SessionStep, Keeps
<1>2. checkpoint' # None => checkpoint' \in Checkpoint
  BY CheckpointsKept
<1>3. CheckpointsAge'
  BY CheckpointsKept
<1> QED BY <1>1, <1>2, <1>3, OpenSession, SessionStepKeepsInv

(* The counts shown agree with the tables when the summary is current.     *)
LEMMA ShownIsCurrent ==
  ASSUME NEW s, Current(s)
  PROVE  Shown(s) = package.parsed.rows
BY DEF Current, TablesSummary, Shown

(* A reply with statistics keeps the invariant: they are those of the      *)
(* present tables.                                                         *)
LEMMA StatsKeepsInv ==
  ASSUME IInv, rv_session_stats
  PROVE  IInv'
<1>1. session # None /\ UNCHANGED <<file, loads, package, session, checkpoint, overdue>>
      /\ reply' = [call |-> "stats", ok |-> TRUE, rows |-> package.parsed.rows,
                   summ |-> Shown(session)]
  BY DEF rv_session_stats
<1>2. Keeps(session, session')
  BY <1>1, OpenSession DEF Keeps
<1>3. ReplyIsCurrent'
  BY <1>1, OpenSession, ShownIsCurrent DEF ReplyIsCurrent
<1> QED BY <1>1, <1>2, <1>3, ShowingStepKeepsInv

(* An export from a session that stays current keeps the invariant.        *)
LEMMA ExportStepKeepsInv ==
  ASSUME IInv, session # None, NEW s, Keeps(session, s), Export(s)
  PROVE  IInv'
<1>1. session' = s /\ UNCHANGED <<file, loads, package, checkpoint, overdue>>
      /\ reply' = [call |-> "export", ok |-> TRUE, rows |-> package.parsed.rows,
                   summ |-> Shown(s), buf |-> Samples]
  BY DEF Export
<1>2. overdue = {} => Fresh /\ Current(s) /\ Samples = package.buf
  BY OpenSession, PackageFields DEF Keeps
<1>3. ReplyIsCurrent'
  BY <1>1, <1>2, ShownIsCurrent DEF ReplyIsCurrent
<1> QED BY <1>1, <1>3, ShowingStepKeepsInv

(* An export keeps the invariant.                                          *)
LEMMA ExportKeepsInv ==
  ASSUME IInv, rv_export_buffer
  PROVE  IInv'
<1> DEFINE i == EnsureIndex(session)
<1>1. session # None /\ PackageOK /\ SessionOK(session) /\ Export(EnsureDerived(i))
  BY OpenSession DEF rv_export_buffer
<1>2. Keeps(session, i) /\ i.index # 0
  BY <1>1, EnsureIndexKeeps
<1> HIDE DEF i
<1>3. Keeps(i, EnsureDerived(i))
  BY <1>1, <1>2, EnsureDerivedKeeps DEF Keeps
<1>4. Keeps(session, EnsureDerived(i))
  BY <1>2, <1>3 DEF Keeps
<1> QED BY <1>1, <1>4, ExportStepKeepsInv

(* An export after a rebuild keeps the invariant.                          *)
LEMMA ExportAfterRebuildKeepsInv ==
  ASSUME IInv, rv_session_export_after_rebuild
  PROVE  IInv'
<1> DEFINE i == EnsureIndex(session)
           kept == IF session.derived # None THEN session ELSE Derive(i)
           r == Rebuilt(kept)
<1>1. session # None /\ PackageOK /\ SessionOK(session) /\ Export(EnsureDerived(r))
  BY OpenSession DEF rv_session_export_after_rebuild
<1>2. Keeps(session, i) /\ i.index # 0
  BY <1>1, EnsureIndexKeeps
<1> HIDE DEF i
<1>3. Keeps(i, Derive(i))
  BY <1>1, <1>2, DeriveKeeps DEF Keeps
<1>4. Keeps(session, kept)
  BY <1>1, <1>2, <1>3 DEF Keeps
<1> HIDE DEF kept
<1>5. Keeps(kept, r) /\ r.index # 0
  BY <1>1, <1>4, RebuiltKeeps DEF Keeps
<1> HIDE DEF r
<1>6. Keeps(r, EnsureDerived(r))
  BY <1>1, <1>5, EnsureDerivedKeeps DEF Keeps
<1>7. Keeps(session, EnsureDerived(r))
  BY <1>4, <1>5, <1>6 DEF Keeps
<1> QED BY <1>1, <1>7, ExportStepKeepsInv

(* A checkpoint of a current session counts the current tables.            *)
LEMMA CheckpointCreateKeepsInv ==
  ASSUME IInv, rv_checkpoint_create
  PROVE  IInv'
<1> DEFINE i == EnsureIndex(session)
<1>1. session # None /\ package # None /\ PackageOK /\ SessionOK(session)
      /\ session' = EnsureDerived(i)
      /\ checkpoint' = [summary |-> session'.derived, at |-> package.epoch,
                        trusted |-> overdue = {}]
      /\ UNCHANGED <<file, loads, package, overdue>> /\ reply'.call = "checkpoint"
  BY OpenSession DEF rv_checkpoint_create, Returns
<1>2. Keeps(session, i) /\ i.index # 0
  BY <1>1, EnsureIndexKeeps
<1> HIDE DEF i
<1>3. Keeps(i, session')
  BY <1>1, <1>2, EnsureDerivedKeeps DEF Keeps
<1>4. SessionOK(session') /\ (overdue = {} => Current(session'))
  BY <1>2, <1>3, OpenSession, <1>1 DEF Keeps
<1>5. checkpoint' \in Checkpoint
  <2>1. session'.derived \in Summary \cup {None} /\ package.epoch \in 1 .. MaxEpoch
    BY <1>1, <1>4, PackageFields DEF SessionOK, Session
  <2>2. (overdue = {}) \in BOOLEAN
    OBVIOUS
  <2> QED BY <1>1, <2>1, <2>2 DEF Checkpoint
<1>6. CheckpointsAge'
  <2>1. checkpoint'.at = package.epoch /\ checkpoint'.summary = session'.derived
        /\ (checkpoint'.trusted <=> overdue = {})
    BY <1>1
  <2>2. overdue = {} /\ session'.derived # None => session'.derived = TablesSummary
    BY <1>4 DEF Current
  <2>3. package' = package /\ package.epoch <= package.epoch
    BY <1>1, PackageFields
  <2> QED BY <2>1, <2>2, <2>3 DEF CheckpointsAge, TablesSummary
<1>7. SessionStep
  BY <1>1, <1>4, OpenSession DEF SessionStep
<1>8. ReplyIsCurrent'
  BY <1>1 DEF ReplyIsCurrent
<1> QED BY <1>1, <1>5, <1>6, <1>7, <1>8, SessionStepKeepsInv

(* Restoring a checkpoint that has aged leaves the session overdue.        *)
LEMMA CheckpointRestoreKeepsInv ==
  ASSUME IInv, rv_checkpoint_restore
  PROVE  IInv'
<1>1. session # None /\ checkpoint # None /\ SessionOK(session)
      /\ session' = [session EXCEPT !.derived = checkpoint.summary]
      /\ overdue' = (IF checkpoint.trusted /\ checkpoint.at = package.epoch
                     THEN overdue ELSE overdue \cup {"session"})
      /\ UNCHANGED <<file, loads, package, checkpoint>> /\ reply'.call = "restore"
      /\ overdue \subseteq {"package", "session"} /\ package # None
  BY OpenSession DEF rv_checkpoint_restore, Returns
<1>2. checkpoint.summary \in Summary \cup {None}
  BY <1>1 DEF IInv, TypeOK, Checkpoint
<1>3. SessionOK(session') /\ session'.derived = checkpoint.summary
      /\ session'.index = session.index /\ session'.cache = session.cache
  BY <1>1, <1>2 DEF SessionOK, Session
<1>4. ASSUME overdue' = {} PROVE Current(session')
  <2>1. overdue = {} /\ checkpoint.trusted /\ checkpoint.at = package.epoch /\ Current(session)
    BY <1>1, <1>4, OpenSession
  <2>2. checkpoint.summary # None => checkpoint.summary = TablesSummary
    BY <1>1, <2>1 DEF IInv, CheckpointsAge
  <2> QED BY <1>3, <2>1, <2>2 DEF Current
<1>5. SessionStep
  BY <1>1, <1>3, <1>4 DEF SessionStep
<1> QED BY <1>1, <1>5, QuietStepKeepsInv

(* Destroying the checkpoint keeps the invariant.                          *)
LEMMA CheckpointDestroyKeepsInv ==
  ASSUME IInv, rv_checkpoint_destroy
  PROVE  IInv'
BY DEF rv_checkpoint_destroy, Returns, IInv, TypeOK, LegacyFlagIsTruthful, FreshUnlessOverdue,
       CheckpointsAge, ReplyIsCurrent, Fresh, Current, TablesSummary

-----------------------------------------------------------------------------
(***************************************************************************)
(* A slice.                                                                *)
(***************************************************************************)

(* The cache after the load of block b, which shows v if it was not there. *)
Loaded(c, b, v) == IF Hit(c, b) THEN Get(c, b) ELSE Get(PutFromBlock(c, b, v), b)

(* A lookup leaves a resident block resident.                              *)
LEMMA GetKeepsResident ==
  ASSUME NEW c, Good(c), NEW b, Resident(c, b)
  PROVE  Resident(Get(c, b), b)
<1>1. PICK e : InPlace(c, Get(c, b), Find(c, b), e)
  BY GetEffect
<1>2. Find(c, b) \in InUse(c) /\ c.slot[Find(c, b)].block = b
  BY FoundEntry
<1>3. Find(c, b) \in InUse(Get(c, b)) /\ Get(c, b).slot[Find(c, b)].block = b
  BY <1>1, <1>2, InPlaceOthers
<1> QED BY <1>3 DEF Resident, Holding

(* After a read through the cache the block is held, and views of the      *)
(* present samples stay so.                                                *)
LEMMA LoadedIsGood ==
  ASSUME NEW c, Good(c), NEW b \in BlockId, NEW v \in View, Hit(c, b) \/ PutSucceeds(c, b)
  PROVE  LET d == Loaded(c, b, v)
         IN  Good(d) /\ Find(d, b) \in InUse(d) /\ (Shows(c, v) => Shows(d, v))
<1>1. CASE Hit(c, b)
  <2>1. Loaded(c, b, v) = Get(c, b)
    BY <1>1 DEF Loaded
  <2>2. Good(Get(c, b)) /\ Pairs(Get(c, b)) \subseteq Pairs(c)
    BY GetKeepsGood, GetHeld
  <2>3. Resident(Get(c, b), b)
    BY <1>1, GetKeepsResident DEF Hit
  <2> QED BY <2>1, <2>2, <2>3, PairsShow, FindIsUnique
<1>2. CASE ~Hit(c, b)
  <2> DEFINE e == PutFromBlock(c, b, v)
  <2>1. Loaded(c, b, v) = Get(e, b)
    BY <1>2 DEF Loaded
  <2>2. Good(e) /\ Pairs(e) \subseteq Pairs(c) \cup {<<b, v>>} /\ Resident(e, b)
    BY <1>2, PutKeepsGood, PutHeld
  <2> HIDE DEF e
  <2>3. Good(Get(e, b)) /\ Pairs(Get(e, b)) \subseteq Pairs(e)
    BY <2>2, GetKeepsGood, GetHeld
  <2>4. Resident(Get(e, b), b)
    BY <2>2, GetKeepsResident
  <2> QED BY <2>1, <2>2, <2>3, <2>4, PairsShow, FindIsUnique
<1> QED BY <1>1, <1>2

(* A read of a wave keeps the invariant.                                   *)
LEMMA WaveGetKeepsInv ==
  ASSUME IInv, NEW b \in BlockId, rv_wave_get(b)
  PROVE  IInv'
<1> DEFINE s == EnsureIndex(session)
           v == IF IndexIsLive(s) THEN Samples ELSE Unknown
           loaded == Loaded(s.cache, b, v)
<1>1. session # None /\ PackageOK /\ SessionOK(session) /\ v \in View
      /\ UNCHANGED <<file, loads, package, checkpoint, overdue>>
  BY OpenSession, PackageFields DEF rv_wave_get
<1>2. Keeps(session, s) /\ s.cache = session.cache /\ SessionOK(s)
      /\ (Fresh /\ Current(session) => s.index = package.epoch)
  BY <1>1, EnsureIndexKeeps DEF Keeps
<1>3. \/ /\ Hit(s.cache, b) \/ PutSucceeds(s.cache, b)
         /\ session' = [s EXCEPT !.cache = loaded]
         /\ reply' = [call |-> "wave", ok |-> TRUE, buf |-> loaded.slot[Find(loaded, b)].view]
      \/ session' = s /\ reply' = [call |-> "wave", ok |-> FALSE]
  BY DEF rv_wave_get, Loaded, Returns
<1>4. overdue = {} => Fresh /\ Current(s) /\ v = package.buf
  BY <1>1, <1>2, OpenSession, PackageFields DEF Keeps, IndexIsLive
<1>5. Good(s.cache)
  BY <1>2 DEF SessionOK, Session, Good
<1> HIDE DEF s, v
<1>6. CASE session' = s /\ reply' = [call |-> "wave", ok |-> FALSE]
  <2>1. ReplyIsCurrent'
    BY <1>6 DEF ReplyIsCurrent
  <2> QED BY <1>1, <1>2, <1>6, <2>1, ShowingStepKeepsInv
<1>7. CASE /\ Hit(s.cache, b) \/ PutSucceeds(s.cache, b)
           /\ session' = [s EXCEPT !.cache = loaded]
           /\ reply' = [call |-> "wave", ok |-> TRUE,
                        buf |-> loaded.slot[Find(loaded, b)].view]
  <2>1. Good(loaded) /\ Find(loaded, b) \in InUse(loaded)
        /\ (Shows(s.cache, v) => Shows(loaded, v))
    BY <1>1, <1>5, <1>7, LoadedIsGood
  <2> HIDE DEF loaded
  <2>2. SessionOK(session') /\ session'.cache = loaded /\ session'.index = s.index
        /\ session'.derived = s.derived
    BY <1>2, <1>7, <2>1 DEF SessionOK, Session, Good
  <2>3. overdue = {} => Shows(loaded, package.buf)
    BY <1>4, <2>1 DEF Current
  <2>4. overdue = {} => Current(session')
    BY <1>4, <2>2, <2>3 DEF Current
  <2>5. ReplyIsCurrent'
    BY <1>1, <1>7, <2>1, <2>3 DEF ReplyIsCurrent, Shows
  <2>6. SessionStep
    BY <1>1, <2>2, <2>4, OpenSession DEF SessionStep
  <2> QED BY <1>1, <2>5, <2>6, OpenSession, CheckpointsKept, SessionStepKeepsInv
<1> QED BY <1>3, <1>6, <1>7

-----------------------------------------------------------------------------
(***************************************************************************)
(* Theorems.                                                               *)
(***************************************************************************)
LEMMA InitEstablishesInv == Init => IInv
BY DEF Init, IInv, TypeOK, LegacyFlagIsTruthful, FreshUnlessOverdue, CheckpointsAge, ReplyIsCurrent

(* Every step keeps the invariant.                                         *)
LEMMA NextKeepsInv == IInv /\ [Next]_vars => IInv'
<1> SUFFICES ASSUME IInv, [Next]_vars PROVE IInv'
  OBVIOUS
<1>1. ASSUME NEW flags \in Flags, rv_package_open_file(flags) PROVE IInv'
  <2>1. file \in Image \cup {Missing} /\ Open(flags, TRUE, file)
    BY <1>1 DEF IInv, TypeOK, rv_package_open_file
  <2> QED BY <2>1, OpenKeepsInv
<1>2. ASSUME NEW flags \in Flags, NEW x \in Image, rv_package_open_memory(flags, x) PROVE IInv'
  BY <1>2, OpenKeepsInv DEF rv_package_open_memory
<1> QED BY <1>1, <1>2, FileChangeKeepsInv, ReopenKeepsInv, ResetKeepsInv, MigrateKeepsInv,
           CloseKeepsInv, CreateKeepsInv, DestroyKeepsInv, WarmKeepsInv, RebuildKeepsInv,
           RebindKeepsInv, StatsKeepsInv, WaveGetKeepsInv, CheckpointCreateKeepsInv,
           CheckpointRestoreKeepsInv, CheckpointDestroyKeepsInv, ExportKeepsInv,
           ExportAfterRebuildKeepsInv
        DEF Next

(* The invariant holds in every reachable state.                           *)
LEMMA AlwaysInv == Spec => []IInv
BY InitEstablishesInv, NextKeepsInv, PTL DEF Spec

(* Objects stay complete: an open package has parsed tables of an epoch    *)
(* its arena has reached, and nothing outlives the package it points into. *)
THEOREM PackagesStayComplete == Spec => []TypeOK
<1>1. IInv => TypeOK
  BY DEF IInv
<1> QED BY <1>1, AlwaysInv, PTL

(* The refresh protocol is enough: once the client has reset or reopened,  *)
(* and rebound without retaining the cache, index, cache and summary of    *)
(* the session are those of the current buffer and arena (rv_package_reset *)
(* to rv_session_rebind).                                                  *)
THEOREM ProtocolRefreshes == Spec => []SettledSessionIsCurrent
<1>1. IInv => SettledSessionIsCurrent
  <2> SUFFICES ASSUME IInv, overdue = {}, session # None PROVE SettledSessionIsCurrent
    BY DEF SettledSessionIsCurrent
  <2>1. Fresh /\ Current(session)
    BY OpenSession
  <2> QED BY <2>1 DEF SettledSessionIsCurrent, Fresh, Current, Shows, TablesSummary
<1> QED BY <1>1, AlwaysInv, PTL

(* The legacy flag follows the header that was parsed last (rv_package_    *)
(* finish_open, rv_legacy_migrate).                                        *)
THEOREM LegacyFlagStaysTruthful == Spec => []LegacyFlagIsTruthful
<1>1. IInv => LegacyFlagIsTruthful
  BY DEF IInv
<1> QED BY <1>1, AlwaysInv, PTL

(* Which calls show something of the package, and that they leave it.      *)
LEMMA CallsByName ==
  ASSUME Next
  PROVE  \/ FileChanges \/ rv_package_reopen
         \/ reply'.call \in {"wave", "export", "stats"} /\ UNCHANGED <<package, overdue>>
         \/ reply'.call \notin {"wave", "export", "stats", "reopen"}
<1> DEFINE Quiet == reply'.call \notin {"wave", "export", "stats", "reopen"}
           Shows3 == reply'.call \in {"wave", "export", "stats"} /\ UNCHANGED <<package, overdue>>
<1>1. ASSUME NEW flags, NEW from_file, NEW x, Open(flags, from_file, x) PROVE Quiet
  BY <1>1 DEF Open, Returns
<1>2. ASSUME rv_package_reset \/ rv_package_migrate_legacy \/ rv_package_close PROVE Quiet
  BY <1>2 DEF rv_package_reset, rv_package_migrate_legacy, rv_package_close, Returns
<1>3. ASSUME \/ rv_session_create \/ rv_session_destroy \/ rv_session_warm_cache
             \/ rv_session_rebuild_index
      PROVE  Quiet
  BY <1>3 DEF rv_session_create, rv_session_destroy, rv_session_warm_cache,
              rv_session_rebuild_index, Update, Returns
<1>4. ASSUME \/ \E retain_cache \in BOOLEAN : rv_session_rebind(retain_cache)
             \/ rv_checkpoint_create \/ rv_checkpoint_restore \/ rv_checkpoint_destroy
      PROVE  Quiet
  BY <1>4 DEF rv_session_rebind, rv_checkpoint_create, rv_checkpoint_restore,
              rv_checkpoint_destroy, Returns
<1>5. ASSUME rv_session_stats \/ rv_export_buffer \/ rv_session_export_after_rebuild PROVE Shows3
  BY <1>5 DEF rv_session_stats, rv_export_buffer, rv_session_export_after_rebuild, Export
<1>6. ASSUME NEW b \in BlockId, rv_wave_get(b) PROVE Shows3
  <2>1. reply'.call = "wave" /\ UNCHANGED <<package, overdue>>
    BY <1>6 DEF rv_wave_get, Returns
  <2> QED BY <2>1
<1> QED BY <1>1, <1>2, <1>3, <1>4, <1>5, <1>6
        DEF Next, rv_package_open_file, rv_package_open_memory

(* Under the protocol no reply shows samples of a released buffer or       *)
(* counts of tables that were parsed again since (rv_wave_get,             *)
(* rv_session_stats, rv_export_build).                                     *)
THEOREM RepliesStayCurrent == Spec => RepliesAreCurrent
<1> DEFINE Shown1 == overdue = {} /\ reply'.ok =>
                       /\ reply'.call \in {"wave", "export"} => reply'.buf = package.buf
                       /\ reply'.call \in {"stats", "export"} => reply'.summ = reply'.rows
<1>1. IInv /\ IInv' /\ [Next]_vars => [Shown1]_vars
  <2> SUFFICES ASSUME IInv, IInv', Next PROVE Shown1
    OBVIOUS
  <2>1. ASSUME reply'.call \in {"wave", "export", "stats"}
        PROVE  package' = package /\ overdue' = overdue
    BY <2>1, CallsByName DEF FileChanges, rv_package_reopen, Returns
  <2> QED BY <2>1 DEF IInv, ReplyIsCurrent
<1> QED BY <1>1, AlwaysInv, PTL DEF Spec, RepliesAreCurrent

(* A successful reopen leaves the package as a fresh open of the file      *)
(* would, but for the epoch and the permission that a migration gave       *)
(* (rv_package_reopen after any history).                                  *)
THEOREM ReopenMatchesFreshOpen == Spec => ReopenIsFreshOpen
<1> DEFINE fresh == FinishOpen(Allocated(package.flags, TRUE, file))
           Same == package' = [fresh EXCEPT !.epoch = package'.epoch,
                                            !.parsed.epoch = package'.epoch,
                                            !.allow = package.allow]
           FreshOpen == reply'.call = "reopen" /\ reply'.ok /\ package'.epoch > package.epoch
                          => Same
<1>1. IInv /\ [Next]_vars => [FreshOpen]_vars
  <2> SUFFICES ASSUME IInv, Next, reply'.call = "reopen", reply'.ok,
                      package'.epoch > package.epoch
               PROVE  Same
    OBVIOUS
  <2>1. FileChanges \/ rv_package_reopen
    BY CallsByName
  <2>2. ~FileChanges
    <3> SUFFICES ASSUME FileChanges PROVE FALSE
      OBVIOUS
    <3>1. package' = package /\ package # None
      BY DEF FileChanges, IInv, ReplyIsCurrent
    <3>2. package.epoch \in Nat
      BY <3>1 DEF IInv, TypeOK, Package
    <3> QED BY <3>1, <3>2
  <2>3. rv_package_reopen /\ package.from_file /\ Usable(file)
    BY <2>1, <2>2 DEF rv_package_reopen, Returns
  <2> DEFINE a == Allocated(package.flags, TRUE, file)
             t == [rows |-> file.rows, blocks |-> file.blocks, marked |-> file.marked,
                   whole |-> file.good, buf |-> loads + 1, epoch |-> package'.epoch]
             u == [rows |-> file.rows, blocks |-> file.blocks, marked |-> file.marked,
                   whole |-> file.good, buf |-> loads + 1, epoch |-> 1]
  <2>4. /\ package \in Package /\ file \in Contents /\ Opened(file) = file /\ file # Missing
        /\ file.good = TRUE
    BY <2>3, ReopenEffect, OpenedIsContents DEF Usable, IInv, TypeOK, Contents
  <2>5. loads + 1 \in 0 .. MaxLoads
    BY <2>3 DEF rv_package_reopen, IInv, TypeOK
  <2>6. /\ a \in Unparsed /\ a.flags = package.flags /\ a.from_file = TRUE /\ a.buf = loads + 1
        /\ a.image = file /\ a.epoch = 1
    <3>1. package.flags \in Flags
      BY <2>4 DEF Package
    <3> QED BY <2>4, <2>5, <3>1 DEF Allocated, Unparsed
  <2> HIDE DEF a
  <2>7. /\ FinishOpen(a) \in Package
        /\ FinishOpen(a).flags = a.flags /\ FinishOpen(a).from_file = a.from_file
        /\ FinishOpen(a).buf = a.buf /\ FinishOpen(a).image = a.image
        /\ FinishOpen(a).parsed = [rows |-> a.image.rows, blocks |-> a.image.blocks,
                                  marked |-> a.image.marked, whole |-> a.image.good,
                                  buf |-> a.buf, epoch |-> a.epoch]
        /\ a.image.good => (FinishOpen(a).legacy <=> a.image.major = 1)
    BY <2>6, FinishOpenFields
  <2>8. /\ FinishOpen(a).flags = package.flags /\ FinishOpen(a).from_file = TRUE
        /\ FinishOpen(a).buf = loads + 1 /\ FinishOpen(a).image = file
        /\ FinishOpen(a).parsed = u /\ (FinishOpen(a).legacy <=> file.major = 1)
    BY <2>4, <2>6, <2>7
  <2>9. /\ package' \in Package /\ package'.flags = package.flags /\ package'.from_file = TRUE
        /\ package'.allow = package.allow /\ package'.image = file /\ package'.buf = loads + 1
        /\ package'.parsed = t /\ (package'.legacy <=> file.major = 1)
    <3>1. package.from_file /\ DirectoryLoads(file)
      BY <2>3 DEF Usable
    <3>2. /\ package' \in Package /\ package'.flags = package.flags /\ package'.from_file = TRUE
          /\ package'.allow = package.allow /\ package'.image = Opened(file)
          /\ package'.epoch = package.epoch + 1
          /\ package'.buf = IF file = Missing THEN 0 ELSE loads + 1
      BY <2>3, <3>1, ReopenEffect
    <3>3. /\ package'.parsed = [rows |-> file.rows, blocks |-> file.blocks,
                                marked |-> file.marked, whole |-> file.good,
                                buf |-> loads + 1, epoch |-> package.epoch + 1]
          /\ package'.legacy <=> file.major = 1
      BY <2>3, <2>4, <3>1, ReopenEffect
    <3> QED BY <2>4, <3>2, <3>3
  <2>10. t = [u EXCEPT !.epoch = package'.epoch]
    OBVIOUS
  <2>11. fresh = FinishOpen(a)
    BY DEF a
  <2> HIDE DEF t, u, fresh
  <2>12. package'.legacy = fresh.legacy
    <3>1. package'.legacy \in BOOLEAN /\ fresh.legacy \in BOOLEAN
      BY <2>7, <2>9, <2>11 DEF Package
    <3> QED BY <2>8, <2>9, <2>11, <3>1
  <2>13. [fresh EXCEPT !.epoch = package'.epoch, !.parsed.epoch = package'.epoch,
                       !.allow = package.allow]
           = [fresh EXCEPT !.epoch = package'.epoch, !.parsed = t, !.allow = package.allow]
    BY <2>7, <2>8, <2>10, <2>11 DEF Package
  <2> DEFINE r == [fresh EXCEPT !.epoch = package'.epoch, !.parsed = t, !.allow = package.allow]
  <2>14. /\ r \in Package /\ r.flags = fresh.flags /\ r.from_file = fresh.from_file
         /\ r.allow = package.allow /\ r.buf = fresh.buf /\ r.image = fresh.image
         /\ r.epoch = package'.epoch /\ r.legacy = fresh.legacy /\ r.parsed = t
    <3>1. /\ fresh \in Package /\ package'.epoch \in 1 .. MaxEpoch /\ t \in Parsed
          /\ package.allow \in BOOLEAN
      BY <2>4, <2>7, <2>9, <2>11 DEF Package
    <3> QED BY <3>1 DEF Package
  <2> HIDE DEF r
  <2>15. package' = r
    <3>1. ASSUME NEW p \in Package
          PROVE  p = [flags |-> p.flags, from_file |-> p.from_file, allow |-> p.allow,
                      buf |-> p.buf, image |-> p.image, epoch |-> p.epoch,
                      legacy |-> p.legacy, parsed |-> p.parsed]
      BY DEF Package
    <3>2. /\ r.flags = package'.flags /\ r.from_file = package'.from_file
          /\ r.allow = package'.allow /\ r.buf = package'.buf /\ r.image = package'.image
          /\ r.legacy = package'.legacy /\ r.parsed = package'.parsed
      BY <2>8, <2>9, <2>11, <2>12, <2>14
    <3> QED BY <2>9, <2>14, <3>1, <3>2
  <2> QED BY <2>13, <2>15 DEF r
<1> QED BY <1>1, AlwaysInv, PTL DEF Spec, ReopenIsFreshOpen
=============================================================================
