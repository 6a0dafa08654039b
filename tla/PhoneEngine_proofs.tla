-------------------------- MODULE PhoneEngine_proofs --------------------------
(***************************************************************************)
(* What PhoneEngine's run shows on two photos and two events, for any      *)
(* number of them.                                                         *)
(***************************************************************************)
EXTENDS PhoneEngine, WellFoundedInduction, NaturalsInduction, FiniteSetTheorems, TLAPS

Stages == {"off", "begin", "count", "counted", "work", "pick", "scanned",
           "discover", "retry", "lookup", "import", "reinsert", "deliver"}
States == Open \cup Settled \cup {"skipped"}

PhotoRec == [gen: Nat, ver: Nat, bytes: Nat]
OrderRec == [media: Photos, ver: Nat, hash: Nat, state: States, tries: Nat,
             gone: BOOLEAN]
ItemRec  == [order: Nat, media: 0..N, ver: Nat, gen: Nat,
             origin: {"none", "order", "scan", "new"}]
Batches  == UNION {[S -> Nat] : S \in SUBSET Photos}
JobRec   == [pc: Stages, reconcile: BOOLEAN, ask: BOOLEAN, legacy: Nat,
             retry: Nat, handled: SUBSET Nat, asked: BOOLEAN, batch: Batches,
             zero: BOOLEAN, item: ItemRec, hash: Nat, again: BOOLEAN,
             late: BOOLEAN]

Shape ==
    /\ photo \in [Photos -> PhotoRec] /\ scope \subseteq Photos
    /\ orders \in Seq(OrderRec)
    /\ gcur \in (Nat \X Nat) \cup {None}
    /\ scan \in [dirty: BOOLEAN, cursor: Nat]
    /\ pending \subseteq {"wake", "check", "periodic"}
    /\ job \in JobRec
    /\ events \in Nat /\ swept \subseteq Photos

Between == {"off", "begin", "count", "counted", "work"}
InHand  == {"lookup", "import", "reinsert", "deliver"}
Ahead(p) == gcur # None /\ Before(gcur, At(p))
Led(p)   == (scan.dirty /\ p > scan.cursor) \/ Has(p, photo[p].ver, Open) \/ p \in swept

Clocks ==
    /\ \A p \in Photos : photo[p].gen <= 1 + events /\ (photo[p].gen > 0 => photo[p].ver > 0)
    /\ gcur # None => gcur[1] <= 1 + events
    /\ job.item.gen <= 1 + events

Control ==
    /\ gcur = None => job.pc \in {"off", "begin"}
    /\ job.pc \in Between => job.legacy = 0
    /\ job.pc \notin InHand => job.item = NoItem
    /\ job.pc = "scanned" => scan.dirty

RowsAreOld ==
    \A i \in DOMAIN orders : /\ orders[i].ver > 0
                             /\ orders[i].ver <= photo[orders[i].media].ver
ItemIsRow ==
    job.pc \in InHand =>
      /\ job.item.media \in Photos /\ job.item.ver > 0
      /\ job.item.ver <= photo[job.item.media].ver
      /\ job.item.order = 0 =>
           job.pc \in {"lookup", "import"} /\ job.item.origin \in {"new", "scan"}
      /\ job.item.order # 0 =>
           /\ job.item.order = Current(job.item.media)
           /\ orders[job.item.order].media = job.item.media
           /\ orders[job.item.order].ver = job.item.ver
           /\ job.pc # "reinsert" => orders[job.item.order].state \in Open
           /\ job.pc = "deliver" => orders[job.item.order].state = "transferring"
                                    /\ orders[job.item.order].hash = job.hash
           /\ job.pc # "deliver" => job.item.origin = "order"
           /\ job.item.origin \in {"new", "scan", "order"}

Flying == {i \in DOMAIN orders : orders[i].state = "transferring"}
Flights ==
    /\ \A i \in Flying : i = Current(orders[i].media)
    /\ \A i, k \in Flying : i = k
    /\ job.pc \in {"scanned", "discover", "retry", "reinsert"} => Flying = {}
    /\ job.pc \in InHand => Flying \subseteq {job.item.order}
    /\ job.pc = "pick" => \A i \in Flying : i > job.legacy

NewItem ==
    job.pc \in InHand /\ job.item.origin = "new" =>
      LET to == <<job.item.gen, job.item.media>>
      IN  /\ Before(gcur, to)
          /\ job.item.media \in Listed =>
               /\ photo[job.item.media].gen >= job.item.gen
               /\ photo[job.item.media].ver # job.item.ver =>
                    photo[job.item.media].gen > job.item.gen
          /\ \A q \in TodoTargets :
               q # job.item.media /\ ~Before(to, At(q)) => Led(q)
ScanItem ==
    job.pc \in InHand /\ job.item.origin = "scan" =>
      /\ scan.dirty /\ scan.cursor < job.item.media
      /\ job.item.media \in Listed /\ photo[job.item.media].ver # job.item.ver =>
           Ahead(job.item.media)
      /\ ~job.late => \A q \in TodoTargets : q < job.item.media =>
           Ahead(q) \/ Has(q, photo[q].ver, Open) \/ q \in swept
Batched ==
    job.pc = "scanned" =>
      /\ \A q \in DOMAIN job.batch :
           /\ q > scan.cursor /\ 0 < job.batch[q] /\ job.batch[q] <= photo[q].ver
           /\ q \in Listed /\ photo[q].ver # job.batch[q] => Ahead(q)
      /\ ~job.late => \A q \in InScope : q > scan.cursor => q \in DOMAIN job.batch \/ Ahead(q)
CountedZero ==
    job.pc = "counted" /\ job.zero /\ ~job.late /\ scan.dirty => \A q \in TodoTargets : Ahead(q)
AllFound ==
    \A q \in TodoTargets : gcur = None \/ Ahead(q) \/ Led(q)
EngineInv ==
   /\ Clocks /\ Control /\ RowsAreOld /\ ItemIsRow /\ Flights /\ NewItem /\ ScanItem
   /\ Batched /\ CountedZero /\ AllFound

(* A cycle that is leaving, while no loop is started beside it: nothing    *)
(* runs, nothing is in flight, and its order is the photo's last.          *)
Stale(c) ==
    /\ c.last /\ c.media \in Photos /\ c.ver \in Nat /\ c.hash \in Nat
    /\ c.ver > 0 /\ c.ver <= photo[c.media].ver
    /\ Current(c.media) # 0 /\ orders[Current(c.media)].ver = c.ver
Leaves ==
    leaving # {} =>
      /\ job.pc = "off" /\ Flying = {}
      /\ \A c \in leaving : Stale(c) /\ leaving = {c}

-----------------------------------------------------------------------------
(* Least and greatest numbers.                                             *)

LEMMA LeastOf ==
    ASSUME NEW S, S \subseteq Nat, S # {}
    PROVE  \E x \in S : \A y \in S : x <= y
  <1>1. \E x \in S : \A y \in S : ~(<<y, x>> \in OpToRel(<, Nat))
    BY NatLessThanWellFounded, WFMin
  <1>2. PICK x \in S : \A y \in S : ~(<<y, x>> \in OpToRel(<, Nat))
    BY <1>1
  <1>3. \A y \in S : ~(y < x)
    BY <1>2 DEF OpToRel
  <1> QED BY <1>3

LEMMA MaxIs ==
    ASSUME NEW S, S \subseteq Nat, S # {}, NEW b \in Nat, \A x \in S : x <= b
    PROVE  Max(S) \in S /\ \A y \in S : Max(S) >= y
  <1> DEFINE T == {b - x : x \in S}
  <1>1. \A x \in S : x \in Nat /\ b - x \in Nat
    OBVIOUS
  <1>2. T \subseteq Nat /\ T # {}
    BY <1>1
  <1>3. PICK m \in T : \A y \in T : m <= y
    BY <1>2, LeastOf
  <1>4. PICK g \in S : m = b - g
    BY <1>3
  <1>5. \A y \in S : b - y \in T
    OBVIOUS
  <1>6. \A y \in S : b - g <= b - y
    BY <1>3, <1>4, <1>5
  <1>7. \A y \in S : g >= y
    BY <1>1, <1>6
  <1> QED BY <1>7 DEF Max

LEMMA MinIs ==
    ASSUME NEW S, S \subseteq Nat, S # {}
    PROVE  Min(S) \in S /\ \A y \in S : Min(S) =< y
  BY LeastOf DEF Min

-----------------------------------------------------------------------------
(* The daemon's record.                                                    *)

LEMMA EmptyBatch == << >> \in Batches /\ DOMAIN << >> = {}
  <1>1. << >> \in [{} -> Nat]
    OBVIOUS
  <1> QED BY <1>1 DEF Batches

LEMMA NoItemFacts ==
    /\ NoItem \in ItemRec /\ NoItem.order = 0 /\ NoItem.media = 0 /\ NoItem.gen = 0
    /\ NoItem.origin = "none"
  BY PhoneEngineAssumption DEF NoItem, ItemRec

LEMMA OffFacts ==
    /\ Off \in JobRec /\ Off.pc = "off" /\ Off.legacy = 0 /\ Off.item = NoItem /\ ~Off.late
    /\ [Off EXCEPT !.pc = "begin"] \in JobRec
    /\ [Off EXCEPT !.pc = "begin"].pc = "begin" /\ [Off EXCEPT !.pc = "begin"].legacy = 0
    /\ [Off EXCEPT !.pc = "begin"].item = NoItem
  BY EmptyBatch, NoItemFacts DEF Off, JobRec, Stages

LEMMA GoFacts ==
    ASSUME Shape, NEW c \in Stages, job' = Go(c)
    PROVE  /\ job' \in JobRec /\ job'.pc = c /\ job'.legacy = job.legacy
           /\ job'.item = job.item /\ job'.late = job.late /\ job'.hash = job.hash
           /\ job'.batch = job.batch /\ job'.zero = job.zero
  BY DEF Shape, JobRec, Go

LEMMA Next1Facts ==
    ASSUME Shape, job' = Next1
    PROVE  /\ job' \in JobRec /\ job'.pc = "pick" /\ job'.legacy = job.legacy
           /\ job'.item = NoItem /\ job'.late = job.late
  BY NoItemFacts DEF Shape, JobRec, Next1, Stages

-----------------------------------------------------------------------------
(* The orders: the current one of a photo, and what it says.               *)

CurIn(s, p) == Max({0} \cup {i \in DOMAIN s : s[i].media = p})
HasIn(s, p, ver, states) ==
    LET i == CurIn(s, p)
    IN  i > 0 /\ s[i].ver = ver /\ s[i].state \in states

LEMMA CurHas ==
    /\ \A p : Current(p) = CurIn(orders, p)
    /\ \A p, ver, states : Has(p, ver, states) <=> HasIn(orders, p, ver, states)
  BY DEF Current, CurIn, Has, HasIn

LEMMA CurHasNext ==
    /\ \A p : Current(p)' = CurIn(orders', p)
    /\ \A p, ver, states : Has(p, ver, states)' <=> HasIn(orders', p, ver, states)
  BY DEF Current, CurIn, Has, HasIn

LEMMA CurFacts ==
    ASSUME NEW s \in Seq(OrderRec), NEW p
    PROVE  /\ CurIn(s, p) \in 0..Len(s)
           /\ CurIn(s, p) # 0 => s[CurIn(s, p)].media = p
           /\ \A i \in 1..Len(s) : s[i].media = p => i <= CurIn(s, p)
  <1> DEFINE T == {0} \cup {i \in DOMAIN s : s[i].media = p}
  <1>1. DOMAIN s = 1..Len(s) /\ Len(s) \in Nat
    OBVIOUS
  <1>2. T \subseteq Nat /\ T # {} /\ \A x \in T : x <= Len(s)
    BY <1>1
  <1>3. Max(T) \in T /\ \A y \in T : Max(T) >= y
    BY <1>1, <1>2, MaxIs
  <1>4. CurIn(s, p) = Max(T)
    BY DEF CurIn
  <1> HIDE DEF T
  <1>5. CurIn(s, p) \in T /\ \A y \in T : CurIn(s, p) >= y
    BY <1>3, <1>4
  <1> QED BY <1>1, <1>5 DEF T

(* It is the last one of its photo.                                        *)
LEMMA CurIs ==
    ASSUME NEW s \in Seq(OrderRec), NEW p, NEW c \in 0..Len(s),
           c # 0 => s[c].media = p,
           \A i \in 1..Len(s) : s[i].media = p => i <= c
    PROVE  CurIn(s, p) = c
  BY CurFacts

LEMMA CurSame ==
    ASSUME NEW s \in Seq(OrderRec), NEW t \in Seq(OrderRec), Len(t) = Len(s),
           \A i \in 1..Len(s) : t[i].media = s[i].media
    PROVE  \A p : CurIn(t, p) = CurIn(s, p)
  <1> SUFFICES ASSUME NEW p PROVE CurIn(t, p) = CurIn(s, p)
    OBVIOUS
  <1>1. /\ CurIn(s, p) \in 0..Len(s)
        /\ CurIn(s, p) # 0 => s[CurIn(s, p)].media = p
        /\ \A i \in 1..Len(s) : s[i].media = p => i <= CurIn(s, p)
    BY CurFacts
  <1>2. PICK c \in 0..Len(s) : c = CurIn(s, p)
    BY <1>1
  <1>3. /\ c \in 0..Len(t) /\ (c # 0 => t[c].media = p)
        /\ \A i \in 1..Len(t) : t[i].media = p => i <= c
    BY <1>1, <1>2
  <1>4. CurIn(t, p) = c
    BY <1>3, CurIs
  <1> QED BY <1>2, <1>4

(* Orders are changed where they are: photo and version stay.              *)
LEMMA InPlace ==
    ASSUME Shape, orders' \in Seq(OrderRec), Len(orders') = Len(orders),
           \A i \in 1..Len(orders) : orders'[i].media = orders[i].media
                                     /\ orders'[i].ver = orders[i].ver
    PROVE  /\ \A p : Current(p)' = Current(p)
           /\ \A p, ver, states : Has(p, ver, states)' <=>
                /\ Current(p) > 0 /\ orders[Current(p)].ver = ver
                /\ orders'[Current(p)].state \in states
  <1>1. \A p : CurIn(orders', p) = CurIn(orders, p)
    BY CurSame DEF Shape
  <1>2. \A p : CurIn(orders, p) \in 0..Len(orders)
    BY CurFacts DEF Shape
  <1>3. \A p, ver, states : HasIn(orders', p, ver, states) <=>
                /\ CurIn(orders, p) > 0 /\ orders[CurIn(orders, p)].ver = ver
                /\ orders'[CurIn(orders, p)].state \in states
    BY <1>1, <1>2 DEF HasIn
  <1> QED BY <1>1, <1>3, CurHas, CurHasNext

LEMMA CurrentFacts ==
    ASSUME Shape
    PROVE  /\ DOMAIN orders = 1..Len(orders) /\ Len(orders) \in Nat
           /\ \A i \in 1..Len(orders) : orders[i] \in OrderRec
           /\ \A p : /\ Current(p) \in 0..Len(orders)
                     /\ Current(p) # 0 => orders[Current(p)].media = p
                     /\ \A i \in 1..Len(orders) : orders[i].media = p => i <= Current(p)
  <1>1. orders \in Seq(OrderRec)
    BY DEF Shape
  <1>2. \A p : /\ CurIn(orders, p) \in 0..Len(orders)
               /\ CurIn(orders, p) # 0 => orders[CurIn(orders, p)].media = p
               /\ \A i \in 1..Len(orders) : orders[i].media = p => i <= CurIn(orders, p)
    BY <1>1, CurFacts
  <1> QED BY <1>1, <1>2, CurHas

(* A new order: it is its photo's current one.                             *)
LEMMA Appended ==
    ASSUME Shape, NEW row \in OrderRec, Add(row)
    PROVE  /\ orders' \in Seq(OrderRec) /\ Len(orders') = Len(orders) + 1
           /\ \A i \in 1..Len(orders) : orders'[i] = orders[i]
           /\ orders'[Len(orders) + 1] = row
           /\ Current(row.media)' = Len(orders) + 1
           /\ \A p : p # row.media => Current(p)' = Current(p)
           /\ \A ver, states : Has(row.media, ver, states)' <=>
                row.ver = ver /\ row.state \in states
           /\ \A p : p # row.media =>
                \A ver, states : Has(p, ver, states)' <=> Has(p, ver, states)
  <1> DEFINE n == Len(orders)
  <1>1. /\ orders \in Seq(OrderRec) /\ orders' \in Seq(OrderRec) /\ Len(orders') = n + 1
        /\ \A i \in 1..n : orders'[i] = orders[i]
        /\ orders'[n + 1] = row /\ n \in Nat
    BY DEF Add, Shape
  <1> HIDE DEF n
  <1>2. CurIn(orders', row.media) = n + 1
    BY <1>1, CurIs
  <1>3. ASSUME NEW p, p # row.media
        PROVE  CurIn(orders', p) = CurIn(orders, p) /\ CurIn(orders, p) \in 0..n
    <2>1. /\ CurIn(orders, p) \in 0..n
          /\ CurIn(orders, p) # 0 => orders[CurIn(orders, p)].media = p
          /\ \A i \in 1..n : orders[i].media = p => i <= CurIn(orders, p)
      BY <1>1, CurFacts DEF n
    <2>2. \A i \in 1..(n + 1) : orders'[i].media = p => i \in 1..n /\ orders[i].media = p
      BY <1>1, <1>3
    <2> QED BY <1>1, <2>1, <2>2, CurIs
  <1>4. \A ver, states : HasIn(orders', row.media, ver, states) <=>
                            row.ver = ver /\ row.state \in states
    BY <1>1, <1>2 DEF HasIn
  <1>5. \A p : p # row.media =>
          \A ver, states : HasIn(orders', p, ver, states) <=> HasIn(orders, p, ver, states)
    BY <1>1, <1>3 DEF HasIn
  <1> QED BY <1>1, <1>2, <1>3, <1>4, <1>5, CurHas, CurHasNext DEF n

(* One order's outcome.                                                    *)
LEMMA Turned ==
    ASSUME Shape, NEW i \in 1..Len(orders), i = Current(orders[i].media),
           NEW state \in States, NEW tries \in Nat, Turn(i, state, tries)
    PROVE  /\ orders' \in Seq(OrderRec) /\ Len(orders') = Len(orders)
           /\ \A k \in 1..Len(orders) : k # i => orders'[k] = orders[k]
           /\ orders'[i].media = orders[i].media /\ orders'[i].ver = orders[i].ver
           /\ orders'[i].hash = orders[i].hash /\ orders'[i].state = state
           /\ \A p : Current(p)' = Current(p)
           /\ \A ver, states : Has(orders[i].media, ver, states)' <=>
                orders[i].ver = ver /\ state \in states
           /\ \A p : p # orders[i].media =>
                \A ver, states : Has(p, ver, states)' <=> Has(p, ver, states)
  <1>1. orders \in Seq(OrderRec) /\ orders[i] \in OrderRec
    BY DEF Shape
  <1> DEFINE old == orders[i]
             sum == old.tries + tries
             row == [old EXCEPT !.state = state, !.tries = sum]
  <1>0. old \in OrderRec /\ sum \in Nat
    BY <1>1 DEF OrderRec
  <1> HIDE DEF old, sum
  <1>a. /\ row \in OrderRec /\ row.media = old.media /\ row.ver = old.ver
        /\ row.hash = old.hash /\ row.state = state
    BY <1>0 DEF OrderRec
  <1> USE DEF old, sum
  <1>2. /\ row \in OrderRec /\ row.media = orders[i].media /\ row.ver = orders[i].ver
        /\ row.hash = orders[i].hash /\ row.state = state
    BY <1>a
  <1>3. orders' = [orders EXCEPT ![i] = row]
    BY <1>1 DEF Turn, OrderRec
  <1> HIDE DEF row
  <1>4. /\ orders' \in Seq(OrderRec) /\ Len(orders') = Len(orders)
        /\ \A k \in 1..Len(orders) : k # i => orders'[k] = orders[k]
        /\ orders'[i] = row
    BY <1>1, <1>2, <1>3
  <1>5. /\ \A p : Current(p)' = Current(p)
        /\ \A p, ver, states : Has(p, ver, states)' <=>
                /\ Current(p) > 0 /\ orders[Current(p)].ver = ver
                /\ orders'[Current(p)].state \in states
    BY <1>1, <1>2, <1>4, InPlace
  <1>6. \A p : Current(p) \in 0..Len(orders) /\ (Current(p) # 0 => orders[Current(p)].media = p)
    BY CurrentFacts
  <1>7. \A ver, states : Has(orders[i].media, ver, states)' <=>
                orders[i].ver = ver /\ state \in states
    BY <1>2, <1>4, <1>5
  <1>8. \A p : p # orders[i].media =>
                \A ver, states : Has(p, ver, states)' <=> Has(p, ver, states)
    BY <1>4, <1>5, <1>6 DEF Has
  <1> QED BY <1>2, <1>4, <1>5, <1>7, <1>8

-----------------------------------------------------------------------------
(* Frames.                                                                 *)

LEMMA ShapeFacts ==
    ASSUME Shape
    PROVE  /\ \A p \in Photos : photo[p].gen \in Nat /\ photo[p].ver \in Nat
                                /\ photo[p].bytes \in Nat /\ At(p) = <<photo[p].gen, p>>
                                /\ p \in Nat /\ p > 0
           /\ N \in Nat /\ events \in Nat
           /\ gcur # None => gcur \in Nat \X Nat /\ gcur[1] \in Nat /\ gcur[2] \in Nat
           /\ scan.dirty \in BOOLEAN /\ scan.cursor \in Nat
           /\ job.pc \in Stages /\ job.legacy \in Nat /\ job.item \in ItemRec
           /\ job.late \in BOOLEAN /\ job.hash \in Nat /\ job.zero \in BOOLEAN
           /\ job.item.order \in Nat /\ job.item.media \in Nat /\ job.item.ver \in Nat
           /\ job.item.gen \in Nat
  <1>1. N \in Nat /\ \A p \in Photos : p \in Nat /\ p > 0
    BY PhoneEngineAssumption DEF Photos
  <1>2. \A p \in Photos : photo[p] \in PhotoRec
    BY DEF Shape
  <1>3. \A p \in Photos : photo[p].gen \in Nat /\ photo[p].ver \in Nat /\ photo[p].bytes \in Nat
    BY <1>2 DEF PhotoRec
  <1>4. gcur # None => gcur \in Nat \X Nat /\ gcur[1] \in Nat /\ gcur[2] \in Nat
    BY DEF Shape
  <1>5. scan.dirty \in BOOLEAN /\ scan.cursor \in Nat /\ events \in Nat
    BY DEF Shape
  <1>6. /\ job.pc \in Stages /\ job.legacy \in Nat /\ job.item \in ItemRec
        /\ job.late \in BOOLEAN /\ job.hash \in Nat /\ job.zero \in BOOLEAN
    BY DEF Shape, JobRec
  <1>7. /\ job.item.order \in Nat /\ job.item.media \in Nat /\ job.item.ver \in Nat
        /\ job.item.gen \in Nat
    BY <1>1, <1>6 DEF ItemRec
  <1> QED BY <1>1, <1>3, <1>4, <1>5, <1>6, <1>7 DEF At

LEMMA SameStore ==
    ASSUME UNCHANGED <<photo, scope, orders, skips, gcur, scan>>
    PROVE  /\ \A p : Current(p)' = Current(p) /\ At(p)' = At(p) /\ Ahead(p)' = Ahead(p)
           /\ \A p, ver, states : Has(p, ver, states)' <=> Has(p, ver, states)
           /\ TodoTargets' = TodoTargets /\ InScope' = InScope /\ Listed' = Listed
           /\ Flying' = Flying
           /\ swept \subseteq swept' => \A p : Led(p) => Led(p)'
  <1>1. \A p : Current(p)' = Current(p) /\ At(p)' = At(p) /\ Ahead(p)' = Ahead(p)
    BY DEF Current, At, Ahead, Before
  <1>2. \A p, ver, states : Has(p, ver, states)' <=> Has(p, ver, states)
    BY <1>1 DEF Has
  <1>3. InScope' = InScope /\ Listed' = Listed /\ Flying' = Flying
    BY DEF InScope, Listed, Flying
  <1>4. TodoTargets' = TodoTargets
    BY <1>2, <1>3 DEF TodoTargets, IsTodo
  <1>5. swept \subseteq swept' => \A p : Led(p) => Led(p)'
    BY <1>2 DEF Led
  <1> QED BY <1>1, <1>2, <1>3, <1>4, <1>5

LEMMA BatchFacts ==
    ASSUME Shape
    PROVE  /\ DOMAIN job.batch \subseteq Photos
           /\ \A q \in DOMAIN job.batch : job.batch[q] \in Nat
  <1>1. job.batch \in Batches
    BY DEF Shape, JobRec
  <1>2. PICK S \in SUBSET Photos : job.batch \in [S -> Nat]
    BY <1>1 DEF Batches
  <1> QED BY <1>2

(* Nothing is in hand.                                                     *)
LEMMA Idles ==
    ASSUME job'.pc \notin InHand \cup {"scanned", "counted"},
           Clocks', Control', RowsAreOld', Flights', AllFound'
    PROVE  EngineInv'
  BY DEF EngineInv, ItemIsRow, NewItem, ScanItem, Batched, CountedZero

LEMMA NotBefore == \A g, e : g = 0 /\ e \in Nat => g <= 1 + e
  OBVIOUS

(* The cycle is over, or starts anew.                                      *)
LEMMA Halts ==
    ASSUME Shape, EngineInv, UNCHANGED <<photo, scope, orders, skips, gcur, scan, swept>>,
           job' \in JobRec, job'.pc \in {"off", "begin"}, job'.legacy = 0, job'.item = NoItem,
           events' \in Nat, events' >= events,
           pending' \subseteq {"wake", "check", "periodic"}
    PROVE  Shape' /\ EngineInv'
  <1>1. Shape'
    BY DEF Shape
  <1>2. Clocks'
    <2>1. /\ \A p \in Photos : photo'[p].gen <= 1 + events'
                               /\ (photo'[p].gen > 0 => photo'[p].ver > 0)
          /\ gcur' # None => gcur'[1] <= 1 + events'
      BY ShapeFacts DEF EngineInv, Clocks
    <2>2. job'.item.gen = 0
      BY NoItemFacts, Zenon
    <2>3. job'.item.gen <= 1 + events'
      BY <2>2, NotBefore
    <2> QED BY <2>1, <2>3 DEF Clocks
  <1>3. Control'
    <2>1. /\ gcur' = None => job'.pc \in {"off", "begin"}
          /\ job'.pc \in Between => job'.legacy = 0
          /\ job'.pc \notin InHand => job'.item = NoItem
          /\ job'.pc = "scanned" => scan'.dirty
      OBVIOUS
    <2> QED BY <2>1 DEF Control
  <1>4. RowsAreOld'
    BY DEF EngineInv, RowsAreOld
  <1>5. Flights'
    BY SameStore DEF EngineInv, Flights, InHand, Flying
  <1>6. AllFound'
    BY SameStore DEF EngineInv, AllFound
  <1> QED BY <1>1, <1>2, <1>3, <1>4, <1>5, <1>6, Idles DEF InHand

(* Photos come, change, go; an album is given up.                          *)
LEMMA MediaChanges ==
    ASSUME Shape, EngineInv, UNCHANGED <<store, intent, job, swept>>,
           events' = events + 1, photo' \in [Photos -> PhotoRec], scope' \subseteq scope,
           \A q \in Photos :
             \/ photo'[q].gen = photo[q].gen /\ photo'[q].ver = photo[q].ver
             \/ photo'[q].gen = 0 /\ photo'[q].ver = photo[q].ver
             \/ photo'[q].gen = 1 + events' /\ photo'[q].ver = photo[q].ver + 1
             \/ photo'[q].gen = 1 + events' /\ photo'[q].ver = photo[q].ver /\ photo[q].ver > 0
    PROVE  Shape' /\ EngineInv'
  <1> USE DEF store, intent
  <1>1. Shape'
    BY DEF Shape
  <1>2. /\ \A q \in Photos : photo'[q].ver >= photo[q].ver /\ photo'[q].ver \in Nat
                             /\ photo'[q].gen \in Nat /\ At(q)' = <<photo'[q].gen, q>>
        /\ events \in Nat
    <2>1. \A q \in Photos : photo'[q].ver \in Nat /\ photo'[q].gen \in Nat
      BY DEF PhotoRec
    <2>2. \A q \in Photos : photo'[q].ver >= photo[q].ver
      BY ShapeFacts
    <2> QED BY <2>1, <2>2, ShapeFacts DEF At
  <1>3. /\ \A p : Current(p)' = Current(p)
        /\ \A p, ver, states : Has(p, ver, states)' <=> Has(p, ver, states)
        /\ Flying' = Flying
    BY DEF Current, Has, Flying
  <1>4. Clocks'
    BY <1>2, ShapeFacts DEF EngineInv, Clocks
  <1>5. Control'
    BY DEF EngineInv, Control
  <1>6. RowsAreOld'
    <2>0. \A i \in DOMAIN orders : orders[i] \in OrderRec
      BY CurrentFacts
    <2>1. \A i \in DOMAIN orders : orders[i].media \in Photos /\ orders[i].ver \in Nat
      BY <2>0 DEF OrderRec
    <2> QED BY <1>2, <2>1, ShapeFacts DEF EngineInv, RowsAreOld
  <1>7. ItemIsRow'
    BY <1>2, <1>3, ShapeFacts DEF EngineInv, ItemIsRow
  <1>8. Flights'
    BY <1>3 DEF EngineInv, Flights, Flying
  (* A photo either is what it was, or has just been found.                *)
  <1> DEFINE Same(q) == photo'[q].gen = photo[q].gen /\ photo'[q].ver = photo[q].ver
             New(q)  == photo'[q].gen = 1 + events'
  <1>9. \A q \in Photos : /\ q \in Listed' => Same(q) \/ New(q)
                          /\ Same(q) => (Ahead(q)' <=> Ahead(q)) /\ (Led(q)' <=> Led(q))
                                        /\ At(q)' = At(q)
                                        /\ (q \in Listed' => q \in Listed)
                                        /\ (q \in InScope' => q \in InScope)
                                        /\ (q \in TodoTargets' => q \in TodoTargets)
    BY <1>2, <1>3, ShapeFacts
       DEF Listed, InScope, TodoTargets, IsTodo, Ahead, At, Before, Led
  <1>10. \A q \in Photos : New(q) => gcur = None \/ Ahead(q)'
    BY <1>2, ShapeFacts DEF EngineInv, Clocks, Ahead, Before
  <1>11. /\ TodoTargets' \subseteq InScope' /\ InScope' \subseteq Listed' /\ Listed' \subseteq Photos
    BY DEF TodoTargets, InScope, Listed
  <1>12. NewItem'
    <2> SUFFICES ASSUME job.pc \in InHand, job.item.origin = "new"
                 PROVE  LET to == <<job.item.gen, job.item.media>>
                        IN  /\ Before(gcur, to)
                            /\ job.item.media \in Listed' =>
                                 /\ photo'[job.item.media].gen >= job.item.gen
                                 /\ photo'[job.item.media].ver # job.item.ver =>
                                      photo'[job.item.media].gen > job.item.gen
                            /\ \A q \in TodoTargets' :
                                 q # job.item.media /\ ~Before(to, At(q)') => Led(q)'
      BY DEF NewItem, InHand, Before
    <2> DEFINE to == <<job.item.gen, job.item.media>>
    <2>1. /\ Before(gcur, to)
          /\ job.item.media \in Listed =>
               /\ photo[job.item.media].gen >= job.item.gen
               /\ photo[job.item.media].ver # job.item.ver =>
                    photo[job.item.media].gen > job.item.gen
          /\ \A q \in TodoTargets :
               q # job.item.media /\ ~Before(to, At(q)) => Led(q)
      BY DEF EngineInv, NewItem
    <2>2. \A q \in Photos : New(q) => photo'[q].gen > job.item.gen /\ Before(to, At(q)')
      BY <1>2, ShapeFacts DEF EngineInv, Clocks, Before
    <2> HIDE DEF to
    <2>3. ASSUME job.item.media \in Listed'
          PROVE  /\ photo'[job.item.media].gen >= job.item.gen
                 /\ photo'[job.item.media].ver # job.item.ver =>
                      photo'[job.item.media].gen > job.item.gen
      <3>1. CASE Same(job.item.media)
        BY <1>9, <1>11, <2>1, <2>3, <3>1
      <3>2. CASE New(job.item.media)
        BY <1>2, <1>11, <2>2, <2>3, <3>2, ShapeFacts
      <3> QED BY <1>9, <1>11, <2>3, <3>1, <3>2
    <2>4. ASSUME NEW q \in TodoTargets', q # job.item.media, ~Before(to, At(q)')
          PROVE  Led(q)'
      <3>1. ~New(q)
        BY <1>11, <2>2, <2>4
      <3>2. Same(q)
        BY <1>9, <1>11, <2>4, <3>1
      <3>3. q \in TodoTargets /\ At(q)' = At(q) /\ (Led(q)' <=> Led(q))
        BY <1>9, <1>11, <2>4, <3>2
      <3> QED BY <2>1, <2>4, <3>3
    <2> QED BY <2>1, <2>3, <2>4 DEF to
  <1>13. ScanItem'
    <2> SUFFICES ASSUME job.pc \in InHand, job.item.origin = "scan"
                 PROVE  /\ scan.dirty /\ scan.cursor < job.item.media
                        /\ job.item.media \in Listed'
                             /\ photo'[job.item.media].ver # job.item.ver =>
                                  Ahead(job.item.media)'
                        /\ ~job.late => \A q \in TodoTargets' : q < job.item.media =>
                              Ahead(q)' \/ Has(q, photo[q].ver, Open)' \/ q \in swept'
      BY DEF ScanItem, InHand
    <2>1. /\ scan.dirty /\ scan.cursor < job.item.media /\ gcur # None
          /\ job.item.media \in Listed /\ photo[job.item.media].ver # job.item.ver =>
               Ahead(job.item.media)
          /\ ~job.late => \A q \in TodoTargets : q < job.item.media =>
               Ahead(q) \/ Has(q, photo[q].ver, Open) \/ q \in swept
      BY DEF EngineInv, ScanItem, Control, InHand
    <2>2. \A q \in Photos : New(q) => Ahead(q)'
      BY <1>10, <2>1
    <2>3. ASSUME job.item.media \in Listed', photo'[job.item.media].ver # job.item.ver
          PROVE  Ahead(job.item.media)'
      BY <1>9, <1>11, <2>1, <2>2, <2>3
    <2>4. ASSUME ~job.late, NEW q \in TodoTargets', q < job.item.media
          PROVE  Ahead(q)' \/ Has(q, photo[q].ver, Open)' \/ q \in swept'
      <3>1. q \in Photos /\ (Same(q) \/ New(q))
        BY <1>9, <1>11, <2>4
      <3>2. CASE Same(q)
        BY <1>3, <1>9, <2>1, <2>4, <3>1, <3>2
      <3> QED BY <2>2, <3>1, <3>2
    <2> HIDE DEF Same, New
    <2> QED BY <2>1, <2>3, <2>4
  <1>14. Batched'
    <2> SUFFICES ASSUME job.pc = "scanned" PROVE Batched'
      BY DEF Batched
    <2>1. /\ \A q \in DOMAIN job.batch :
                /\ q > scan.cursor /\ 0 < job.batch[q] /\ job.batch[q] <= photo[q].ver
                /\ q \in Listed /\ photo[q].ver # job.batch[q] => Ahead(q)
          /\ ~job.late => \A q \in InScope : q > scan.cursor => q \in DOMAIN job.batch \/ Ahead(q)
          /\ gcur # None
      BY DEF EngineInv, Batched, Control
    <2>2. \A q \in Photos : New(q) => Ahead(q)'
      BY <1>10, <2>1
    <2>3. ASSUME NEW q \in DOMAIN job.batch
          PROVE  /\ q > scan.cursor /\ 0 < job.batch[q] /\ job.batch[q] <= photo'[q].ver
                 /\ q \in Listed' /\ photo'[q].ver # job.batch[q] => Ahead(q)'
      <3>1. job.batch[q] <= photo'[q].ver
        BY <1>2, <2>1, <2>3, BatchFacts, ShapeFacts
      <3>2. ASSUME q \in Listed', photo'[q].ver # job.batch[q] PROVE Ahead(q)'
        BY <1>9, <1>11, <2>1, <2>2, <2>3, <3>2
      <3> QED BY <2>1, <3>1, <3>2
    <2>4. ASSUME ~job.late, NEW q \in InScope', q > scan.cursor
          PROVE  q \in DOMAIN job.batch \/ Ahead(q)'
      BY <1>9, <1>11, <2>1, <2>2, <2>4
    <2> HIDE DEF Same, New
    <2> QED BY <2>3, <2>4 DEF Batched
  <1>15. CountedZero'
    BY <1>9, <1>10, <1>11 DEF EngineInv, CountedZero, Control
  <1>16. AllFound'
    BY <1>9, <1>10, <1>11 DEF EngineInv, AllFound
  <1> QED BY <1>1, <1>4, <1>5, <1>6, <1>7, <1>8, <1>12, <1>13, <1>14, <1>15, <1>16
          DEF EngineInv

(* The scan is marked dirty: every photo is found by it.                   *)
LEMMA Dirties ==
    ASSUME Shape, EngineInv, UNCHANGED <<photo, orders, gcur>>,
           scan' = Dirty, events' = events + 1, swept' = {},
           scope' \subseteq Photos,
           pending' \subseteq {"wake", "check", "periodic"}, job' \in JobRec,
           job'.pc = job.pc \/ (job.pc = "off" /\ job'.pc = "begin"),
           job'.item = job.item, job'.legacy = job.legacy, job'.batch = job.batch,
           job'.hash = job.hash, job'.late = (job.pc # "off")
    PROVE  Shape' /\ EngineInv'
  <1>1. Shape'
    BY DEF Shape, Dirty
  <1>2. /\ \A p : Current(p)' = Current(p) /\ At(p)' = At(p) /\ Ahead(p)' = Ahead(p)
        /\ \A p, ver, states : Has(p, ver, states)' <=> Has(p, ver, states)
        /\ Flying' = Flying /\ Listed' = Listed
    BY DEF Current, Has, Flying, Listed, Ahead, At, Before
  <1>3. /\ scan'.dirty /\ scan'.cursor = 0
        /\ \A q \in Photos : Led(q)'
    BY ShapeFacts DEF Dirty, Led
  <1>4. TodoTargets' \subseteq Photos
    BY DEF TodoTargets, InScope, Listed
  <1>5. Clocks'
    <2>1. /\ \A p \in Photos : photo[p].gen <= 1 + events'
                               /\ (photo[p].gen > 0 => photo[p].ver > 0)
          /\ gcur # None => gcur[1] <= 1 + events'
          /\ job.item.gen <= 1 + events'
      BY ShapeFacts DEF EngineInv, Clocks
    <2> QED BY <2>1 DEF Clocks
  <1>6. Control'
    BY <1>3 DEF EngineInv, Control, Between, InHand
  <1>7. RowsAreOld'
    BY DEF EngineInv, RowsAreOld
  <1>8. ItemIsRow'
    BY <1>2 DEF EngineInv, ItemIsRow, InHand
  <1>9. Flights'
    BY <1>2 DEF EngineInv, Flights, Flying, InHand
  <1>10. NewItem'
    BY <1>2, <1>3, <1>4 DEF EngineInv, NewItem, InHand, Before
  <1>11. ScanItem'
    <2>1. job.pc \in InHand => job.item.media \in Photos /\ job.pc # "off"
      BY DEF EngineInv, ItemIsRow, InHand
    <2> QED BY <1>2, <1>3, <2>1, ShapeFacts DEF EngineInv, ScanItem, InHand
  <1>12. Batched'
    BY <1>2, <1>3, BatchFacts, ShapeFacts DEF EngineInv, Batched
  <1>13. CountedZero'
    BY DEF CountedZero
  <1>14. AllFound'
    BY <1>3, <1>4 DEF AllFound
  <1> QED BY <1>1, <1>5, <1>6, <1>7, <1>8, <1>9, <1>10, <1>11, <1>12, <1>13, <1>14
          DEF EngineInv

-----------------------------------------------------------------------------
(* The surroundings and the user.                                          *)

LEMMA SurroundingsKeep ==
    ASSUME Shape, EngineInv,
           \/ \E burst \in SUBSET Photos : Take(burst)
           \/ \E p \in Photos : Edit(p) \/ Overwrite(p) \/ Delete(p) \/ Reappear(p) \/ DropScope(p)
           \/ \E f \in kept : Lose(f)
    PROVE  Shape' /\ EngineInv'
  <1> USE DEF Untouched, media, ghosts
  <1>0. photo \in [Photos -> PhotoRec] /\ events \in Nat
    BY DEF Shape
  <1>1. CASE \E burst \in SUBSET Photos : Take(burst)
    <2>1. PICK burst \in SUBSET Photos : Take(burst)
      BY <1>1
    <2>2. /\ events' = events + 1 /\ UNCHANGED <<store, intent, job, swept, scope>>
          /\ \A p \in burst : photo[p].ver = 0
          /\ photo' = [p \in Photos |->
                         IF p \in burst THEN [gen |-> 1 + events', ver |-> 1, bytes |-> 1]
                         ELSE photo[p]]
      BY <2>1 DEF Take, Happens
    <2>3. photo' \in [Photos -> PhotoRec]
      BY <1>0, <2>2 DEF PhotoRec
    <2> QED BY <2>2, <2>3, MediaChanges
  <1>2. ASSUME NEW p \in Photos, NEW g \in Nat, NEW v \in Nat, NEW b \in Nat, Changed(p, g, v, b)
        PROVE  /\ photo' \in [Photos -> PhotoRec] /\ photo'[p].gen = g /\ photo'[p].ver = v
               /\ \A q \in Photos : q # p => photo'[q] = photo[q]
    <2>1. [gen |-> g, ver |-> v, bytes |-> b] \in PhotoRec
      BY DEF PhotoRec
    <2> QED BY <1>0, <1>2, <2>1 DEF Changed
  <1>3. CASE \E p \in Photos : Edit(p)
    <2>1. PICK p \in Photos : Edit(p)
      BY <1>3
    <2>2. /\ events' = events + 1 /\ UNCHANGED <<store, intent, job, swept, scope>>
          /\ Changed(p, 1 + events', photo[p].ver + 1, photo[p].bytes + 1)
      BY <2>1 DEF Edit, Happens
    <2>3. 1 + events' \in Nat /\ photo[p].ver + 1 \in Nat /\ photo[p].bytes + 1 \in Nat
      BY <1>0, <2>2, ShapeFacts
    <2> QED BY <1>2, <2>2, <2>3, MediaChanges
  <1>4. CASE \E p \in Photos : Overwrite(p)
    <2>1. PICK p \in Photos : Overwrite(p)
      BY <1>4
    <2>2. /\ events' = events + 1 /\ UNCHANGED <<store, intent, job, swept, scope>>
          /\ Changed(p, photo[p].gen, photo[p].ver, photo[p].bytes + 1)
      BY <2>1 DEF Overwrite, Happens
    <2>3. photo[p].gen \in Nat /\ photo[p].ver \in Nat /\ photo[p].bytes + 1 \in Nat
      BY ShapeFacts
    <2> QED BY <1>2, <2>2, <2>3, MediaChanges
  <1>5. CASE \E p \in Photos : Delete(p)
    <2>1. PICK p \in Photos : Delete(p)
      BY <1>5
    <2>2. /\ events' = events + 1 /\ UNCHANGED <<store, intent, job, swept, scope>>
          /\ Changed(p, 0, photo[p].ver, photo[p].bytes)
      BY <2>1 DEF Delete, Happens
    <2>3. photo[p].ver \in Nat /\ photo[p].bytes \in Nat
      BY ShapeFacts
    <2> QED BY <1>2, <2>2, <2>3, MediaChanges
  <1>6. CASE \E p \in Photos : DropScope(p)
    BY <1>0, <1>6, MediaChanges DEF DropScope, Happens
  <1>7. CASE \E f \in kept : Lose(f)
    BY <1>0, <1>7, MediaChanges DEF Lose, Happens
  <1>8. CASE \E p \in Photos : Reappear(p)
    <2>1. PICK p \in Photos : Reappear(p)
      BY <1>8
    <2>2. /\ events' = events + 1 /\ UNCHANGED <<store, intent, job, swept, scope>>
          /\ Changed(p, 1 + events', photo[p].ver, photo[p].bytes) /\ photo[p].ver > 0
      BY <2>1 DEF Reappear, Happens
    <2>3. 1 + events' \in Nat /\ photo[p].ver \in Nat /\ photo[p].bytes \in Nat
      BY <1>0, <2>2, ShapeFacts
    <2> QED BY <1>2, <2>2, <2>3, MediaChanges
  <1> QED BY <1>1, <1>3, <1>4, <1>5, <1>6, <1>7, <1>8

LEMMA Rescans ==
    ASSUME Shape, EngineInv, RestoreSkipped \/ \E p \in Photos : AddScope(p)
    PROVE  Shape' /\ EngineInv'
  <1>1. /\ UNCHANGED <<photo, orders, gcur>>
        /\ scan' = Dirty /\ events' = events + 1 /\ swept' = {}
        /\ scope' \subseteq Photos
        /\ Wake("check", Marked)
    BY DEF RestoreSkipped, AddScope, Happens, media, Shape
  <1>2. /\ Marked \in JobRec /\ Marked.pc = job.pc /\ Marked.item = job.item
        /\ Marked.legacy = job.legacy /\ Marked.batch = job.batch /\ Marked.hash = job.hash
        /\ Marked.late = (job.pc # "off")
    BY DEF Shape, JobRec, Marked
  <1> DEFINE B == [Marked EXCEPT !.pc = "begin"]
  <1>3. /\ B \in JobRec /\ B.pc = "begin" /\ B.item = job.item
        /\ B.legacy = job.legacy /\ B.batch = job.batch /\ B.hash = job.hash
        /\ B.late = (job.pc # "off")
    <2> HIDE DEF Marked
    <2> QED BY <1>2 DEF JobRec, Stages
  <1>4. /\ pending' \subseteq {"wake", "check", "periodic"}
        /\ job' = Marked \/ (job' = B /\ job.pc = "off")
    BY <1>1, <1>2 DEF Wake, Shape
  <1> QED BY <1>1, <1>2, <1>3, <1>4, Dirties

LEMMA OffOrBegin ==
    ASSUME Shape, NEW wait, End(wait)
    PROVE  /\ job' \in JobRec /\ job'.pc \in {"off", "begin"} /\ job'.legacy = 0
           /\ job'.item = NoItem /\ pending' \subseteq {"wake", "check", "periodic"}
  <1>1. /\ job' = Off \/ job' = [Off EXCEPT !.pc = "begin"]
        /\ pending' = pending
    BY DEF End
  <1>2. pending' \subseteq {"wake", "check", "periodic"}
    BY <1>1 DEF Shape
  <1> QED BY <1>1, <1>2, OffFacts

LEMMA Stops ==
    ASSUME Shape, EngineInv,
           \/ \E kind \in {"wake", "periodic"} : Trigger(kind)
           \/ Pause \/ StopCycle \/ Resume \/ Kill \/ Hold \/ PathFailure \/ WriteFails
           \/ Finish
    PROVE  Shape' /\ EngineInv'
  <1> DEFINE Same == UNCHANGED <<photo, scope, orders, skips, gcur, scan, swept>>
  <1>0. events \in Nat /\ pending \subseteq {"wake", "check", "periodic"}
    BY DEF Shape
  <1>1. CASE \E kind \in {"wake", "periodic"} : Trigger(kind)
    <2>1. PICK kind \in {"wake", "periodic"} : Trigger(kind)
      BY <1>1
    <2>2. /\ job' = [job EXCEPT !.pc = "begin"] /\ pending' = pending \cup {kind}
          /\ Same /\ events' = events /\ job.pc = "off"
      BY <2>1 DEF Trigger, Wake, media, store, Quiet, ghosts, count
    <2>3. job' \in JobRec /\ job'.pc = "begin" /\ job'.legacy = job.legacy /\ job'.item = job.item
      BY <2>2 DEF Shape, JobRec, Stages
    <2>4. job.legacy = 0 /\ job.item = NoItem
      BY <2>2 DEF EngineInv, Control, Between, InHand
    <2> QED BY <1>0, <2>2, <2>3, <2>4, Halts
  <1>2. CASE Pause \/ StopCycle \/ Kill
    <2>1. job' = Off /\ pending' = {} /\ Same
      BY <1>2 DEF Pause, StopCycle, Kill, media, store, ghosts
    <2>2. events' = events \/ events' = events + 1
      BY <1>2 DEF Pause, StopCycle, Kill, Happens
    <2>3. events' \in Nat /\ events' >= events
      BY <1>0, <2>2
    <2> QED BY <2>1, <2>3, OffFacts, Halts
  <1>3. CASE Resume
    <2>1. job' = [Off EXCEPT !.pc = "begin"] /\ pending' = {"check"} /\ Same /\ events' = events
      BY <1>3 DEF Resume, media, store, Quiet, ghosts, count
    <2> QED BY <1>0, <2>1, OffFacts, Halts
  <1>4. CASE Hold \/ PathFailure \/ WriteFails \/ Finish
    <2>1. job.pc # "off" /\ Same
      BY <1>4 DEF Hold, PathFailure, WriteFails, Finish, media, store, Quiet, ghosts
    <2>2. End(TRUE) \/ End(FALSE)
      BY <1>4 DEF Hold, PathFailure, WriteFails, Finish
    <2>3. events' = events \/ events' = events + 1
      BY <1>4 DEF Hold, PathFailure, WriteFails, Finish, Happens, Quiet, count
    <2>4. events' \in Nat /\ events' >= events
      BY <1>0, <2>3
    <2>5. /\ job' \in JobRec /\ job'.pc \in {"off", "begin"} /\ job'.legacy = 0
          /\ job'.item = NoItem /\ pending' \subseteq {"wake", "check", "periodic"}
      BY <2>2, OffOrBegin
    <2> QED BY <2>1, <2>4, <2>5, Halts
  <1> QED BY <1>1, <1>2, <1>3, <1>4

-----------------------------------------------------------------------------
(* The order of MediaStore's generations.                                  *)

LEMMA BeforeOrder ==
    /\ \A a \in Nat \X Nat : ~Before(a, a)
    /\ \A a, b \in Nat \X Nat : a = b \/ Before(a, b) \/ Before(b, a)
    /\ \A a, b, c \in Nat \X Nat : Before(a, b) /\ Before(b, c) => Before(a, c)
  <1>1. \A a \in Nat \X Nat : a[1] \in Nat /\ a[2] \in Nat /\ a = <<a[1], a[2]>>
    OBVIOUS
  <1> QED BY <1>1 DEF Before

LEMMA FirstIs ==
    ASSUME Shape, NEW S \in SUBSET Photos, S # {}
    PROVE  First(S) \in S /\ \A q \in S : First(S) = q \/ Before(At(First(S)), At(q))
  <1> DEFINE gens == {photo[q].gen : q \in S}
  <1>1. gens \subseteq Nat /\ gens # {}
    BY ShapeFacts
  <1>2. PICK g \in gens : \A h \in gens : g <= h
    BY <1>1, LeastOf
  <1> DEFINE ids == {q \in S : photo[q].gen = g}
  <1>3. ids \subseteq Nat /\ ids # {}
    BY ShapeFacts
  <1>4. PICK f \in ids : \A q \in ids : f <= q
    BY <1>3, LeastOf
  <1>a. /\ f \in S /\ photo[f].gen = g
        /\ \A q \in S : g <= photo[q].gen /\ (photo[q].gen = g => f <= q)
    BY <1>2, <1>4
  <1>b. \A q \in S : /\ At(q)[1] = photo[q].gen /\ At(q)[2] = q
                     /\ q \in Nat /\ photo[q].gen \in Nat
    BY ShapeFacts
  <1>5. f \in S /\ \A q \in S : f = q \/ Before(At(f), At(q))
    BY <1>a, <1>b DEF Before
  <1> QED BY <1>5 DEF First

LEMMA LastIs ==
    ASSUME Shape, Clocks, NEW S \in SUBSET Photos, S # {}
    PROVE  \E f \in S : \A q \in S : f = q \/ Before(At(q), At(f))
  <1> DEFINE gens == {photo[q].gen : q \in S}
  <1>1. gens \subseteq Nat /\ gens # {} /\ \A h \in gens : h <= 1 + events
    BY ShapeFacts DEF Clocks
  <1>2. 1 + events \in Nat
    BY ShapeFacts
  <1>3. Max(gens) \in gens /\ \A h \in gens : Max(gens) >= h
    BY <1>1, <1>2, MaxIs
  <1>4. PICK g \in gens : \A h \in gens : g >= h
    BY <1>3
  <1> DEFINE ids == {q \in S : photo[q].gen = g}
  <1>5. ids \subseteq Nat /\ ids # {} /\ N \in Nat /\ \A q \in ids : q <= N
    <2>1. N \in Nat /\ \A q \in Photos : q \in Nat /\ q <= N
      BY PhoneEngineAssumption DEF Photos
    <2> QED BY <1>4, <2>1
  <1>6. Max(ids) \in ids /\ \A q \in ids : Max(ids) >= q
    BY <1>5, MaxIs
  <1>7. PICK f \in ids : \A q \in ids : f >= q
    BY <1>6
  <1>a. /\ f \in S /\ photo[f].gen = g
        /\ \A q \in S : g >= photo[q].gen /\ (photo[q].gen = g => f >= q)
    BY <1>4, <1>7
  <1>b. \A q \in S : /\ At(q)[1] = photo[q].gen /\ At(q)[2] = q
                     /\ q \in Nat /\ photo[q].gen \in Nat
    BY ShapeFacts
  <1>8. f \in S /\ \A q \in S : f = q \/ Before(At(q), At(f))
    BY <1>a, <1>b DEF Before
  <1> QED BY <1>8

(* Where G goes: past what needs no order, and no further.                 *)
LEMMA PastGIs ==
    ASSUME Shape, EngineInv, gcur # None
    PROVE  /\ PastG \in Nat \X Nat /\ PastG[1] <= 1 + events
           /\ \A q \in Beyond : Before(PastG, At(q)) \/ q \in Passed
           /\ \A q \in Passed : q \notin Wanted
           /\ \A q \in Wanted : Before(PastG, At(q))
  <1>1. /\ Beyond \subseteq Photos /\ Wanted \subseteq Beyond /\ Passed \subseteq Beyond
        /\ \A q \in Beyond : Before(gcur, At(q))
        /\ \A p \in Passed : \A q \in Wanted : Before(At(p), At(q))
    BY DEF Beyond, Wanted, Passed, InScope, Listed
  <1>2. \A q \in Photos : At(q) \in Nat \X Nat /\ At(q)[1] = photo[q].gen /\ photo[q].gen <= 1 + events
    BY ShapeFacts DEF EngineInv, Clocks
  <1>3. \A q \in Passed : q \notin Wanted
    BY <1>1, <1>2, BeforeOrder
  <1>4. gcur \in Nat \X Nat /\ gcur[1] <= 1 + events
    BY ShapeFacts DEF EngineInv, Clocks
  <1>5. CASE Passed = {}
    <2>1. PastG = gcur
      BY <1>5 DEF PastG
    <2> QED BY <1>1, <1>3, <1>4, <2>1
  <1>6. CASE Passed # {}
    <2>1. \E f \in Passed : \A q \in Passed : f = q \/ Before(At(q), At(f))
      BY <1>1, <1>6, LastIs DEF EngineInv
    <2>2. PICK f \in Passed : /\ \A q \in Passed : f = q \/ Before(At(q), At(f))
                              /\ PastG = At(f)
      BY <1>6, <2>1 DEF PastG
    <2>3. ASSUME NEW q \in Beyond PROVE Before(At(f), At(q)) \/ q \in Passed
      <3>1. CASE Before(At(q), At(f))
        <4>1. \A w \in Wanted : Before(At(q), At(w))
          BY <1>1, <1>2, <3>1, BeforeOrder
        <4> QED BY <4>1 DEF Passed
      <3>2. CASE At(q) = At(f)
        <4>1. q = f
          BY <1>1, <3>2 DEF At
        <4> QED BY <4>1
      <3> QED BY <1>1, <1>2, <3>1, <3>2, BeforeOrder
    <2>4. \A q \in Wanted : Before(At(f), At(q))
      BY <1>1
    <2> QED BY <1>1, <1>2, <1>3, <2>2, <2>3, <2>4
  <1> QED BY <1>5, <1>6

(* What a discovery leaves behind has an open order.                       *)
LEMMA LeftBehind ==
    ASSUME Shape, EngineInv, gcur # None, NEW q \in TodoTargets, q \notin Wanted
    PROVE  Led(q)
  <1>1. /\ q \in InScope /\ q \in Photos /\ q \notin skips /\ ~Has(q, photo[q].ver, Settled)
        /\ (Ahead(q) \/ Led(q))
    BY DEF EngineInv, AllFound, TodoTargets, IsTodo, InScope, Listed
  <1>2. CASE Ahead(q)
    <2>1. q \in Beyond
      BY <1>1, <1>2 DEF Ahead, Beyond
    <2>2. Has(q, photo[q].ver, Settled \cup Open)
      BY <1>1, <2>1 DEF Wanted, NeedsNewOrder
    <2>3. Has(q, photo[q].ver, Open)
      BY <1>1, <2>2 DEF Has
    <2> QED BY <2>3 DEF Led
  <1> QED BY <1>1, <1>2

LEMMA GMoves ==
    ASSUME Shape, EngineInv, gcur # None, gcur' = PastG,
           UNCHANGED <<photo, scope, orders, skips, scan, swept>>
    PROVE  /\ gcur' \in Nat \X Nat /\ gcur'[1] <= 1 + events /\ gcur' # None
           /\ \A p : Current(p)' = Current(p) /\ At(p)' = At(p) /\ (Led(p)' <=> Led(p))
           /\ \A p, ver, states : Has(p, ver, states)' <=> Has(p, ver, states)
           /\ TodoTargets' = TodoTargets /\ Listed' = Listed /\ Flying' = Flying
           /\ \A q \in TodoTargets : Ahead(q)' \/ Led(q)
  <1>1. /\ gcur' \in Nat \X Nat /\ gcur'[1] <= 1 + events /\ gcur' # None
        /\ \A q \in Wanted : Before(gcur', At(q))
    BY PastGIs, PhoneEngineAssumption
  <1>2. \A p : Current(p)' = Current(p) /\ At(p)' = At(p)
    BY DEF Current, At
  <1>3. \A p, ver, states : Has(p, ver, states)' <=> Has(p, ver, states)
    BY <1>2 DEF Has
  <1>4. InScope' = InScope /\ Listed' = Listed /\ Flying' = Flying
    BY DEF InScope, Listed, Flying
  <1>5. TodoTargets' = TodoTargets
    BY <1>3, <1>4 DEF TodoTargets, IsTodo
  <1>6. \A p : Led(p)' <=> Led(p)
    BY <1>3 DEF Led
  <1>7. \A q \in TodoTargets : Ahead(q)' \/ Led(q)
    BY <1>1, <1>2, LeftBehind DEF Ahead, Before
  <1> QED BY <1>1, <1>2, <1>3, <1>4, <1>5, <1>6, <1>7

-----------------------------------------------------------------------------
(* A cycle up to the first photo.                                          *)

LEMMA FreshFacts ==
    ASSUME Shape, NEW p \in Photos, NEW ver \in Nat, NEW origin \in {"scan", "new"},
           Fresh(p, ver, origin)
    PROVE  /\ job' \in JobRec /\ job'.pc = "lookup" /\ job'.legacy = job.legacy
           /\ job'.late = job.late /\ job'.item.order = 0 /\ job'.item.media = p
           /\ job'.item.ver = ver /\ job'.item.gen = photo[p].gen
           /\ job'.item.origin = origin
  <1> DEFINE item == [order |-> 0, media |-> p, ver |-> ver, gen |-> photo[p].gen,
                      origin |-> origin]
  <1>1. item \in ItemRec
    BY ShapeFacts, PhoneEngineAssumption DEF ItemRec, Photos
  <1>2. /\ item.order = 0 /\ item.media = p /\ item.ver = ver /\ item.gen = photo[p].gen
        /\ item.origin = origin
    OBVIOUS
  <1>3. job' = [job EXCEPT !.pc = "lookup", !.batch = << >>, !.item = item]
    BY DEF Fresh
  <1> HIDE DEF item
  <1> QED BY <1>1, <1>2, <1>3, EmptyBatch DEF Shape, JobRec, Stages

LEMMA KeepsWork == ASSUME Shape, EngineInv, Work PROVE Shape' /\ EngineInv'
  <1>1. /\ UNCHANGED <<photo, scope, orders, skips, scan, swept, events>>
        /\ gcur' = gcur \/ gcur' = PastG
        /\ job.pc = "work"
        /\ (job' = Go("pick") /\ pending' = pending) \/ End(FALSE)
    BY DEF Work, Quiet, media, ghosts, count
  <1>2. gcur # None /\ job.legacy = 0 /\ job.item = NoItem
    BY <1>1 DEF EngineInv, Control, Between, InHand
  <1>3. /\ gcur' \in Nat \X Nat /\ gcur'[1] <= 1 + events /\ gcur' # None
        /\ \A p : Current(p)' = Current(p) /\ (Led(p)' <=> Led(p))
        /\ TodoTargets' = TodoTargets /\ Flying' = Flying
        /\ \A q \in TodoTargets : Ahead(q)' \/ Led(q)
    <2>1. CASE gcur' = PastG
      BY <1>1, <1>2, <2>1, GMoves
    <2>2. CASE gcur' = gcur
      <3>1. gcur' \in Nat \X Nat /\ gcur'[1] <= 1 + events /\ gcur' # None
        BY <1>2, <2>2, ShapeFacts DEF EngineInv, Clocks
      <3>2. /\ \A p : Current(p)' = Current(p) /\ (Ahead(p)' <=> Ahead(p))
            /\ \A p, ver, states : Has(p, ver, states)' <=> Has(p, ver, states)
            /\ TodoTargets' = TodoTargets /\ Flying' = Flying
        BY <1>1, <2>2, SameStore
      <3>3. \A p : Led(p)' <=> Led(p)
        BY <1>1, <3>2 DEF Led
      <3> QED BY <1>2, <3>1, <3>2, <3>3 DEF EngineInv, AllFound
    <2> QED BY <1>1, <2>1, <2>2
  <1>4. /\ job' \in JobRec /\ job'.pc \in {"pick", "off", "begin"} /\ job'.legacy = 0
        /\ job'.item = NoItem /\ pending' \subseteq {"wake", "check", "periodic"}
    <2>1. CASE job' = Go("pick") /\ pending' = pending
      <3>1. "pick" \in Stages
        BY DEF Stages
      <3> QED BY <1>2, <2>1, <3>1, GoFacts DEF Shape
    <2> QED BY <1>1, <2>1, OffOrBegin
  <1>5. Shape'
    BY <1>1, <1>3, <1>4 DEF Shape
  <1>6. Clocks'
    <2>1. \A p \in Photos : photo'[p].gen <= 1 + events'
                            /\ (photo'[p].gen > 0 => photo'[p].ver > 0)
      BY <1>1 DEF EngineInv, Clocks
    <2>2. job'.item.gen <= 1 + events'
      BY <1>1, <1>4, NoItemFacts, ShapeFacts, NotBefore
    <2> QED BY <1>1, <1>3, <2>1, <2>2 DEF Clocks
  <1>7. Control'
    BY <1>3, <1>4 DEF Control, Between
  <1>8. RowsAreOld'
    BY <1>1 DEF EngineInv, RowsAreOld
  <1>9. Flights'
    <2>1. \A i \in Flying : i > 0
      BY CurrentFacts DEF Flying
    <2> QED BY <1>1, <1>3, <1>4, <2>1 DEF EngineInv, Flights, InHand, Flying
  <1>10. AllFound'
    BY <1>3 DEF AllFound
  <1> QED BY <1>4, <1>5, <1>6, <1>7, <1>8, <1>9, <1>10, Idles DEF InHand

(* Nothing interrupted is left behind.                                     *)
LEMMA NoneFlying ==
    ASSUME Shape, EngineInv, job.pc \in {"scanned", "discover", "retry"}
                             \/ (job.pc = "pick" /\ Legacy = {})
    PROVE  Flying = {}
  <1>1. CASE job.pc = "pick" /\ Legacy = {}
    <2>1. \A i \in Flying : i \in DOMAIN orders /\ i > job.legacy /\ i = Current(orders[i].media)
                            /\ orders[i].state = "transferring"
      BY <1>1 DEF EngineInv, Flights, Flying
    <2>2. \A i \in Flying : i \in Legacy
      BY <2>1 DEF Legacy, InStates
    <2> QED BY <1>1, <2>2
  <1> QED BY <1>1 DEF EngineInv, Flights

LEMMA KeepsDiscover == ASSUME Shape, EngineInv, Discover PROVE Shape' /\ EngineInv'
  <1>1. /\ UNCHANGED <<photo, scope, orders, skips, scan, swept, events, pending>>
        /\ gcur' = PastG
        /\ IF Wanted # {} THEN Fresh(First(Wanted), photo[First(Wanted)].ver, "new")
           ELSE job' = Go("retry")
        /\ job.pc \in {"pick", "discover"}
    BY DEF Discover, Quiet, media, ghosts, count, intent
  <1>2. gcur # None /\ job.item = NoItem /\ Flying = {}
    <2>1. Flying = {}
      BY NoneFlying DEF Discover
    <2> QED BY <1>1, <2>1 DEF EngineInv, Control, InHand
  <1>3. /\ gcur' \in Nat \X Nat /\ gcur'[1] <= 1 + events /\ gcur' # None
        /\ \A p : Current(p)' = Current(p) /\ At(p)' = At(p) /\ (Led(p)' <=> Led(p))
        /\ \A p, ver, states : Has(p, ver, states)' <=> Has(p, ver, states)
        /\ TodoTargets' = TodoTargets /\ Listed' = Listed /\ Flying' = {}
        /\ \A q \in TodoTargets : Ahead(q)' \/ Led(q)
    BY <1>1, <1>2, GMoves
  <1>4. RowsAreOld' /\ AllFound'
    BY <1>1, <1>3 DEF EngineInv, RowsAreOld, AllFound
  <1>5. /\ \A p \in Photos : photo'[p].gen <= 1 + events'
                            /\ (photo'[p].gen > 0 => photo'[p].ver > 0)
        /\ gcur'[1] <= 1 + events'
    BY <1>1, <1>3 DEF EngineInv, Clocks
  <1>6. CASE Wanted = {}
    <2>1. /\ job' \in JobRec /\ job'.pc = "retry" /\ job'.item = NoItem
      BY <1>1, <1>2, <1>6, GoFacts DEF Stages
    <2>2. Shape'
      BY <1>1, <1>3, <2>1 DEF Shape
    <2>3. Clocks'
      BY <1>1, <1>5, <2>1, NoItemFacts, ShapeFacts, NotBefore DEF Clocks
    <2>4. Control' /\ Flights'
      BY <1>3, <2>1 DEF Control, Between, Flights, InHand
    <2> QED BY <1>4, <2>1, <2>2, <2>3, <2>4, Idles DEF InHand
  <1>7. CASE Wanted # {}
    <2>1. PICK f : f = First(Wanted)
      OBVIOUS
    <2>2. Wanted \in SUBSET Photos
      BY DEF Wanted, Beyond, InScope, Listed
    <2>3. f \in Wanted /\ \A q \in Wanted : f = q \/ Before(At(f), At(q))
      BY <1>7, <2>1, <2>2, FirstIs
    <2>4. /\ f \in Photos /\ f \in Listed /\ photo[f].gen > 0 /\ photo[f].ver \in Nat
          /\ photo[f].gen \in Nat
      BY <2>3, ShapeFacts DEF Wanted, Beyond, InScope, Listed
    <2>5. /\ job' \in JobRec /\ job'.pc = "lookup" /\ job'.item.order = 0
          /\ job'.item.media = f /\ job'.item.ver = photo[f].ver
          /\ job'.item.gen = photo[f].gen /\ job'.item.origin = "new"
      BY <1>1, <1>7, <2>1, <2>4, FreshFacts
    <2>6. Shape'
      BY <1>1, <1>3, <2>5 DEF Shape
    <2>7. Clocks'
      BY <1>1, <1>5, <2>4, <2>5 DEF Clocks
    <2>8. Control' /\ Flights'
      BY <1>3, <2>5 DEF Control, Between, Flights, InHand
    <2>9. ItemIsRow'
      <3>1. photo[f].ver > 0 /\ photo[f].ver <= photo[f].ver
        BY <2>4 DEF EngineInv, Clocks
      <3> QED BY <1>1, <2>4, <2>5, <3>1 DEF ItemIsRow
    <2>10. NewItem'
      <3>1. Before(gcur', At(f)) /\ At(f) = <<photo[f].gen, f>>
        BY <1>1, <1>2, <2>3, PastGIs DEF At
      <3>2. ASSUME NEW q \in TodoTargets, q # f, ~Before(At(f), At(q)) PROVE Led(q)
        BY <1>2, <2>3, <3>2, LeftBehind
      <3>3. photo[f].gen >= photo[f].gen
        BY <2>4
      <3> HIDE DEF Before
      <3>4. /\ Before(gcur', <<photo'[f].gen, f>>)
            /\ f \in Listed' => /\ photo'[f].gen >= photo[f].gen
            /\ \A q \in TodoTargets' :
                 q # f /\ ~Before(<<photo[f].gen, f>>, At(q)') => Led(q)'
        BY <1>1, <1>3, <3>1, <3>2, <3>3
      <3> QED BY <1>1, <2>5, <3>4 DEF NewItem, Before
    <2>11. ScanItem' /\ Batched' /\ CountedZero'
      BY <2>5 DEF ScanItem, Batched, CountedZero
    <2> QED BY <1>4, <2>6, <2>7, <2>8, <2>9, <2>10, <2>11 DEF EngineInv
  <1> QED BY <1>6, <1>7

(* Orders change where they are, and none of them opens or closes.         *)
LEMMA SameSides ==
    ASSUME Shape, UNCHANGED <<photo, scope, skips>>,
           orders' \in Seq(OrderRec), Len(orders') = Len(orders),
           \A i \in 1..Len(orders) :
             /\ orders'[i].media = orders[i].media /\ orders'[i].ver = orders[i].ver
             /\ orders'[i].state \in Open <=> orders[i].state \in Open
             /\ orders'[i].state \in Settled <=> orders[i].state \in Settled
    PROVE  /\ \A p : Current(p)' = Current(p)
           /\ \A p, ver : /\ Has(p, ver, Open)' <=> Has(p, ver, Open)
                          /\ Has(p, ver, Settled)' <=> Has(p, ver, Settled)
           /\ TodoTargets' = TodoTargets
  <1>1. /\ \A p : Current(p)' = Current(p)
        /\ \A p, ver, states : Has(p, ver, states)' <=>
             /\ Current(p) > 0 /\ orders[Current(p)].ver = ver
             /\ orders'[Current(p)].state \in states
    BY InPlace
  <1>2. \A p : Current(p) \in 0..Len(orders)
    BY CurrentFacts
  <1>3. \A p, ver : /\ Has(p, ver, Open)' <=> Has(p, ver, Open)
                    /\ Has(p, ver, Settled)' <=> Has(p, ver, Settled)
    BY <1>1, <1>2 DEF Has
  <1>4. InScope' = InScope
    BY DEF InScope, Listed
  <1>5. TodoTargets' = TodoTargets
    BY <1>3, <1>4 DEF TodoTargets, IsTodo
  <1> QED BY <1>1, <1>3, <1>5

LEMMA BeginShape ==
    ASSUME Shape, EngineInv, Begin
    PROVE  /\ job' \in JobRec /\ job'.pc = "count" /\ job'.item = NoItem /\ job'.legacy = 0
           /\ UNCHANGED <<photo, scope, skips, events, swept>> /\ pending' = {}
           /\ orders' \in Seq(OrderRec) /\ Len(orders') = Len(orders)
           /\ \A i \in 1..Len(orders) : orders'[i].media = orders[i].media
                /\ orders'[i].ver = orders[i].ver /\ orders'[i].state = orders[i].state
           /\ gcur' \in Nat \X Nat /\ gcur'[1] <= 1 + events
           /\ \/ gcur # None /\ UNCHANGED <<gcur, scan>>
              \/ scan' = Dirty
  <1> DEFINE rec == pending \cap {"check", "periodic"} # {}
             ask == "periodic" \in pending
  <1>1. /\ job.pc = "begin"
        /\ job' = [job EXCEPT !.pc = "count", !.reconcile = rec, !.ask = ask]
        /\ UNCHANGED <<photo, scope, skips, events, swept>> /\ pending' = {}
        /\ IF gcur = None
           THEN /\ gcur' = <<Max({0} \cup {photo[p].gen : p \in Photos}), N>>
                /\ scan' = Dirty
           ELSE UNCHANGED <<gcur, scan>>
        /\ orders' = [i \in DOMAIN orders |->
               IF /\ rec /\ i \in InStates({"confirmed"}, 0)
                  /\ orders[i].media \in scope
               THEN [orders[i] EXCEPT !.gone = orders[i].media \notin Listed]
               ELSE orders[i]]
    BY DEF Begin, media, Quiet, count, ghosts
  <1>2. job.item = NoItem /\ job.legacy = 0
    BY <1>1 DEF EngineInv, Control, Between, InHand
  <1>3. /\ job' \in JobRec /\ job'.pc = "count" /\ job'.item = job.item
        /\ job'.legacy = job.legacy
    <2>0. PICK b \in BOOLEAN : b = rec
      OBVIOUS
    <2>a. ask \in BOOLEAN
      OBVIOUS
    <2> HIDE DEF ask
    <2>1. PICK c \in BOOLEAN : c = ask
      BY <2>a
    <2>2. job' = [job EXCEPT !.pc = "count", !.reconcile = b, !.ask = c]
      BY <1>1, <2>0, <2>1
    <2> HIDE DEF rec
    <2> QED BY <2>2 DEF Shape, JobRec, Stages
  <1> HIDE DEF ask, rec
  <1>4. /\ orders' \in Seq(OrderRec) /\ Len(orders') = Len(orders)
        /\ \A i \in 1..Len(orders) : orders'[i].media = orders[i].media
             /\ orders'[i].ver = orders[i].ver /\ orders'[i].state = orders[i].state
    <2>1. /\ orders \in Seq(OrderRec) /\ DOMAIN orders = 1..Len(orders) /\ Len(orders) \in Nat
          /\ \A i \in 1..Len(orders) : orders[i] \in OrderRec
      BY CurrentFacts DEF Shape
    <2>2. \A i \in 1..Len(orders) : orders'[i] \in OrderRec
             /\ orders'[i].media = orders[i].media
             /\ orders'[i].ver = orders[i].ver /\ orders'[i].state = orders[i].state
      <3> SUFFICES ASSUME NEW i \in 1..Len(orders)
                   PROVE  orders'[i] \in OrderRec
             /\ orders'[i].media = orders[i].media
             /\ orders'[i].ver = orders[i].ver /\ orders'[i].state = orders[i].state
        OBVIOUS
      <3>1. PICK b \in BOOLEAN : b = (orders[i].media \notin Listed)
        OBVIOUS
      <3>2. orders'[i] = [orders[i] EXCEPT !.gone = b] \/ orders'[i] = orders[i]
        BY <1>1, <2>1, <3>1
      <3> QED BY <2>1, <3>2 DEF OrderRec
    <2>3. \E n \in Nat : DOMAIN orders' = 1..n
      BY <1>1, <2>1
    <2>4. orders' = [i \in 1..Len(orders) |-> orders'[i]]
      BY <1>1, <2>1
    <2>5. orders' \in Seq(OrderRec) /\ Len(orders') = Len(orders)
      BY <2>1, <2>2, <2>4
    <2> QED BY <2>2, <2>5
  <1>5. /\ gcur' \in Nat \X Nat /\ gcur'[1] <= 1 + events
        /\ \/ gcur # None /\ UNCHANGED <<gcur, scan>>
           \/ scan' = Dirty
    <2>1. CASE gcur = None
      <3> DEFINE gens == {0} \cup {photo[p].gen : p \in Photos}
      <3>1. /\ gens \subseteq Nat /\ gens # {} /\ \A g \in gens : g <= 1 + events
            /\ 1 + events \in Nat
        BY ShapeFacts DEF EngineInv, Clocks
      <3>2. Max(gens) \in gens
        BY <3>1, MaxIs
      <3>3. gcur' = <<Max(gens), N>> /\ scan' = Dirty
        BY <1>1, <2>1
      <3> HIDE DEF gens
      <3> QED BY <3>1, <3>2, <3>3, ShapeFacts
    <2>2. CASE gcur # None
      BY <1>1, <2>2, ShapeFacts DEF EngineInv, Clocks
    <2> QED BY <2>1, <2>2
  <1> QED BY <1>1, <1>2, <1>3, <1>4, <1>5

LEMMA KeepsBegin == ASSUME Shape, EngineInv, Begin PROVE Shape' /\ EngineInv'
  <1>1. /\ job' \in JobRec /\ job'.pc = "count" /\ job'.item = NoItem /\ job'.legacy = 0
        /\ UNCHANGED <<photo, scope, skips, events, swept>> /\ pending' = {}
        /\ orders' \in Seq(OrderRec) /\ Len(orders') = Len(orders)
        /\ \A i \in 1..Len(orders) : orders'[i].media = orders[i].media
             /\ orders'[i].ver = orders[i].ver /\ orders'[i].state = orders[i].state
        /\ gcur' \in Nat \X Nat /\ gcur'[1] <= 1 + events
        /\ \/ gcur # None /\ UNCHANGED <<gcur, scan>>
           \/ scan' = Dirty
    BY BeginShape
  <1>2. /\ \A p : Current(p)' = Current(p)
        /\ \A p, ver : Has(p, ver, Open)' <=> Has(p, ver, Open)
        /\ TodoTargets' = TodoTargets
    BY <1>1, SameSides
  <1>3. gcur' # None
    BY <1>1, PhoneEngineAssumption
  <1>4. Shape'
    <2>1. Dirty \in [dirty: BOOLEAN, cursor: Nat]
      BY DEF Dirty
    <2>2. scan' = scan \/ scan' = Dirty
      BY <1>1
    <2>3. scan' \in [dirty: BOOLEAN, cursor: Nat]
      BY <2>1, <2>2 DEF Shape
    <2> QED BY <1>1, <2>3 DEF Shape
  <1>5. Clocks'
    BY <1>1, NoItemFacts, ShapeFacts, NotBefore DEF EngineInv, Clocks
  <1>6. Control'
    BY <1>1, <1>3 DEF Control
  <1>7. DOMAIN orders' = 1..Len(orders) /\ DOMAIN orders = 1..Len(orders)
    BY <1>1, CurrentFacts
  <1>8. RowsAreOld'
    BY <1>1, <1>7 DEF EngineInv, RowsAreOld
  <1>9. Flights'
    <2>1. Flying' = Flying
      BY <1>1, <1>7 DEF Flying
    <2>2. \A i \in Flying : orders'[i].media = orders[i].media
      BY <1>1, <1>7 DEF Flying
    <2> QED BY <1>1, <1>2, <2>1, <2>2 DEF EngineInv, Flights, InHand
  <1>10. AllFound'
    <2> SUFFICES ASSUME NEW q \in TodoTargets' PROVE Ahead(q)' \/ Led(q)'
      BY DEF AllFound
    <2>1. q \in Photos
      BY DEF TodoTargets, InScope, Listed
    <2>2. CASE gcur # None /\ UNCHANGED <<gcur, scan>>
      BY <1>1, <1>2, <2>2 DEF EngineInv, AllFound, Ahead, Before, At, Led
    <2>3. CASE scan' = Dirty
      BY <2>1, <2>3, ShapeFacts DEF Dirty, Led
    <2> QED BY <1>1, <2>2, <2>3
  <1> QED BY <1>1, <1>4, <1>5, <1>6, <1>8, <1>9, <1>10, Idles DEF InHand

(* What is overlooked by a cycle that is late is noted.                    *)
LEMMA SweptFound ==
    ASSUME Shape, swept' = swept \cup Overlooked', gcur' # None
    PROVE  \A q \in TodoTargets' :
             \/ Ahead(q)' \/ Led(q)'
             \/ job'.item.media = q /\ job'.item.ver = photo'[q].ver
  <1> SUFFICES ASSUME NEW q \in TodoTargets', q \notin swept',
                      ~(job'.item.media = q /\ job'.item.ver = photo'[q].ver)
               PROVE  Ahead(q)' \/ Led(q)'
    BY DEF Led
  <1>1. q \notin Overlooked'
    OBVIOUS
  <1>2. Overlooked' = {p \in TodoTargets' : ~Found(p)'}
    BY DEF Overlooked
  <1>3. Found(q)'
    BY <1>1, <1>2
  <1> QED BY <1>3 DEF Found, Beyond, Ahead, Led

LEMMA SweepGrows ==
    ASSUME Shape, Sweep
    PROVE  /\ swept \subseteq swept' /\ (scope' \subseteq Photos => swept' \subseteq Photos)
           /\ job.late => swept' = swept \cup Overlooked'
  <1>1. Overlooked' \subseteq Photos
    BY DEF Overlooked, TodoTargets, InScope, Listed, Photos
  <1> QED BY <1>1 DEF Sweep, Shape

LEMMA KeepsCount == ASSUME Shape, EngineInv, Count PROVE Shape' /\ EngineInv'
  <1> DEFINE none == CountTodo = {}
  <1>1. /\ job.pc = "count"
        /\ job' = [job EXCEPT !.pc = "counted", !.zero = none, !.late = FALSE]
        /\ UNCHANGED <<photo, scope, orders, skips, gcur, scan, swept, events, pending>>
    BY DEF Count, Quiet, media, store, intent, count, ghosts
  <1>2. PICK b \in BOOLEAN : b = none
    OBVIOUS
  <1>3. job' = [job EXCEPT !.pc = "counted", !.zero = b, !.late = FALSE]
    BY <1>1, <1>2
  <1> HIDE DEF none
  <1>4. /\ job' \in JobRec /\ job'.pc = "counted" /\ job'.item = job.item
        /\ job'.legacy = job.legacy /\ job'.zero = b
    BY <1>3 DEF Shape, JobRec, Stages
  <1>5. job.item = NoItem /\ job.legacy = 0 /\ gcur # None
    BY <1>1 DEF EngineInv, Control, Between, InHand
  <1>6. /\ \A p : Current(p)' = Current(p) /\ Ahead(p)' = Ahead(p)
        /\ TodoTargets' = TodoTargets /\ Flying' = Flying /\ \A p : Led(p) => Led(p)'
    BY <1>1, SameStore
  <1>7. Shape' /\ RowsAreOld' /\ AllFound'
    BY <1>1, <1>4, <1>6 DEF Shape, EngineInv, RowsAreOld, AllFound
  <1>8. Clocks' /\ Control'
    BY <1>1, <1>4, <1>5 DEF EngineInv, Clocks, Control
  <1>9. Flights'
    BY <1>1, <1>4, <1>6 DEF EngineInv, Flights, InHand, Flying
  <1>10. CountedZero'
    <2> SUFFICES ASSUME job'.zero, scan'.dirty PROVE TodoTargets' = {}
      BY DEF CountedZero
    <2>1. CountTodo = {}
      BY <1>2, <1>4 DEF none
    <2> QED BY <1>1, <1>6, <2>1 DEF CountTodo
  <1>11. ItemIsRow' /\ NewItem' /\ ScanItem' /\ Batched'
    BY <1>4 DEF ItemIsRow, NewItem, ScanItem, Batched, InHand
  <1> QED BY <1>7, <1>8, <1>9, <1>10, <1>11 DEF EngineInv

LEMMA KeepsCounted == ASSUME Shape, EngineInv, Counted PROVE Shape' /\ EngineInv'
  <1>1. /\ job.pc = "counted" /\ Sweep
        /\ scan' = IF job.zero /\ scan.dirty THEN Clean ELSE scan
        /\ job' = [Go("work") EXCEPT !.zero = FALSE]
        /\ UNCHANGED <<photo, scope, orders, skips, gcur, events, pending>>
    BY DEF Counted, media, intent, count
  <1>2. /\ Go("work") \in JobRec /\ Go("work").pc = "work" /\ Go("work").item = job.item
        /\ Go("work").legacy = job.legacy
    BY DEF Go, Shape, JobRec, Stages
  <1>3. /\ job' \in JobRec /\ job'.pc = "work" /\ job'.item = job.item
        /\ job'.legacy = job.legacy
    <2> DEFINE g == Go("work")
    <2>1. job' = [g EXCEPT !.zero = FALSE] /\ g \in JobRec
      BY <1>1, <1>2
    <2>2. g.pc = "work" /\ g.item = job.item /\ g.legacy = job.legacy
      BY <1>2
    <2> HIDE DEF g
    <2> QED BY <2>1, <2>2 DEF JobRec
  <1>4. job.item = NoItem /\ job.legacy = 0 /\ gcur # None
    BY <1>1 DEF EngineInv, Control, Between, InHand
  <1>5. swept \subseteq swept' /\ swept' \subseteq Photos /\ (job.late => swept' = swept \cup Overlooked')
    BY <1>1, SweepGrows DEF Shape
  <1>6. Shape'
    BY <1>1, <1>3, <1>5 DEF Shape, Clean
  <1>7. /\ \A p : Current(p)' = Current(p) /\ Ahead(p)' = Ahead(p)
        /\ \A p, ver, states : Has(p, ver, states)' <=> Has(p, ver, states)
        /\ InScope' = InScope /\ Flying' = Flying
    BY <1>1 DEF Current, Has, InScope, Listed, Flying, Ahead, Before, At
  <1>8. TodoTargets' = TodoTargets
    BY <1>1, <1>7 DEF TodoTargets, IsTodo
  <1>9. RowsAreOld' /\ Clocks' /\ Control'
    BY <1>1, <1>3, <1>4 DEF EngineInv, Clocks, Control, RowsAreOld
  <1>10. Flights'
    BY <1>1, <1>3, <1>7 DEF EngineInv, Flights, InHand, Flying
  <1>11. AllFound'
    <2>1. CASE job.late
      <3>1. \A q \in TodoTargets' : job'.item.media # q
        BY <1>3, <1>4, NoItemFacts, ShapeFacts DEF TodoTargets, InScope, Listed
      <3> QED BY <1>1, <1>4, <1>5, <2>1, <3>1, SweptFound DEF AllFound
    <2>2. CASE ~job.late /\ job.zero /\ scan.dirty
      BY <1>1, <1>7, <1>8, <2>2 DEF EngineInv, CountedZero, AllFound
    <2>3. CASE ~(job.zero /\ scan.dirty)
      BY <1>1, <1>5, <1>7, <1>8, <2>3 DEF EngineInv, AllFound, Led
    <2> QED BY <2>1, <2>2, <2>3
  <1> QED BY <1>3, <1>6, <1>9, <1>10, <1>11, Idles DEF InHand

-----------------------------------------------------------------------------
(* What the invariant does not see.                                        *)

LEMMA Unseen ==
    ASSUME Shape, EngineInv,
           UNCHANGED <<photo, scope, orders, skips, gcur, scan, job, events, pending, swept>>
    PROVE  Shape' /\ EngineInv'
  <1>1. /\ \A p : Current(p)' = Current(p) /\ At(p)' = At(p) /\ Ahead(p)' = Ahead(p)
        /\ \A p, ver, states : Has(p, ver, states)' <=> Has(p, ver, states)
        /\ TodoTargets' = TodoTargets /\ InScope' = InScope /\ Listed' = Listed
        /\ Flying' = Flying
        /\ \A p : Led(p) => Led(p)'
    BY SameStore
  <1>2. Shape' /\ Clocks' /\ Control' /\ RowsAreOld' /\ ItemIsRow' /\ Flights'
    BY <1>1 DEF Shape, EngineInv, Clocks, Control, RowsAreOld, ItemIsRow, Flights, Flying
  <1>3. NewItem'
    BY <1>1 DEF EngineInv, NewItem, Before
  <1>4. ScanItem'
    BY <1>1 DEF EngineInv, ScanItem
  <1>5. Batched' /\ CountedZero' /\ AllFound'
    BY <1>1 DEF EngineInv, Batched, CountedZero, AllFound
  <1> QED BY <1>2, <1>3, <1>4, <1>5 DEF EngineInv

(* The user skips what is left: the open orders are closed, and the photos *)
(* are not left to do any more.                                            *)
LEMMA KeepsCancel == ASSUME Shape, EngineInv, CancelRemaining PROVE Shape' /\ EngineInv'
  <1> DEFINE chosen == {t \in dialog : ~Has(t[1], t[2], Settled)}
             names  == {t[1] : t \in chosen}
  <1>1. /\ skips' = skips \cup names /\ job' = Off /\ pending' = {}
        /\ orders' = [i \in DOMAIN orders |->
               IF i \in InStates(Open, 0) /\ orders[i].media \in names
               THEN [orders[i] EXCEPT !.state = "skipped"] ELSE orders[i]]
        /\ UNCHANGED <<photo, scope, gcur, scan, swept, events>>
    BY DEF CancelRemaining, media, Quiet, count, ghosts
  <1> HIDE DEF chosen, names
  <1>2. /\ orders' \in Seq(OrderRec) /\ Len(orders') = Len(orders)
        /\ \A i \in 1..Len(orders) :
             /\ orders'[i].media = orders[i].media /\ orders'[i].ver = orders[i].ver
             /\ orders'[i].state = orders[i].state
                \/ (orders'[i].state = "skipped" /\ orders[i].media \in names)
    <2>1. /\ orders \in Seq(OrderRec) /\ DOMAIN orders = 1..Len(orders) /\ Len(orders) \in Nat
          /\ \A i \in 1..Len(orders) : orders[i] \in OrderRec
      BY CurrentFacts DEF Shape
    <2>2. \A i \in 1..Len(orders) :
             /\ orders'[i] \in OrderRec
             /\ orders'[i].media = orders[i].media /\ orders'[i].ver = orders[i].ver
             /\ orders'[i].state = orders[i].state
                \/ (orders'[i].state = "skipped" /\ orders[i].media \in names)
      BY <1>1, <2>1 DEF OrderRec, States
    <2>3. orders' = [i \in 1..Len(orders) |-> orders'[i]]
      BY <1>1, <2>1
    <2>4. orders' \in Seq(OrderRec) /\ Len(orders') = Len(orders)
      BY <2>1, <2>2, <2>3
    <2> QED BY <2>2, <2>4
  <1>3. /\ \A p : Current(p)' = Current(p)
        /\ \A p, ver, states : Has(p, ver, states)' <=>
             /\ Current(p) > 0 /\ orders[Current(p)].ver = ver
             /\ orders'[Current(p)].state \in states
    BY <1>2, InPlace
  <1>4. /\ \A p : Current(p) \in 0..Len(orders) /\ (Current(p) # 0 => orders[Current(p)].media = p)
        /\ DOMAIN orders = 1..Len(orders) /\ DOMAIN orders' = 1..Len(orders)
    BY <1>2, CurrentFacts
  <1>5. ASSUME NEW p, p \notin names, NEW ver, NEW states
        PROVE  Has(p, ver, states)' <=> Has(p, ver, states)
    <2>1. Current(p) # 0 => orders'[Current(p)].state = orders[Current(p)].state
      BY <1>2, <1>4, <1>5
    <2>2. Has(p, ver, states) <=>
             /\ Current(p) > 0 /\ orders[Current(p)].ver = ver
             /\ orders[Current(p)].state \in states
      BY DEF Has
    <2>3. Current(p) > 0 => Current(p) # 0
      BY <1>4
    <2> QED BY <1>3, <2>1, <2>2, <2>3
  <1>6. \A q \in TodoTargets' : q \in TodoTargets /\ q \notin names
    <2> SUFFICES ASSUME NEW q \in TodoTargets' PROVE q \in TodoTargets /\ q \notin names
      OBVIOUS
    <2>1. q \in InScope /\ q \notin skips /\ q \notin names /\ ~Has(q, photo[q].ver, Settled)'
      BY <1>1 DEF TodoTargets, IsTodo, InScope, Listed
    <2>2. ~Has(q, photo[q].ver, Settled)
      BY <1>1, <1>5, <2>1
    <2> QED BY <2>1, <2>2 DEF TodoTargets, IsTodo
  <1>7. Shape'
    BY <1>1, <1>2, OffFacts DEF Shape
  <1>8. Clocks' /\ Control'
    <2>1. job'.item.gen <= 1 + events'
      BY <1>1, OffFacts, NoItemFacts, ShapeFacts, NotBefore
    <2> QED BY <1>1, <2>1, OffFacts DEF EngineInv, Clocks, Control
  <1>9. RowsAreOld'
    BY <1>1, <1>2, <1>4 DEF EngineInv, RowsAreOld
  <1>10. Flights'
    <2>1. \A i \in Flying' : i \in Flying /\ orders'[i].media = orders[i].media
      BY <1>2, <1>4 DEF Flying
    <2> QED BY <1>1, <1>3, <2>1, OffFacts DEF EngineInv, Flights, InHand
  <1>11. AllFound'
    <2> SUFFICES ASSUME NEW q \in TodoTargets' PROVE gcur' = None \/ Ahead(q)' \/ Led(q)'
      BY DEF AllFound
    <2>1. q \in TodoTargets /\ q \notin names
      BY <1>6
    <2>2. Has(q, photo[q].ver, Open)' <=> Has(q, photo[q].ver, Open)
      BY <1>1, <1>5, <2>1
    <2> QED BY <1>1, <2>1, <2>2 DEF EngineInv, AllFound, Ahead, Before, At, Led
  <1> QED BY <1>1, <1>7, <1>8, <1>9, <1>10, <1>11, OffFacts, Idles DEF InHand

LEMMA KeepsRetryFailed == ASSUME Shape, EngineInv, RetryFailed PROVE Shape' /\ EngineInv'
  <1>1. /\ orders' = [i \in DOMAIN orders |->
               IF i \in InStates({"failed"}, 0)
               THEN [orders[i] EXCEPT !.state = "pending"] ELSE orders[i]]
        /\ Wake("check", job) /\ events' = events + 1
        /\ UNCHANGED <<photo, scope, skips, gcur, scan, swept>>
    BY DEF RetryFailed, Happens, media, ghosts
  <1>2. /\ orders \in Seq(OrderRec) /\ DOMAIN orders = 1..Len(orders) /\ Len(orders) \in Nat
        /\ \A i \in 1..Len(orders) : orders[i] \in OrderRec
        /\ \A p : Current(p) \in 0..Len(orders)
    BY CurrentFacts DEF Shape
  <1>3. \A i \in 1..Len(orders) :
             /\ orders'[i] \in OrderRec
             /\ orders'[i].media = orders[i].media /\ orders'[i].ver = orders[i].ver
             /\ orders'[i].hash = orders[i].hash
             /\ orders'[i].state = orders[i].state
                \/ (orders'[i].state = "pending" /\ orders[i].state = "failed")
    BY <1>1, <1>2 DEF OrderRec, States, Open, InStates
  <1>4. orders' = [i \in 1..Len(orders) |-> orders'[i]]
    BY <1>1, <1>2
  <1>5. orders' \in Seq(OrderRec) /\ Len(orders') = Len(orders) /\ DOMAIN orders' = 1..Len(orders)
    <2>1. \A i \in 1..Len(orders) : orders'[i] \in OrderRec
      BY <1>3
    <2>2. Len(orders) \in Nat
      BY <1>2
    <2> QED BY <1>4, <2>1, <2>2
  <1>6. \A i \in 1..Len(orders) :
             /\ orders'[i].state \in Open <=> orders[i].state \in Open
             /\ orders'[i].state \in Settled <=> orders[i].state \in Settled
             /\ orders'[i].state = "transferring" <=> orders[i].state = "transferring"
    BY <1>3 DEF Open, Settled
  <1>7. /\ \A p : Current(p)' = Current(p)
        /\ \A p, ver : Has(p, ver, Open)' <=> Has(p, ver, Open)
        /\ TodoTargets' = TodoTargets
    BY <1>1, <1>3, <1>5, <1>6, SameSides
  <1>8. /\ Flying' = Flying /\ Listed' = Listed /\ InScope' = InScope
        /\ \A p : At(p)' = At(p) /\ (Ahead(p)' <=> Ahead(p))
        /\ \A i \in Flying : orders'[i].media = orders[i].media
    BY <1>1, <1>2, <1>3, <1>5, <1>6 DEF Flying, Listed, InScope, At, Ahead, Before
  <1>9. \A p \in Photos : Led(p)' <=> Led(p)
    BY <1>1, <1>7 DEF Led
  <1>10. /\ pending' \subseteq {"wake", "check", "periodic"}
         /\ job' = job \/ (job.pc = "off" /\ job' = [job EXCEPT !.pc = "begin"])
    BY <1>1 DEF Wake, Shape
  <1>11. Shape' /\ job'.legacy = job.legacy /\ job'.item = job.item /\ job'.batch = job.batch
         /\ (job'.pc = job.pc \/ (job.pc = "off" /\ job'.pc = "begin"))
         /\ job'.late = job.late /\ job'.zero = job.zero /\ job'.hash = job.hash
    <2>1. "begin" \in Stages
      BY DEF Stages
    <2>2. job' \in JobRec
      BY <1>10, <2>1 DEF Shape, JobRec
    <2>3. events' \in Nat
      BY <1>1, ShapeFacts
    <2>4. job'.legacy = job.legacy /\ job'.item = job.item /\ job'.batch = job.batch
         /\ (job'.pc = job.pc \/ (job.pc = "off" /\ job'.pc = "begin"))
         /\ job'.late = job.late /\ job'.zero = job.zero /\ job'.hash = job.hash
      BY <1>10 DEF Shape, JobRec
    <2> QED BY <1>1, <1>5, <1>10, <2>2, <2>3, <2>4 DEF Shape
  <1>12. Clocks' /\ Control' /\ RowsAreOld'
    <2>1. Clocks'
      <3>1. \A p \in Photos : photo'[p].gen <= 1 + events'
                               /\ (photo'[p].gen > 0 => photo'[p].ver > 0)
        BY <1>1, ShapeFacts DEF EngineInv, Clocks
      <3>2. gcur' # None => gcur'[1] <= 1 + events'
        BY <1>1, ShapeFacts DEF EngineInv, Clocks
      <3>3. job'.item.gen <= 1 + events'
        BY <1>1, <1>11, ShapeFacts DEF EngineInv, Clocks
      <3> QED BY <3>1, <3>2, <3>3 DEF Clocks
    <2>2. Control'
      BY <1>1, <1>11 DEF EngineInv, Control, Between, InHand
    <2>3. RowsAreOld'
      BY <1>1, <1>2, <1>3, <1>5 DEF EngineInv, RowsAreOld
    <2> QED BY <2>1, <2>2, <2>3
  <1>13. Flights'
    BY <1>7, <1>8, <1>11 DEF EngineInv, Flights, InHand
  <1>14. ItemIsRow'
    <2> SUFFICES ASSUME job'.pc \in InHand PROVE ItemIsRow'
      BY DEF ItemIsRow
    <2>1. job.pc \in InHand /\ job'.pc = job.pc
      BY <1>11 DEF InHand
    <2>2. job.item.order # 0 => job.item.order \in 1..Len(orders)
      BY <1>2, <2>1 DEF EngineInv, ItemIsRow
    <2>3. job.pc = "deliver" => job.item.order # 0
      BY DEF EngineInv, ItemIsRow, InHand
    <2>4. job.item.order # 0 =>
           /\ orders'[job.item.order].media = orders[job.item.order].media
           /\ orders'[job.item.order].ver = orders[job.item.order].ver
           /\ orders'[job.item.order].hash = orders[job.item.order].hash
           /\ orders'[job.item.order].state \in Open <=> orders[job.item.order].state \in Open
           /\ orders'[job.item.order].state = "transferring"
                <=> orders[job.item.order].state = "transferring"
      <3> SUFFICES ASSUME job.item.order # 0, NEW i \in 1..Len(orders), i = job.item.order
                   PROVE  /\ orders'[i].media = orders[i].media
                          /\ orders'[i].ver = orders[i].ver
                          /\ orders'[i].hash = orders[i].hash
                          /\ orders'[i].state \in Open <=> orders[i].state \in Open
                          /\ orders'[i].state = "transferring" <=> orders[i].state = "transferring"
        BY <2>2
      <3> QED BY <1>3, <1>6
    <2>5. /\ job.item.media \in Photos /\ job.item.ver > 0
          /\ job.item.ver <= photo'[job.item.media].ver
          /\ job.item.order = 0 =>
               job.pc \in {"lookup", "import"} /\ job.item.origin \in {"new", "scan"}
      BY <1>1, <2>1 DEF EngineInv, ItemIsRow
    <2>6. ASSUME job.item.order # 0
          PROVE  /\ job.item.order = Current(job.item.media)'
                 /\ orders'[job.item.order].media = job.item.media
                 /\ orders'[job.item.order].ver = job.item.ver
                 /\ job.pc # "reinsert" => orders'[job.item.order].state \in Open
                 /\ job.pc = "deliver" => orders'[job.item.order].state = "transferring"
                                          /\ orders'[job.item.order].hash = job.hash
                 /\ job.pc # "deliver" => job.item.origin = "order"
                 /\ job.item.origin \in {"new", "scan", "order"}
      <3>1. /\ job.item.order = Current(job.item.media)
            /\ orders[job.item.order].media = job.item.media
            /\ orders[job.item.order].ver = job.item.ver
            /\ job.pc # "reinsert" => orders[job.item.order].state \in Open
            /\ job.pc = "deliver" => orders[job.item.order].state = "transferring"
                                     /\ orders[job.item.order].hash = job.hash
            /\ job.pc # "deliver" => job.item.origin = "order"
            /\ job.item.origin \in {"new", "scan", "order"}
        BY <2>1, <2>6 DEF EngineInv, ItemIsRow
      <3>2. Current(job.item.media)' = Current(job.item.media)
        BY <1>7, <1>11
      <3> QED BY <2>4, <2>6, <3>1, <3>2
    <2> QED BY <1>11, <2>1, <2>5, <2>6 DEF ItemIsRow
  <1>15. NewItem'
    <2>1. TodoTargets \subseteq Photos
      BY DEF TodoTargets, InScope, Listed
    <2> QED BY <1>1, <1>7, <1>8, <1>9, <1>11, <2>1 DEF EngineInv, NewItem, Before, InHand
  <1>16. ScanItem'
    <2>1. job.item.media \in Listed => job.item.media \in Photos
      BY DEF Listed
    <2> QED BY <1>1, <1>7, <1>8, <1>11, <2>1 DEF EngineInv, ScanItem, InHand
  <1>17. Batched'
    BY <1>1, <1>8, <1>11 DEF EngineInv, Batched
  <1>18. CountedZero'
    BY <1>1, <1>7, <1>8, <1>11 DEF EngineInv, CountedZero
  <1>19. AllFound'
    <2>1. TodoTargets \subseteq Photos
      BY DEF TodoTargets, InScope, Listed
    <2> QED BY <1>1, <1>7, <1>8, <1>9, <2>1 DEF EngineInv, AllFound
  <1> QED BY <1>11, <1>12, <1>13, <1>14, <1>15, <1>16, <1>17, <1>18, <1>19 DEF EngineInv

-----------------------------------------------------------------------------
(* The next photo.                                                         *)

LEMMA TakesOrder ==
    ASSUME Shape, EngineInv, NEW i \in 1..Len(orders), i = Current(orders[i].media),
           orders[i].state \in Open, Flying \subseteq {i}, gcur # None,
           NEW j \in JobRec, Existing(i, j),
           UNCHANGED <<photo, scope, orders, skips, gcur, scan, swept, events>>
    PROVE  Shape' /\ EngineInv'
  <1> DEFINE item == [order |-> i, media |-> orders[i].media, ver |-> orders[i].ver,
                      gen |-> 0, origin |-> "order"]
  <1>1. orders[i] \in OrderRec /\ i \in Nat /\ i # 0 /\ i \in DOMAIN orders
    BY CurrentFacts
  <1>2. /\ item \in ItemRec /\ item.order = i /\ item.media = orders[i].media
        /\ item.ver = orders[i].ver /\ item.gen = 0 /\ item.origin = "order"
    BY <1>1, ShapeFacts DEF ItemRec, OrderRec, Photos
  <1> HIDE DEF item
  <1>3. CASE i \in job.handled
    <2>1. End(FALSE)
      BY <1>3 DEF Existing
    <2>2. /\ job' \in JobRec /\ job'.pc \in {"off", "begin"} /\ job'.legacy = 0
          /\ job'.item = NoItem /\ pending' \subseteq {"wake", "check", "periodic"}
      BY <2>1, OffOrBegin
    <2> QED BY <2>2, ShapeFacts, Halts
  <1>4. CASE i \notin job.handled
    <2>1. /\ job' = [j EXCEPT !.pc = "lookup", !.handled = @ \cup {i}, !.item = item]
          /\ pending' = pending
      BY <1>4 DEF Existing, intent, item
    <2>2. job' \in JobRec /\ job'.pc = "lookup" /\ job'.item = item
      BY <1>1, <1>2, <2>1 DEF JobRec, Stages
    <2>3. /\ \A p : Current(p)' = Current(p) /\ Ahead(p)' = Ahead(p)
          /\ TodoTargets' = TodoTargets /\ Flying' = Flying /\ \A p : Led(p) => Led(p)'
      BY SameStore
    <2>4. Shape' /\ RowsAreOld' /\ AllFound'
      BY <2>1, <2>2, <2>3 DEF Shape, EngineInv, RowsAreOld, AllFound
    <2>5. Clocks'
      BY <1>2, <2>2, ShapeFacts, NotBefore DEF EngineInv, Clocks
    <2>6. Control' /\ Flights'
      BY <1>2, <2>2, <2>3 DEF EngineInv, Control, Between, Flights, InHand, Flying
    <2>7. ItemIsRow'
      <3>1. /\ orders[i].media \in Photos /\ orders[i].ver > 0
            /\ orders[i].ver <= photo[orders[i].media].ver
        BY <1>1 DEF EngineInv, RowsAreOld, OrderRec
      <3> QED BY <1>1, <1>2, <2>2, <2>3, <3>1 DEF ItemIsRow
    <2>8. NewItem' /\ ScanItem' /\ Batched' /\ CountedZero'
      BY <1>2, <2>2 DEF NewItem, ScanItem, Batched, CountedZero
    <2> QED BY <2>4, <2>5, <2>6, <2>7, <2>8 DEF EngineInv
  <1> QED BY <1>3, <1>4

LEMMA KeepsPickLegacy == ASSUME Shape, EngineInv, PickLegacy PROVE Shape' /\ EngineInv'
  <1>1. Legacy \subseteq Nat /\ Legacy \subseteq 1..Len(orders)
    BY CurrentFacts DEF Legacy, InStates
  <1>2. Legacy # {}
    BY DEF PickLegacy
  <1>3. PICK i \in Legacy : i = Min(Legacy)
    BY <1>1, <1>2, MinIs
  <1>4. /\ i \in 1..Len(orders) /\ i \in Nat /\ orders[i].state = "transferring"
        /\ i = Current(orders[i].media)
    BY <1>1, <1>3 DEF Legacy, InStates
  <1>5. Existing(i, [job EXCEPT !.legacy = i])
    BY <1>3 DEF PickLegacy
  <1>6. [job EXCEPT !.legacy = i] \in JobRec
    BY <1>4 DEF Shape, JobRec
  <1>7. i \in Flying
    BY <1>4, CurrentFacts DEF Flying
  <1>8. Flying \subseteq {i}
    BY <1>7 DEF EngineInv, Flights
  <1>9. /\ gcur # None
        /\ UNCHANGED <<photo, scope, orders, skips, gcur, scan, swept, events>>
    BY DEF PickLegacy, EngineInv, Control, media, store, Quiet, ghosts, count
  <1>10. orders[i].state \in Open
    BY <1>4 DEF Open
  <1> QED BY <1>4, <1>5, <1>6, <1>8, <1>9, <1>10, TakesOrder

LEMMA KeepsPickRetry == ASSUME Shape, EngineInv, PickRetry PROVE Shape' /\ EngineInv'
  <1>1. /\ Retries \subseteq Nat /\ Retries \subseteq 1..Len(orders)
        /\ \A i \in Retries : orders[i].state \in Open /\ i = Current(orders[i].media)
    BY CurrentFacts DEF Retries, InStates, Open
  <1>2. Retries # {}
    BY DEF PickRetry
  <1>3. PICK i \in Retries : i = Min(Retries)
    BY <1>1, <1>2, MinIs
  <1>4. i \in 1..Len(orders) /\ i \in Nat
    BY <1>1, <1>3
  <1>5. Existing(i, [job EXCEPT !.retry = i])
    BY <1>3 DEF PickRetry
  <1>6. [job EXCEPT !.retry = i] \in JobRec
    BY <1>4 DEF Shape, JobRec
  <1>7. Flying = {}
    BY NoneFlying DEF PickRetry
  <1>8. /\ gcur # None
        /\ UNCHANGED <<photo, scope, orders, skips, gcur, scan, swept, events>>
    BY DEF PickRetry, EngineInv, Control, media, store, Quiet, ghosts, count
  <1> QED BY <1>1, <1>3, <1>4, <1>5, <1>6, <1>7, <1>8, TakesOrder

LEMMA KeepsScanRead == ASSUME Shape, EngineInv, ScanRead PROVE Shape' /\ EngineInv'
  <1> DEFINE ids   == {q \in InScope : q > scan.cursor}
             batch == [p \in ids |-> photo[p].ver]
  <1>1. /\ job.pc = "pick" /\ scan.dirty /\ Legacy = {}
        /\ job' = [job EXCEPT !.pc = "scanned", !.late = FALSE, !.batch = batch]
        /\ UNCHANGED <<photo, scope, orders, skips, gcur, scan, swept, events, pending>>
    BY DEF ScanRead, media, store, intent, Quiet, ghosts, count
  <1>2. /\ ids \subseteq Photos /\ batch \in Batches /\ DOMAIN batch = ids
        /\ \A q \in ids : batch[q] = photo[q].ver
    <2>1. ids \subseteq Photos
      BY DEF InScope, Listed
    <2>2. batch \in [ids -> Nat]
      BY <2>1, ShapeFacts
    <2> QED BY <2>1, <2>2 DEF Batches
  <1> HIDE DEF batch
  <1>3. /\ job' \in JobRec /\ job'.pc = "scanned" /\ job'.item = job.item
        /\ job'.legacy = job.legacy /\ job'.batch = batch
    BY <1>1, <1>2 DEF Shape, JobRec, Stages
  <1>4. Flying = {} /\ gcur # None /\ job.item = NoItem
    BY <1>1, NoneFlying DEF EngineInv, Control, InHand
  <1>5. /\ \A p : Current(p)' = Current(p) /\ Ahead(p)' = Ahead(p)
        /\ TodoTargets' = TodoTargets /\ InScope' = InScope /\ Listed' = Listed
        /\ Flying' = Flying /\ \A p : Led(p) => Led(p)'
    BY <1>1, SameStore
  <1>6. Shape' /\ RowsAreOld' /\ AllFound'
    BY <1>1, <1>3, <1>5 DEF Shape, EngineInv, RowsAreOld, AllFound
  <1>7. Clocks' /\ Control' /\ Flights'
    BY <1>1, <1>3, <1>4, <1>5 DEF EngineInv, Clocks, Control, Between, Flights, InHand
  <1>8. ItemIsRow' /\ NewItem' /\ ScanItem' /\ CountedZero'
    BY <1>3 DEF ItemIsRow, NewItem, ScanItem, CountedZero, InHand
  <1>9. Batched'
    <2>1. \A q \in ids : /\ q \in Listed /\ q > scan.cursor /\ 0 < photo[q].ver
                         /\ photo[q].ver <= photo[q].ver
      BY ShapeFacts DEF EngineInv, Clocks, InScope, Listed
    <2> HIDE DEF ids
    <2>2. \A q \in DOMAIN job'.batch :
             /\ q > scan'.cursor /\ 0 < job'.batch[q] /\ job'.batch[q] <= photo'[q].ver
             /\ q \in Listed' /\ photo'[q].ver # job'.batch[q] => Ahead(q)'
      BY <1>1, <1>2, <1>3, <2>1
    <2>3. \A q \in InScope' : q > scan'.cursor => q \in DOMAIN job'.batch
      BY <1>1, <1>2, <1>3, <1>5 DEF ids
    <2> QED BY <2>2, <2>3 DEF Batched
  <1> QED BY <1>6, <1>7, <1>8, <1>9 DEF EngineInv

LEMMA ScanAdvanced ==
    ASSUME Shape, NEW id \in Nat, scan' = AdvanceScan(id)
    PROVE  /\ scan' \in [dirty: BOOLEAN, cursor: Nat]
           /\ scan'.dirty = scan.dirty
           /\ scan'.cursor = scan.cursor \/ scan'.cursor = id
           /\ scan'.cursor >= scan.cursor /\ scan'.cursor >= id /\ scan'.cursor \in Nat
  <1> DEFINE both == {scan.cursor, id}
             m == Max(both)
  <1>1. scan \in [dirty: BOOLEAN, cursor: Nat] /\ scan.cursor \in Nat
    BY DEF Shape
  <1>2. both \subseteq Nat /\ both # {} /\ scan.cursor + id \in Nat
        /\ \A x \in both : x <= scan.cursor + id
    BY <1>1
  <1>3. m \in both /\ \A y \in both : m >= y
    BY <1>2, MaxIs
  <1>4. scan' = [scan EXCEPT !.cursor = m]
    BY <1>1 DEF AdvanceScan
  <1> HIDE DEF m
  <1>5. m \in Nat /\ (m = scan.cursor \/ m = id) /\ m >= scan.cursor /\ m >= id
    BY <1>1, <1>3
  <1> HIDE DEF both
  <1> QED BY <1>1, <1>4, <1>5

(* What the step does, in the terms of what the scan has read.             *)
LEMMA ScannedSteps ==
    ASSUME Shape, EngineInv, Scanned
    PROVE  /\ UNCHANGED <<photo, scope, orders, skips, gcur, events, pending>> /\ Sweep
           /\ \/ /\ DOMAIN job.batch = {} /\ scan' = Clean
                 /\ job' = [job EXCEPT !.batch = << >>, !.pc = "discover"]
              \/ /\ \E id \in Nat : scan' = AdvanceScan(id)
                 /\ \A q \in DOMAIN job.batch : ~NeedsNewOrder(q, job.batch[q])
                 /\ job' = [job EXCEPT !.batch = << >>, !.pc = "pick"]
              \/ \E m \in DOMAIN job.batch :
                   /\ Fresh(m, job.batch[m], "scan")
                   /\ \A q \in DOMAIN job.batch : q < m => ~NeedsNewOrder(q, job.batch[q])
                   /\ \E id \in Nat : scan' = AdvanceScan(id) /\ id < m
  <1> DEFINE ids    == DOMAIN job.batch
             wanted == {p \in ids : NeedsNewOrder(p, job.batch[p])}
             passed == {p \in ids : \A q \in wanted : p < q}
             zp     == {0} \cup passed
  <1>1. /\ scan' = IF ids = {} THEN Clean ELSE AdvanceScan(Max(zp))
        /\ IF wanted # {} THEN Fresh(Min(wanted), job.batch[Min(wanted)], "scan")
           ELSE job' = [job EXCEPT !.batch = << >>,
                           !.pc = IF ids = {} THEN "discover" ELSE "pick"]
        /\ UNCHANGED <<photo, scope, orders, skips, gcur, events, pending>> /\ Sweep
    BY DEF Scanned, media, intent, count
  <1>2. ids \subseteq Photos
    BY BatchFacts
  <1>3. Max(zp) \in zp /\ zp \subseteq Nat
    <2>1. N \in Nat /\ \A q \in Photos : q \in Nat /\ q <= N
      BY PhoneEngineAssumption DEF Photos
    <2>2. zp \subseteq Nat /\ zp # {} /\ \A x \in zp : x <= N
      BY <1>2, <2>1
    <2> QED BY <2>1, <2>2, MaxIs
  <1>4. CASE wanted = {}
    <2>1. CASE ids = {}
      BY <1>1, <1>4, <2>1
    <2>2. CASE ids # {}
      <3>1. \E id \in Nat : scan' = AdvanceScan(id)
        BY <1>1, <1>3, <2>2
      <3>2. \A q \in ids : ~NeedsNewOrder(q, job.batch[q])
        BY <1>4
      <3>3. job' = [job EXCEPT !.batch = << >>, !.pc = "pick"]
        BY <1>1, <1>4, <2>2
      <3> QED BY <1>1, <3>1, <3>2, <3>3
    <2> QED BY <2>1, <2>2
  <1>5. CASE wanted # {}
    <2>1. wanted \subseteq Nat
      BY <1>2, ShapeFacts
    <2>2. PICK m \in wanted : m = Min(wanted) /\ \A y \in wanted : m <= y
      BY <1>5, <2>1, MinIs
    <2>3. Fresh(m, job.batch[m], "scan") /\ ids # {}
      BY <1>1, <1>5, <2>2
    <2>4. \A q \in ids : q < m => ~NeedsNewOrder(q, job.batch[q])
      BY <1>2, <2>1, <2>2, ShapeFacts
    <2>5. PICK id \in zp : id = Max(zp)
      BY <1>3
    <2>6. m \in Nat /\ m > 0 /\ id < m /\ id \in Nat
      BY <1>2, <1>3, <2>2, <2>5, ShapeFacts
    <2>7. scan' = AdvanceScan(id)
      BY <1>1, <2>3, <2>5
    <2> QED BY <1>1, <2>2, <2>3, <2>4, <2>6, <2>7
  <1> QED BY <1>4, <1>5

LEMMA KeepsScanned == ASSUME Shape, EngineInv, Scanned PROVE Shape' /\ EngineInv'
  <1>1. UNCHANGED <<photo, scope, orders, skips, gcur, events, pending>> /\ Sweep
    BY ScannedSteps
  <1>2. job.pc = "scanned" /\ gcur # None /\ job.item = NoItem /\ Flying = {} /\ scan.dirty
    <2>1. job.pc = "scanned"
      BY DEF Scanned
    <2> QED BY <2>1, NoneFlying DEF EngineInv, Control, InHand
  <1>3. /\ \A p : Current(p)' = Current(p) /\ Ahead(p)' = Ahead(p)
        /\ \A p, ver, states : Has(p, ver, states)' <=> Has(p, ver, states)
        /\ InScope' = InScope /\ Listed' = Listed /\ Flying' = {}
    BY <1>1, <1>2 DEF Current, Has, InScope, Listed, Flying, Ahead, Before, At
  <1>4. TodoTargets' = TodoTargets
    BY <1>1, <1>3 DEF TodoTargets, IsTodo
  <1>5. swept \subseteq swept' /\ swept' \subseteq Photos /\ (job.late => swept' = swept \cup Overlooked')
    BY <1>1, SweepGrows DEF Shape
  <1> DEFINE Good(q) == Ahead(q) \/ Has(q, photo[q].ver, Open) \/ q \in swept
  <1>6. \A q \in TodoTargets : q \in Photos /\ q \in Listed /\ q \in InScope /\ q \in Nat
    BY ShapeFacts DEF TodoTargets, InScope, Listed
  <1>7. \A q \in TodoTargets : ~(q > scan.cursor) => Good(q)
    BY <1>2 DEF EngineInv, AllFound, Led
  <1>8. ASSUME NEW q \in TodoTargets, q \in DOMAIN job.batch, ~NeedsNewOrder(q, job.batch[q])
        PROVE  Good(q)
    <2>1. CASE photo[q].ver # job.batch[q]
      BY <1>2, <1>6, <1>8, <2>1 DEF EngineInv, Batched
    <2>2. CASE photo[q].ver = job.batch[q]
      <3>1. q \notin skips /\ ~Has(q, photo[q].ver, Settled)
        BY DEF TodoTargets, IsTodo
      <3>2. Has(q, photo[q].ver, Settled \cup Open)
        BY <1>8, <2>2, <3>1 DEF NeedsNewOrder
      <3>3. Has(q, photo[q].ver, Open)
        BY <3>1, <3>2 DEF Has
      <3> QED BY <3>3
    <2> QED BY <2>1, <2>2
  <1>9. ASSUME ~job.late, NEW q \in TodoTargets, q \notin DOMAIN job.batch PROVE Good(q)
    <2>1. CASE q > scan.cursor
      BY <1>2, <1>6, <1>9, <2>1 DEF EngineInv, Batched
    <2> QED BY <1>7, <2>1
  <1>10. \A q \in TodoTargets : Good(q) => Ahead(q)' \/ Led(q)'
    BY <1>1, <1>3, <1>5 DEF Led
  <1>11. RowsAreOld' /\ Flights'
    <2>1. Flights'
      BY <1>3 DEF Flights
    <2> QED BY <1>1, <2>1 DEF EngineInv, RowsAreOld
  <1>12. /\ \A p \in Photos : photo'[p].gen <= 1 + events'
                              /\ (photo'[p].gen > 0 => photo'[p].ver > 0)
         /\ gcur'[1] <= 1 + events'
    BY <1>1, <1>2 DEF EngineInv, Clocks
  <1> HIDE DEF Good
  <1>13. ASSUME scan' \in [dirty: BOOLEAN, cursor: Nat], job' \in JobRec,
                job'.pc \in {"discover", "pick"}, job'.item = job.item,
                \A q \in TodoTargets : ~job.late => Good(q)
         PROVE  Shape' /\ EngineInv'
    <2>1. Shape'
      BY <1>1, <1>5, <1>13 DEF Shape
    <2>2. Clocks' /\ Control'
      BY <1>1, <1>2, <1>12, <1>13, NoItemFacts, ShapeFacts, NotBefore DEF Clocks, Control, Between
    <2>3. AllFound'
      <3>1. \A q \in TodoTargets' : job'.item.media # q
        BY <1>2, <1>4, <1>6, <1>13, NoItemFacts, ShapeFacts
      <3>2. CASE job.late
        BY <1>1, <1>2, <1>5, <3>1, <3>2, SweptFound DEF AllFound
      <3>3. CASE ~job.late
        BY <1>4, <1>10, <1>13, <3>3 DEF AllFound
      <3> QED BY <3>2, <3>3
    <2> QED BY <1>11, <1>13, <2>1, <2>2, <2>3, Idles DEF InHand
  <1>14. CASE /\ DOMAIN job.batch = {} /\ scan' = Clean
              /\ job' = [job EXCEPT !.batch = << >>, !.pc = "discover"]
    <2>1. job' \in JobRec /\ job'.pc = "discover" /\ job'.item = job.item
      BY <1>14, EmptyBatch DEF Shape, JobRec, Stages
    <2>2. scan' \in [dirty: BOOLEAN, cursor: Nat]
      BY <1>14 DEF Clean
    <2>3. \A q \in TodoTargets : ~job.late => Good(q)
      BY <1>9, <1>14
    <2> QED BY <1>13, <2>1, <2>2, <2>3
  <1>15. CASE /\ \E id \in Nat : scan' = AdvanceScan(id)
              /\ \A q \in DOMAIN job.batch : ~NeedsNewOrder(q, job.batch[q])
              /\ job' = [job EXCEPT !.batch = << >>, !.pc = "pick"]
    <2>1. job' \in JobRec /\ job'.pc = "pick" /\ job'.item = job.item
      BY <1>15, EmptyBatch DEF Shape, JobRec, Stages
    <2>2. scan' \in [dirty: BOOLEAN, cursor: Nat]
      BY <1>15, ScanAdvanced
    <2>3. \A q \in TodoTargets : ~job.late => Good(q)
      BY <1>8, <1>9, <1>15
    <2> QED BY <1>13, <2>1, <2>2, <2>3
  <1>16. CASE \E m \in DOMAIN job.batch :
                   /\ Fresh(m, job.batch[m], "scan")
                   /\ \A q \in DOMAIN job.batch : q < m => ~NeedsNewOrder(q, job.batch[q])
                   /\ \E id \in Nat : scan' = AdvanceScan(id) /\ id < m
    <2>1. PICK m \in DOMAIN job.batch :
                   /\ Fresh(m, job.batch[m], "scan")
                   /\ \A q \in DOMAIN job.batch : q < m => ~NeedsNewOrder(q, job.batch[q])
                   /\ \E id \in Nat : scan' = AdvanceScan(id) /\ id < m
      BY <1>16
    <2>2. PICK id \in Nat : scan' = AdvanceScan(id) /\ id < m
      BY <2>1
    <2>3. m \in Photos /\ m \in Nat /\ job.batch[m] \in Nat /\ photo[m].gen \in Nat
      BY BatchFacts, ShapeFacts
    <2>4. /\ job' \in JobRec /\ job'.pc = "lookup" /\ job'.late = job.late
          /\ job'.item.order = 0 /\ job'.item.media = m /\ job'.item.ver = job.batch[m]
          /\ job'.item.gen = photo[m].gen /\ job'.item.origin = "scan"
      BY <2>1, <2>3, FreshFacts
    <2>5. /\ m > scan.cursor /\ 0 < job.batch[m] /\ job.batch[m] <= photo[m].ver
          /\ m \in Listed /\ photo[m].ver # job.batch[m] => Ahead(m)
      BY <1>2 DEF EngineInv, Batched
    <2>6. /\ scan' \in [dirty: BOOLEAN, cursor: Nat] /\ scan'.dirty /\ scan'.cursor < m
          /\ scan'.cursor \in Nat
      BY <1>2, <2>2, <2>3, <2>5, ScanAdvanced, ShapeFacts
    <2>7. ASSUME ~job.late, NEW q \in TodoTargets, q < m PROVE Good(q)
      BY <1>8, <1>9, <2>1, <2>7
    <2>8. Shape'
      BY <1>1, <1>5, <2>4, <2>6 DEF Shape
    <2>9. Clocks' /\ Control'
      BY <1>1, <1>2, <1>12, <2>3, <2>4, <2>6 DEF Clocks, Control, Between, InHand
    <2>10. ItemIsRow'
      BY <1>1, <2>3, <2>4, <2>5 DEF ItemIsRow
    <2>11. NewItem' /\ Batched' /\ CountedZero'
      BY <2>4 DEF NewItem, Batched, CountedZero
    <2>12. ScanItem'
      <3>1. \A q \in TodoTargets : Good(q) =>
               Ahead(q)' \/ Has(q, photo[q].ver, Open)' \/ q \in swept'
        BY <1>1, <1>3, <1>5 DEF Good
      <3>2. m \in Listed' /\ photo'[m].ver # job.batch[m] => Ahead(m)'
        BY <1>1, <1>3, <2>5
      <3> QED BY <1>4, <2>4, <2>6, <2>7, <3>1, <3>2 DEF ScanItem
    <2>13. AllFound'
      <3>1. \A q \in TodoTargets' : q >= m => Led(q)'
        BY <1>4, <1>6, <2>3, <2>6 DEF Led
      <3>2. ASSUME NEW q \in TodoTargets', q < m PROVE Ahead(q)' \/ Led(q)'
        <4>1. CASE job.late
          BY <1>1, <1>2, <1>5, <2>3, <2>4, <3>2, <4>1, SweptFound
        <4>2. CASE ~job.late
          BY <1>4, <1>10, <2>7, <3>2, <4>2
        <4> QED BY <4>1, <4>2
      <3> QED BY <1>4, <1>6, <2>3, <3>1, <3>2 DEF AllFound
    <2> QED BY <1>11, <2>8, <2>9, <2>10, <2>11, <2>12, <2>13 DEF EngineInv
  <1> QED BY <1>14, <1>15, <1>16, ScannedSteps

(* The desktop has lost confirmed photos: each gets a new order for the    *)
(* version that its order was for.                                         *)
LEMMA Reordered ==
    ASSUME Shape, EngineInv, NEW rows \in Seq(OrderRec), orders' = orders \o rows,
           UNCHANGED <<photo, scope, skips>>,
           \A k \in 1..Len(rows) :
             /\ rows[k].state = "pending"
             /\ Current(rows[k].media) # 0 /\ orders[Current(rows[k].media)].ver = rows[k].ver
             /\ rows[k].ver > 0 /\ rows[k].ver <= photo[rows[k].media].ver
    PROVE  /\ orders' \in Seq(OrderRec) /\ RowsAreOld' /\ (Flying = {} => Flying' = {})
           /\ \A p : Has(p, photo[p].ver, Open) => Has(p, photo[p].ver, Open)'
           /\ \A q \in TodoTargets' : q \in TodoTargets \/ Has(q, photo[q].ver, Open)'
  <1>0. \A i \in DOMAIN orders :
            orders[i].ver > 0 /\ orders[i].ver <= photo[orders[i].media].ver
    BY DEF EngineInv, RowsAreOld
  <1> DEFINE n == Len(orders)
  <1>1. /\ orders \in Seq(OrderRec) /\ orders' \in Seq(OrderRec) /\ Len(orders') = n + Len(rows)
        /\ \A i \in 1..n : orders'[i] = orders[i]
        /\ \A k \in 1..Len(rows) : orders'[n + k] = rows[k]
        /\ n \in Nat /\ Len(rows) \in Nat
    BY DEF Shape
  <1>2. \A i \in 1..(n + Len(rows)) : i \in 1..n \/ \E k \in 1..Len(rows) : i = n + k
    <2> SUFFICES ASSUME NEW i \in 1..(n + Len(rows)), i \notin 1..n
                 PROVE  \E k \in 1..Len(rows) : i = n + k
      OBVIOUS
    <2>1. i - n \in 1..Len(rows) /\ i = n + (i - n)
      BY <1>1
    <2> QED BY <2>1
  <1>3. DOMAIN orders' = 1..(n + Len(rows)) /\ DOMAIN orders = 1..n
    BY <1>1
  <1> HIDE DEF n
  <1>4. RowsAreOld'
    <2> SUFFICES ASSUME NEW i \in 1..(n + Len(rows))
                 PROVE  orders'[i].ver > 0 /\ orders'[i].ver <= photo[orders'[i].media].ver
      BY <1>3 DEF RowsAreOld
    <2>1. CASE i \in 1..n
      BY <1>0, <1>1, <1>3, <2>1
    <2>2. ASSUME NEW k \in 1..Len(rows), i = n + k
          PROVE  orders'[i].ver > 0 /\ orders'[i].ver <= photo[orders'[i].media].ver
      <3>1. orders'[i] = rows[k]
        BY <1>1, <2>2, Zenon
      <3>2. rows[k].ver > 0 /\ rows[k].ver <= photo[rows[k].media].ver
        BY Zenon
      <3> QED BY <3>1, <3>2, Zenon
    <2> QED BY <1>2, <2>1, <2>2
  <1>5. Flying = {} => Flying' = {}
    <2> SUFFICES ASSUME Flying = {}, NEW i \in 1..(n + Len(rows)), orders'[i].state = "transferring"
                 PROVE  FALSE
      BY <1>3 DEF Flying
    <2>1. CASE i \in 1..n
      BY <1>1, <1>3, <2>1 DEF Flying
    <2>2. CASE \E k \in 1..Len(rows) : i = n + k
      BY <1>1, <2>2
    <2> QED BY <1>2, <2>1, <2>2
  (* The current order of a photo is a new one for the same version, or    *)
  (* what it was.                                                          *)
  <1>6. ASSUME NEW p
        PROVE  \/ CurIn(orders', p) = CurIn(orders, p) /\ CurIn(orders, p) \in 0..n
               \/ /\ CurIn(orders', p) > 0 /\ CurIn(orders, p) > 0
                  /\ orders'[CurIn(orders', p)].ver = orders[CurIn(orders, p)].ver
                  /\ orders'[CurIn(orders', p)].state = "pending"
    <2>1. /\ CurIn(orders, p) \in 0..n
          /\ CurIn(orders, p) # 0 => orders[CurIn(orders, p)].media = p
          /\ \A i \in 1..n : orders[i].media = p => i <= CurIn(orders, p)
      BY <1>1, CurFacts DEF n
    <2>a. /\ CurIn(orders', p) \in 0..Len(orders')
          /\ CurIn(orders', p) # 0 => orders'[CurIn(orders', p)].media = p
          /\ \A i \in 1..Len(orders') : orders'[i].media = p => i <= CurIn(orders', p)
      BY <1>1, CurFacts
    <2>2. PICK c \in 0..Len(orders') : c = CurIn(orders', p)
      BY <2>a
    <2>b. /\ c # 0 => orders'[c].media = p
          /\ \A i \in 1..Len(orders') : orders'[i].media = p => i <= c
      BY <2>a, <2>2
    <2>3. /\ c \in 0..(n + Len(rows)) /\ (c # 0 => orders'[c].media = p)
          /\ \A i \in 1..(n + Len(rows)) : orders'[i].media = p => i <= c
      BY <1>1, <2>b
    <2>4. CASE \E k \in 1..Len(rows) : c = n + k
      <3>1. PICK k \in 1..Len(rows) : c = n + k
        BY <2>4
      <3>a. orders'[c] = rows[k]
        BY <1>1, <3>1
      <3>b. c > 0 /\ c # 0
        BY <1>1, <3>1
      <3>2. orders'[c] = rows[k] /\ c > 0 /\ rows[k].media = p
        BY <2>3, <3>a, <3>b, Zenon
      <3>3. CurIn(orders, p) # 0 /\ orders[CurIn(orders, p)].ver = rows[k].ver
            /\ rows[k].state = "pending"
        BY <3>2, CurHas
      <3> QED BY <2>1, <2>2, <3>2, <3>3
    <2>5. CASE c \in 0..n
      <3>1. /\ c # 0 => orders[c].media = p
            /\ \A i \in 1..n : orders[i].media = p => i <= c
        BY <1>1, <2>3, <2>5
      <3>2. CurIn(orders, p) = c
        BY <1>1, <2>5, <3>1, CurIs DEF n
      <3> QED BY <2>1, <2>2, <3>2
    <2>6. c = 0 \/ c \in 1..(n + Len(rows))
      BY <1>1, <2>3
    <2>7. c \in 0..n \/ \E k \in 1..Len(rows) : c = n + k
      BY <1>1, <1>2, <2>6
    <2> QED BY <2>4, <2>5, <2>7
  <1>a. ASSUME NEW p, NEW ver, NEW states,
               HasIn(orders, p, ver, states)
        PROVE  HasIn(orders', p, ver, states) \/ HasIn(orders', p, ver, Open)
    <2>1. PICK c, d : c = CurIn(orders, p) /\ d = CurIn(orders', p)
      OBVIOUS
    <2>2. c > 0 /\ orders[c].ver = ver /\ orders[c].state \in states
      BY <1>a, <2>1 DEF HasIn
    <2>3. \A S : d > 0 /\ orders'[d].ver = ver /\ orders'[d].state \in S => HasIn(orders', p, ver, S)
      BY <2>1 DEF HasIn
    <2>4. CASE d = c /\ c \in 0..n
      <3>1. c \in 1..n
        BY <1>1, <2>2, <2>4
      <3>2. orders'[d] = orders[c]
        BY <1>1, <2>4, <3>1
      <3> QED BY <2>2, <2>3, <2>4, <3>2
    <2>5. CASE d > 0 /\ orders'[d].ver = orders[c].ver /\ orders'[d].state = "pending"
      <3>1. orders'[d].state \in Open
        BY <2>5 DEF Open
      <3> QED BY <2>2, <2>3, <2>5, <3>1
    <2> QED BY <1>6, <2>1, <2>4, <2>5
  <1>7. \A p : HasIn(orders, p, photo[p].ver, Open) => HasIn(orders', p, photo[p].ver, Open)
    BY <1>a
  <1>8. \A p : HasIn(orders, p, photo[p].ver, Settled) /\ ~HasIn(orders', p, photo[p].ver, Settled)
          => HasIn(orders', p, photo[p].ver, Open)
    BY <1>a
  <1>9. /\ \A p, ver, states : Has(p, ver, states) <=> HasIn(orders, p, ver, states)
        /\ \A p, states : Has(p, photo[p].ver, states)' <=>
                            HasIn(orders', p, photo[p].ver, states)
    BY CurHas, CurHasNext
  <1>10. \A q \in TodoTargets' : q \in TodoTargets \/ Has(q, photo[q].ver, Open)'
    <2> SUFFICES ASSUME NEW q \in TodoTargets', ~Has(q, photo[q].ver, Open)'
                 PROVE  q \in TodoTargets
      OBVIOUS
    <2>1. q \in InScope /\ q \notin skips /\ ~Has(q, photo[q].ver, Settled)'
      BY DEF TodoTargets, IsTodo, InScope, Listed
    <2>2. ~Has(q, photo[q].ver, Settled)
      BY <1>8, <1>9, <2>1
    <2> QED BY <2>1, <2>2 DEF TodoTargets, IsTodo
  <1> QED BY <1>1, <1>4, <1>5, <1>7, <1>9, <1>10

(* The orders of what the desktop has lost.                                *)
LEMMA LostAgain ==
    ASSUME Shape, Presence
    PROVE  \E n \in Nat : \E ids \in [1..n -> Missing] : \E rows \in Seq(OrderRec) :
             /\ Len(rows) = n /\ orders' = orders \o rows
             /\ \A k \in 1..n : /\ rows[k].state = "pending"
                                /\ rows[k].media = orders[ids[k]].media
                                /\ rows[k].ver = orders[ids[k]].ver
  <1>1. PICK ids \in [1..Cardinality(Missing) -> Missing] :
          orders' = orders \o [k \in DOMAIN ids |->
                NewOrder(orders[ids[k]].media, orders[ids[k]].ver,
                         orders[ids[k]].hash, "pending")]
    BY DEF Presence
  <1>2. /\ DOMAIN orders = 1..Len(orders) /\ Len(orders) \in Nat
        /\ \A i \in 1..Len(orders) : orders[i] \in OrderRec
        /\ Missing \subseteq 1..Len(orders)
    BY CurrentFacts DEF Missing, InStates
  <1>3. PICK n \in Nat : n = Cardinality(Missing)
    <2>1. IsFiniteSet(1..Len(orders))
      BY <1>2, FS_Interval
    <2>2. IsFiniteSet(Missing)
      BY <1>2, <2>1, FS_Subset
    <2> QED BY <2>2, FS_CardinalityType
  <1> DEFINE rows == [k \in 1..n |->
                NewOrder(orders[ids[k]].media, orders[ids[k]].ver,
                         orders[ids[k]].hash, "pending")]
  <1>4. orders' = orders \o rows /\ ids \in [1..n -> Missing]
    BY <1>1, <1>3
  <1>5. ASSUME NEW k \in 1..n
        PROVE  /\ rows[k] \in OrderRec /\ rows[k].state = "pending"
               /\ rows[k].media = orders[ids[k]].media /\ rows[k].ver = orders[ids[k]].ver
    <2>1. PICK r \in OrderRec : r = orders[ids[k]]
      BY <1>2, <1>4
    <2>2. rows[k] = NewOrder(r.media, r.ver, r.hash, "pending")
      BY <2>1
    <2> HIDE DEF rows
    <2> QED BY <2>1, <2>2 DEF NewOrder, OrderRec, States, Open
  <1>6. rows \in Seq(OrderRec) /\ Len(rows) = n
    <2>1. \A k \in 1..n : rows[k] \in OrderRec
      BY <1>5
    <2>2. rows = [k \in 1..n |-> rows[k]]
      OBVIOUS
    <2> HIDE DEF rows
    <2> QED BY <2>1, <2>2
  <1> HIDE DEF rows
  <1> QED BY <1>4, <1>5, <1>6

LEMMA KeepsPresence == ASSUME Shape, EngineInv, Presence PROVE Shape' /\ EngineInv'
  <1>1. /\ job.pc = "retry" /\ job' = [Go("pick") EXCEPT !.asked = TRUE]
        /\ UNCHANGED <<photo, scope, skips, gcur, scan, swept, events, pending>>
    BY DEF Presence, media, intent, Quiet, ghosts, count
  <1>2. /\ DOMAIN orders = 1..Len(orders) /\ Len(orders) \in Nat
        /\ Missing \subseteq 1..Len(orders)
        /\ \A i \in Missing : i = Current(orders[i].media)
    BY CurrentFacts DEF Missing, InStates
  <1>a. PICK n \in Nat : \E ids \in [1..n -> Missing] : \E rows \in Seq(OrderRec) :
             /\ Len(rows) = n /\ orders' = orders \o rows
             /\ \A k \in 1..n : /\ rows[k].state = "pending"
                                /\ rows[k].media = orders[ids[k]].media
                                /\ rows[k].ver = orders[ids[k]].ver
    BY LostAgain
  <1>3. PICK ids \in [1..n -> Missing], rows \in Seq(OrderRec) :
             /\ Len(rows) = n /\ orders' = orders \o rows
             /\ \A k \in 1..n : /\ rows[k].state = "pending"
                                /\ rows[k].media = orders[ids[k]].media
                                /\ rows[k].ver = orders[ids[k]].ver
    BY <1>a
  <1>5. orders' = orders \o rows /\ \A k \in 1..n : ids[k] \in Missing
    BY <1>3
  <1>6. \A k \in 1..n : /\ rows[k].state = "pending"
                        /\ rows[k].media = orders[ids[k]].media
                        /\ rows[k].ver = orders[ids[k]].ver
    BY <1>3
  <1>7. rows \in Seq(OrderRec) /\ Len(rows) = n
    BY <1>3
  <1>8. \A k \in 1..Len(rows) :
             /\ rows[k].state = "pending"
             /\ Current(rows[k].media) # 0 /\ orders[Current(rows[k].media)].ver = rows[k].ver
             /\ rows[k].ver > 0 /\ rows[k].ver <= photo[rows[k].media].ver
    <2> SUFFICES ASSUME NEW k \in 1..n
                 PROVE  /\ rows[k].state = "pending"
                        /\ Current(rows[k].media) # 0
                        /\ orders[Current(rows[k].media)].ver = rows[k].ver
                        /\ rows[k].ver > 0 /\ rows[k].ver <= photo[rows[k].media].ver
      BY <1>7
    <2>a. ids[k] \in Missing
      BY <1>5
    <2>b. ids[k] \in 1..Len(orders) /\ ids[k] = Current(orders[ids[k]].media)
      BY <1>2, <2>a
    <2>c. \A i \in 1..Len(orders) : i # 0
      BY <1>2
    <2>1. PICK i \in 1..Len(orders) : i = ids[k] /\ i = Current(orders[i].media) /\ i # 0
      BY <2>b, <2>c
    <2>2. orders[i].ver > 0 /\ orders[i].ver <= photo[orders[i].media].ver
      BY <1>2 DEF EngineInv, RowsAreOld
    <2> QED BY <1>6, <2>1, <2>2
  <1>9. /\ orders' \in Seq(OrderRec) /\ RowsAreOld' /\ (Flying = {} => Flying' = {})
        /\ \A p : Has(p, photo[p].ver, Open) => Has(p, photo[p].ver, Open)'
        /\ \A q \in TodoTargets' : q \in TodoTargets \/ Has(q, photo[q].ver, Open)'
    BY <1>1, <1>5, <1>7, <1>8, Reordered
  <1>10. Flying = {} /\ gcur # None /\ job.item = NoItem
    BY <1>1, NoneFlying DEF EngineInv, Control, InHand
  <1>11. job' \in JobRec /\ job'.pc = "pick" /\ job'.item = job.item
    <2>1. Go("pick") \in JobRec /\ Go("pick").pc = "pick" /\ Go("pick").item = job.item
      BY DEF Go, Shape, JobRec, Stages
    <2> QED BY <1>1, <2>1 DEF JobRec
  <1>12. Shape'
    BY <1>1, <1>9, <1>11 DEF Shape
  <1>13. Clocks' /\ Control' /\ Flights'
    BY <1>1, <1>9, <1>10, <1>11 DEF EngineInv, Clocks, Control, Between, Flights, InHand
  <1>14. AllFound'
    <2>1. \A q : Has(q, photo[q].ver, Open)' => Led(q)'
      BY <1>1 DEF Led
    <2>2. \A q : Led(q) => Led(q)'
      BY <1>1, <1>9 DEF Led
    <2>3. \A q : Ahead(q) => Ahead(q)'
      BY <1>1 DEF Ahead, Before, At
    <2> QED BY <1>9, <1>10, <2>1, <2>2, <2>3 DEF EngineInv, AllFound
  <1> QED BY <1>9, <1>11, <1>12, <1>13, <1>14, Idles DEF InHand

-----------------------------------------------------------------------------
(* One photo.                                                              *)

LEMMA InHandFacts ==
    ASSUME Shape, EngineInv, job.pc \in InHand
    PROVE  /\ gcur # None /\ job.item.media \in Photos /\ job.item.ver > 0
           /\ job.item.ver <= photo[job.item.media].ver
           /\ job.item.origin \in {"new", "scan", "order"}
           /\ job.item.gen <= 1 + events
           /\ \A i \in Flying : i = job.item.order
           /\ job.item.order = 0 =>
                job.pc \in {"lookup", "import"} /\ job.item.origin \in {"new", "scan"}
                /\ Flying = {}
           /\ job.item.order # 0 =>
                /\ job.item.order \in 1..Len(orders)
                /\ job.item.order = Current(job.item.media)
                /\ orders[job.item.order].media = job.item.media
                /\ orders[job.item.order].ver = job.item.ver
                /\ job.pc # "deliver" => job.item.origin = "order"
  <1>1. /\ gcur # None /\ job.item.media \in Photos /\ job.item.ver > 0
        /\ job.item.ver <= photo[job.item.media].ver
        /\ job.item.origin \in {"new", "scan", "order"}
        /\ job.item.gen <= 1 + events
        /\ job.item.order = 0 =>
             job.pc \in {"lookup", "import"} /\ job.item.origin \in {"new", "scan"}
        /\ job.item.order # 0 =>
             /\ job.item.order = Current(job.item.media)
             /\ orders[job.item.order].media = job.item.media
             /\ orders[job.item.order].ver = job.item.ver
             /\ job.pc # "deliver" => job.item.origin = "order"
    BY DEF EngineInv, Clocks, Control, ItemIsRow, InHand
  <1>2. \A i \in Flying : i = job.item.order
    BY DEF EngineInv, Flights
  <1>3. \A i \in Flying : i # 0
    BY CurrentFacts DEF Flying
  <1>4. job.item.order = 0 => Flying = {}
    BY <1>2, <1>3
  <1>5. job.item.order # 0 => job.item.order \in 1..Len(orders)
    BY <1>1, CurrentFacts
  <1> QED BY <1>1, <1>2, <1>4, <1>5

(* Where the cursors are once the photo is done.                           *)
LEMMA AdvanceFacts ==
    ASSUME Shape, EngineInv, job.pc \in InHand, Advance
    PROVE  /\ gcur' \in Nat \X Nat /\ gcur' # None /\ gcur'[1] <= 1 + events
           /\ scan' \in [dirty: BOOLEAN, cursor: Nat]
           /\ job.item.origin = "order" => gcur' = gcur /\ scan' = scan
           /\ job.item.origin = "new" =>
                gcur' = <<job.item.gen, job.item.media>> /\ scan' = scan
           /\ job.item.origin = "scan" =>
                gcur' = gcur /\ scan'.dirty /\ scan'.cursor = job.item.media
  <1>1. /\ gcur # None /\ job.item.media \in Photos /\ job.item.gen <= 1 + events
        /\ job.item.origin \in {"new", "scan", "order"}
    BY InHandFacts
  <1>2. job.item.media \in Nat /\ job.item.gen \in Nat /\ scan.cursor \in Nat
    BY ShapeFacts
  <1>3. gcur \in Nat \X Nat /\ gcur[1] <= 1 + events
    BY <1>1, ShapeFacts DEF EngineInv, Clocks
  <1>4. CASE job.item.origin = "order"
    <2>1. gcur' = gcur /\ scan' = scan
      BY <1>4 DEF Advance, Item
    <2> QED BY <1>1, <1>3, <1>4, <2>1 DEF Shape
  <1>5. CASE job.item.origin = "new"
    <2> DEFINE to == <<job.item.gen, job.item.media>>
    <2>1. Before(gcur, to)
      BY <1>5 DEF EngineInv, NewItem
    <2>2. gcur' = to /\ scan' = scan
      BY <1>5, <2>1 DEF Advance, Item, AdvanceG
    <2>3. to \in Nat \X Nat /\ to[1] = job.item.gen
      BY <1>2
    <2> QED BY <1>1, <1>5, <2>2, <2>3, PhoneEngineAssumption DEF Shape
  <1>6. CASE job.item.origin = "scan"
    <2>1. gcur' = gcur /\ scan' = AdvanceScan(job.item.media)
      BY <1>6 DEF Advance, Item
    <2>2. scan.dirty /\ scan.cursor < job.item.media
      BY <1>6 DEF EngineInv, ScanItem
    <2>a. /\ scan' \in [dirty: BOOLEAN, cursor: Nat] /\ scan'.dirty = scan.dirty
          /\ scan'.cursor = scan.cursor \/ scan'.cursor = job.item.media
          /\ scan'.cursor >= job.item.media
      BY <1>2, <2>1, ScanAdvanced
    <2>3. /\ scan' \in [dirty: BOOLEAN, cursor: Nat] /\ scan'.dirty
          /\ scan'.cursor = job.item.media
      BY <1>2, <2>a, <2>2
    <2> QED BY <1>1, <1>3, <1>6, <2>1, <2>3
  <1> QED BY <1>1, <1>4, <1>5, <1>6

LEMMA StillTimed ==
    ASSUME Shape, EngineInv, photo' = photo, events' \in Nat, events' >= events
    PROVE  \A p \in Photos : photo'[p].gen <= 1 + events'
                             /\ (photo'[p].gen > 0 => photo'[p].ver > 0)
  <1>1. \A p \in Photos : photo[p].gen <= 1 + events /\ (photo[p].gen > 0 => photo[p].ver > 0)
    BY DEF EngineInv, Clocks
  <1>2. events \in Nat /\ \A p \in Photos : photo[p].gen \in Nat
    BY ShapeFacts
  <1> QED BY <1>1, <1>2

LEMMA ItemDone ==
    ASSUME Shape, EngineInv, job.pc \in InHand, UNCHANGED <<photo, scope, skips, pending>>,
           job' = Next1, Advance, swept \subseteq swept', swept' \subseteq Photos,
           job.item.origin = "scan" /\ job.late => swept' = swept \cup Overlooked',
           orders' \in Seq(OrderRec), RowsAreOld', Flying' = {},
           events' \in Nat, events' >= events,
           \A p : p # job.item.media =>
             \A ver, states : Has(p, ver, states)' <=> Has(p, ver, states),
           \A p : p = job.item.media /\ photo[p].ver = job.item.ver /\ p \in TodoTargets' =>
             Has(p, photo[p].ver, Open)',
           \A p : p = job.item.media /\ job.item.origin = "order" =>
             \A ver, states : ver # job.item.ver =>
               (Has(p, ver, states)' <=> Has(p, ver, states))
    PROVE  Shape' /\ EngineInv'
  <1> DEFINE m == job.item.media
  <1>1. /\ gcur # None /\ m \in Photos /\ job.item.origin \in {"new", "scan", "order"}
        /\ m \in Nat /\ job.item.gen \in Nat /\ gcur \in Nat \X Nat
    BY InHandFacts, ShapeFacts
  <1>2. /\ gcur' \in Nat \X Nat /\ gcur' # None /\ gcur'[1] <= 1 + events
        /\ scan' \in [dirty: BOOLEAN, cursor: Nat]
        /\ job.item.origin = "order" => gcur' = gcur /\ scan' = scan
        /\ job.item.origin = "new" => gcur' = <<job.item.gen, m>> /\ scan' = scan
        /\ job.item.origin = "scan" => gcur' = gcur /\ scan'.dirty /\ scan'.cursor = m
    BY AdvanceFacts
  <1>3. job' \in JobRec /\ job'.pc = "pick" /\ job'.item = NoItem
    BY Next1Facts
  <1>4. Shape'
    BY <1>2, <1>3 DEF Shape
  <1>5. Clocks'
    <2>1. \A p \in Photos : photo'[p].gen <= 1 + events'
                            /\ (photo'[p].gen > 0 => photo'[p].ver > 0)
      BY StillTimed
    <2>2. gcur'[1] <= 1 + events'
      BY <1>2, ShapeFacts
    <2>3. job'.item.gen <= 1 + events'
      BY <1>3, NoItemFacts, NotBefore
    <2> QED BY <2>1, <2>2, <2>3 DEF Clocks
  <1>6. Control' /\ Flights'
    BY <1>2, <1>3 DEF Control, Between, Flights, InHand
  <1>7. /\ \A p : At(p)' = At(p) /\ Listed' = Listed /\ InScope' = InScope
        /\ \A p \in TodoTargets : p \in Photos /\ p \in Nat /\ At(p) \in Nat \X Nat
        /\ \A p \in TodoTargets' : p \in Photos /\ p \in Listed /\ p \in Nat
                                   /\ At(p) \in Nat \X Nat
    BY ShapeFacts DEF At, Listed, InScope, TodoTargets
  <1>8. ASSUME NEW q \in TodoTargets',
               \A ver, states : ver = photo[q].ver =>
                 (Has(q, ver, states)' <=> Has(q, ver, states))
        PROVE  q \in TodoTargets /\ (Ahead(q) \/ Led(q))
    <2>1. q \in InScope /\ q \notin skips /\ ~Has(q, photo[q].ver, Settled)'
      BY <1>7 DEF TodoTargets, IsTodo
    <2>2. q \in TodoTargets
      BY <1>8, <2>1 DEF TodoTargets, IsTodo
    <2> QED BY <1>1, <2>2 DEF EngineInv, AllFound
  <1>9. \A q : Has(q, photo[q].ver, Open)' => Led(q)'
    BY DEF Led
  <1>10. \A q : q \in swept => Led(q)'
    BY DEF Led
  <1>a. \A q \in TodoTargets' : q = m /\ photo[q].ver = job.item.ver => Led(q)'
    BY <1>9
  <1>11. ASSUME job.item.origin = "order" PROVE AllFound'
    <2> SUFFICES ASSUME NEW q \in TodoTargets' PROVE Ahead(q)' \/ Led(q)'
      BY DEF AllFound
    <2>1. CASE \A ver, states : ver = photo[q].ver => (Has(q, ver, states)' <=> Has(q, ver, states))
      <3>1. Ahead(q) \/ Led(q)
        BY <1>8, <2>1
      <3>2. Ahead(q) => Ahead(q)'
        BY <1>2, <1>7, <1>11 DEF Ahead, Before
      <3>3. Led(q) => Led(q)'
        BY <1>2, <1>11, <2>1 DEF Led
      <3> QED BY <3>1, <3>2, <3>3
    <2>2. CASE q = m /\ photo[q].ver = job.item.ver
      BY <1>a, <2>2
    <2> QED BY <1>11, <2>1, <2>2
  <1>12. ASSUME job.item.origin = "new" PROVE AllFound'
    <2> DEFINE to == <<job.item.gen, m>>
    <2>1. /\ m \in Listed =>
               /\ photo[m].gen >= job.item.gen
               /\ photo[m].ver # job.item.ver => photo[m].gen > job.item.gen
          /\ \A q \in TodoTargets : q # m /\ ~Before(to, At(q)) => Led(q)
      BY <1>12 DEF EngineInv, NewItem
    <2>2. gcur' = to /\ scan' = scan /\ to \in Nat \X Nat
      BY <1>1, <1>2, <1>12
    <2> SUFFICES ASSUME NEW q \in TodoTargets' PROVE Ahead(q)' \/ Led(q)'
      BY DEF AllFound
    <2>3. CASE q # m
      <3>1. \A ver, states : Has(q, ver, states)' <=> Has(q, ver, states)
        BY <2>3
      <3>2. q \in TodoTargets
        BY <1>8, <3>1
      <3>3. CASE Before(to, At(q))
        <4> HIDE DEF to
        <4> QED BY <1>2, <1>7, <2>2, <3>3 DEF Ahead, Before
      <3>4. CASE ~Before(to, At(q))
        BY <2>1, <2>2, <2>3, <3>1, <3>2, <3>4 DEF Led
      <3> QED BY <3>3, <3>4
    <2>4. CASE q = m /\ photo[q].ver # job.item.ver
      <3>1. photo[m].gen > job.item.gen
        BY <1>7, <2>1, <2>4
      <3>2. Before(to, At(m))
        BY <1>1, <3>1, ShapeFacts DEF Before
      <3> HIDE DEF to
      <3> QED BY <1>2, <1>7, <2>2, <2>4, <3>2 DEF Ahead, Before
    <2>5. CASE q = m /\ photo[q].ver = job.item.ver
      BY <1>a, <2>5
    <2> QED BY <2>3, <2>4, <2>5
  <1>13. ASSUME job.item.origin = "scan" PROVE AllFound'
    <2>1. /\ scan.dirty /\ scan.cursor < m
          /\ m \in Listed /\ photo[m].ver # job.item.ver => Ahead(m)
          /\ ~job.late => \A q \in TodoTargets : q < m =>
               Ahead(q) \/ Has(q, photo[q].ver, Open) \/ q \in swept
      BY <1>13 DEF EngineInv, ScanItem
    <2>2. gcur' = gcur /\ scan'.dirty /\ scan'.cursor = m
      BY <1>2, <1>13
    <2>3. \A q : Ahead(q) => Ahead(q)'
      BY <1>7, <2>2 DEF Ahead, Before
    <2> SUFFICES ASSUME NEW q \in TodoTargets' PROVE Ahead(q)' \/ Led(q)'
      BY DEF AllFound
    <2>4. CASE q > m
      BY <2>2, <2>4 DEF Led
    <2>5. CASE q = m
      BY <1>7, <1>a, <2>1, <2>3, <2>5
    <2>6. CASE q < m
      <3>1. CASE job.late
        <4>1. job'.item.media # q
          BY <1>3, <1>7, NoItemFacts, ShapeFacts
        <4> QED BY <1>2, <1>13, <3>1, <4>1, SweptFound
      <3>2. CASE ~job.late
        <4>1. \A ver, states : Has(q, ver, states)' <=> Has(q, ver, states)
          BY <1>1, <1>7, <2>6
        <4>2. q \in TodoTargets
          BY <1>8, <4>1
        <4>3. Ahead(q) \/ Has(q, photo[q].ver, Open) \/ q \in swept
          BY <2>1, <2>6, <3>2, <4>2
        <4> QED BY <1>9, <1>10, <2>3, <4>1, <4>3
      <3> QED BY <3>1, <3>2
    <2> QED BY <1>1, <1>7, <2>4, <2>5, <2>6
  <1>14. AllFound'
    BY <1>1, <1>11, <1>12, <1>13
  <1> QED BY <1>3, <1>4, <1>5, <1>6, <1>14, Idles DEF InHand

LEMMA TimePasses ==
    ASSUME Shape, EngineInv, UNCHANGED <<photo, gcur>>, job'.item.gen = job.item.gen,
           events' \in Nat, events' >= events
    PROVE  Clocks'
  <1>1. /\ gcur # None => gcur[1] <= 1 + events'
        /\ job.item.gen <= 1 + events'
    BY ShapeFacts DEF EngineInv, Clocks
  <1> QED BY <1>1, StillTimed DEF Clocks

(* The photo is still in hand.                                             *)
LEMMA OnItem ==
    ASSUME Shape, EngineInv, job.pc \in InHand,
           UNCHANGED <<photo, scope, skips, pending, gcur, scan>>,
           job' \in JobRec, job'.pc \in InHand, job'.late = job.late,
           job'.item.media = job.item.media, job'.item.gen = job.item.gen,
           job'.item.origin = job.item.origin,
           job'.item.ver = job.item.ver \/ job'.item.ver = photo[job.item.media].ver,
           swept \subseteq swept', swept' \subseteq Photos,
           events' \in Nat, events' >= events,
           orders' \in Seq(OrderRec), RowsAreOld', ItemIsRow', Flights',
           \A p : p # job.item.media =>
             \A ver, states : Has(p, ver, states)' <=> Has(p, ver, states),
           \A p : p = job.item.media /\ p \in TodoTargets' => Ahead(p)' \/ Led(p)'
    PROVE  Shape' /\ EngineInv'
  <1> DEFINE m == job.item.media
  <1>1. Shape' /\ gcur # None
    BY InHandFacts DEF Shape
  <1>2. Clocks'
    BY TimePasses
  <1>3. Control' /\ Batched' /\ CountedZero'
    BY <1>1 DEF Control, Batched, CountedZero, Between, InHand
  <1>4. /\ \A p : At(p)' = At(p) /\ Ahead(p)' = Ahead(p)
        /\ Listed' = Listed /\ InScope' = InScope
    BY DEF At, Ahead, Before, Listed, InScope
  <1>5. \A q \in TodoTargets' : q # m =>
          /\ q \in TodoTargets
          /\ Has(q, photo[q].ver, Open)' <=> Has(q, photo[q].ver, Open)
          /\ Led(q) => Led(q)'
    <2> SUFFICES ASSUME NEW q \in TodoTargets', q # m
                 PROVE  /\ q \in TodoTargets
                        /\ Has(q, photo[q].ver, Open)' <=> Has(q, photo[q].ver, Open)
                        /\ Led(q) => Led(q)'
      OBVIOUS
    <2>1. \A ver, states : Has(q, ver, states)' <=> Has(q, ver, states)
      OBVIOUS
    <2> QED BY <1>4, <2>1 DEF TodoTargets, IsTodo, Led
  <1>6. NewItem'
    <2> SUFFICES ASSUME job.item.origin = "new" PROVE NewItem'
      BY DEF NewItem
    <2> DEFINE to == <<job.item.gen, m>>
    <2>1. /\ Before(gcur, to)
          /\ m \in Listed =>
               /\ photo[m].gen >= job.item.gen
               /\ photo[m].ver # job.item.ver => photo[m].gen > job.item.gen
          /\ \A q \in TodoTargets : q # m /\ ~Before(to, At(q)) => Led(q)
      BY DEF EngineInv, NewItem
    <2>2. Before(gcur', to)
      BY <2>1 DEF Before
    <2>3. \A q \in TodoTargets' : q # m /\ ~Before(to, At(q)') => Led(q)'
      BY <1>4, <1>5, <2>1
    <2>4. m \in Listed' =>
            /\ photo'[m].gen >= job.item.gen
            /\ photo'[m].ver # job'.item.ver => photo'[m].gen > job.item.gen
      BY <1>4, <2>1
    <2>5. <<job'.item.gen, job'.item.media>> = to
      OBVIOUS
    <2> HIDE DEF to
    <2> QED BY <2>2, <2>3, <2>4, <2>5 DEF NewItem, Before
  <1>7. ScanItem'
    <2> SUFFICES ASSUME job.item.origin = "scan" PROVE ScanItem'
      BY DEF ScanItem
    <2>1. /\ scan.dirty /\ scan.cursor < m
          /\ m \in Listed /\ photo[m].ver # job.item.ver => Ahead(m)
          /\ ~job.late => \A q \in TodoTargets : q < m =>
               Ahead(q) \/ Has(q, photo[q].ver, Open) \/ q \in swept
      BY DEF EngineInv, ScanItem
    <2>2. \A q \in TodoTargets' : q < m => q # m
      BY ShapeFacts
    <2>3. ~job.late => \A q \in TodoTargets' : q < m =>
            Ahead(q)' \/ Has(q, photo[q].ver, Open)' \/ q \in swept'
      BY <1>4, <1>5, <2>1, <2>2
    <2>4. m \in Listed' /\ photo'[m].ver # job'.item.ver => Ahead(m)'
      BY <1>4, <2>1
    <2> QED BY <2>1, <2>3, <2>4 DEF ScanItem
  <1>8. AllFound'
    <2> SUFFICES ASSUME NEW q \in TodoTargets' PROVE Ahead(q)' \/ Led(q)'
      BY DEF AllFound
    <2>1. CASE q = m
      BY <2>1
    <2>2. CASE q # m
      BY <1>1, <1>4, <1>5, <2>2 DEF EngineInv, AllFound
    <2> QED BY <2>1, <2>2
  <1> QED BY <1>1, <1>2, <1>3, <1>6, <1>7, <1>8 DEF EngineInv

(* The order in hand gets an outcome.                                      *)
LEMMA OrderTurned ==
    ASSUME Shape, EngineInv, job.pc \in InHand, job.item.order # 0, photo' = photo,
           NEW state \in States \ {"transferring"}, NEW tries \in Nat,
           Turn(job.item.order, state, tries)
    PROVE  /\ orders' \in Seq(OrderRec) /\ RowsAreOld' /\ Flying' = {}
           /\ \A p : p # job.item.media =>
                \A ver, states : Has(p, ver, states)' <=> Has(p, ver, states)
           /\ \A p : p = job.item.media =>
                /\ \A ver, states : Has(p, ver, states)' <=>
                                    job.item.ver = ver /\ state \in states
                /\ \A ver, states : ver # job.item.ver =>
                                    ~Has(p, ver, states)' /\ ~Has(p, ver, states)
           /\ Len(orders') = Len(orders)
           /\ \A p : Current(p)' = Current(p)
           /\ orders'[job.item.order].media = job.item.media
           /\ orders'[job.item.order].ver = job.item.ver
  <1>1. PICK i \in 1..Len(orders) : i = job.item.order
    BY InHandFacts
  <1>2. /\ i = Current(orders[i].media) /\ orders[i].media = job.item.media
        /\ orders[i].ver = job.item.ver /\ Flying \subseteq {i}
    BY <1>1, InHandFacts
  <1>3. Turn(i, state, tries) /\ state \in States
    BY <1>1
  <1>4. /\ orders' \in Seq(OrderRec) /\ Len(orders') = Len(orders)
        /\ \A k \in 1..Len(orders) : k # i => orders'[k] = orders[k]
        /\ orders'[i].media = orders[i].media /\ orders'[i].ver = orders[i].ver
        /\ orders'[i].state = state
        /\ \A p : Current(p)' = Current(p)
        /\ \A ver, states : Has(orders[i].media, ver, states)' <=>
             orders[i].ver = ver /\ state \in states
        /\ \A p : p # orders[i].media =>
             \A ver, states : Has(p, ver, states)' <=> Has(p, ver, states)
    BY <1>2, <1>3, Turned
  <1>5. DOMAIN orders = 1..Len(orders) /\ DOMAIN orders' = 1..Len(orders)
    BY <1>4, CurrentFacts
  <1>6. RowsAreOld'
    BY <1>4, <1>5 DEF EngineInv, RowsAreOld
  <1>7. Flying' = {}
    <2>1. \A k \in 1..Len(orders) : orders'[k].state = "transferring" => k # i /\ k \in Flying
      BY <1>4, <1>5 DEF Flying
    <2> QED BY <1>2, <1>5, <2>1 DEF Flying
  <1>8. \A ver, states : ver # job.item.ver => ~Has(orders[i].media, ver, states)
    BY <1>2 DEF Has
  <1>9. \A p : p = job.item.media =>
          /\ \A ver, states : Has(p, ver, states)' <=> job.item.ver = ver /\ state \in states
          /\ \A ver, states : ver # job.item.ver =>
                              ~Has(p, ver, states)' /\ ~Has(p, ver, states)
    <2> SUFFICES ASSUME NEW p, p = job.item.media
                 PROVE  /\ \A ver, states : Has(p, ver, states)' <=>
                                            job.item.ver = ver /\ state \in states
                        /\ \A ver, states : ver # job.item.ver =>
                              ~Has(p, ver, states)' /\ ~Has(p, ver, states)
      OBVIOUS
    <2>1. p = orders[i].media
      BY <1>2
    <2>2. \A ver, states : Has(p, ver, states)' <=> job.item.ver = ver /\ state \in states
      BY <1>2, <1>4, <2>1, CurHasNext
    <2> QED BY <1>8, <2>1, <2>2
  <1> QED BY <1>1, <1>2, <1>4, <1>6, <1>7, <1>9

(* A new order for the photo in hand.                                      *)
LEMMA OrderAdded ==
    ASSUME Shape, EngineInv, job.pc \in InHand, Flying = {}, photo' = photo,
           NEW row \in OrderRec, row.media = job.item.media, row.ver = job.item.ver,
           Add(row)
    PROVE  /\ orders' \in Seq(OrderRec) /\ RowsAreOld' /\ Flying' \subseteq {Len(orders) + 1}
           /\ row.state # "transferring" => Flying' = {}
           /\ \A p : p # job.item.media =>
                \A ver, states : Has(p, ver, states)' <=> Has(p, ver, states)
           /\ \A p : p = job.item.media =>
                \A ver, states : Has(p, ver, states)' <=>
                                 job.item.ver = ver /\ row.state \in states
           /\ Len(orders) + 1 \in 1..Len(orders')
           /\ \A p : p = job.item.media => Current(p)' = Len(orders) + 1
           /\ orders'[Len(orders) + 1] = row
  <1>1. /\ orders' \in Seq(OrderRec) /\ Len(orders') = Len(orders) + 1
        /\ \A i \in 1..Len(orders) : orders'[i] = orders[i]
        /\ orders'[Len(orders) + 1] = row
        /\ Current(row.media)' = Len(orders) + 1
        /\ \A ver, states : Has(row.media, ver, states)' <=>
             row.ver = ver /\ row.state \in states
        /\ \A p : p # row.media =>
             \A ver, states : Has(p, ver, states)' <=> Has(p, ver, states)
    BY Appended
  <1>2. /\ DOMAIN orders = 1..Len(orders) /\ Len(orders) \in Nat
        /\ DOMAIN orders' = 1..(Len(orders) + 1)
    BY <1>1, CurrentFacts
  <1>3. RowsAreOld'
    <2>1. row.media \in Photos /\ row.ver > 0 /\ row.ver <= photo[row.media].ver
      BY InHandFacts
    <2> QED BY <1>1, <1>2, <2>1 DEF EngineInv, RowsAreOld
  <1>4. \A i \in Flying' : i = Len(orders) + 1 /\ row.state = "transferring"
    <2>1. \A i \in DOMAIN orders : orders[i].state # "transferring"
      BY DEF Flying
    <2> QED BY <1>1, <1>2, <2>1 DEF Flying
  <1>5. \A p : p = job.item.media => p = row.media
    OBVIOUS
  <1>6. \A p : p = row.media =>
          /\ Current(p)' = Len(orders) + 1
          /\ \A ver, states : Has(p, ver, states)' <=> row.ver = ver /\ row.state \in states
    BY <1>1, CurHasNext
  <1> QED BY <1>1, <1>2, <1>3, <1>4, <1>5, <1>6

(* What the ends of a photo share.                                         *)
LEMMA TurnedDone ==
    ASSUME Shape, EngineInv, job.pc \in InHand, job.item.order # 0,
           UNCHANGED <<photo, scope, skips, pending>>,
           NEW state \in (Settled \cup Open) \ {"transferring"}, NEW tries \in Nat,
           Turn(job.item.order, state, tries), job' = Next1, Advance,
           swept \subseteq swept', swept' \subseteq Photos,
           job.item.origin = "scan" /\ job.late => swept' = swept \cup Overlooked',
           events' \in Nat, events' >= events
    PROVE  Shape' /\ EngineInv'
  <1>1. state \in States \ {"transferring"}
    BY DEF States
  <1>2. /\ orders' \in Seq(OrderRec) /\ RowsAreOld' /\ Flying' = {}
        /\ \A p : p # job.item.media =>
             \A ver, states : Has(p, ver, states)' <=> Has(p, ver, states)
        /\ \A p : p = job.item.media =>
             /\ \A ver, states : Has(p, ver, states)' <=>
                                 job.item.ver = ver /\ state \in states
             /\ \A ver, states : ver # job.item.ver =>
                                 ~Has(p, ver, states)' /\ ~Has(p, ver, states)
    BY <1>1, OrderTurned
  <1>3. \A p : p = job.item.media /\ photo[p].ver = job.item.ver /\ p \in TodoTargets' =>
          Has(p, photo[p].ver, Open)'
    <2>1. \A p \in TodoTargets' : ~Has(p, photo[p].ver, Settled)'
      BY DEF TodoTargets, IsTodo
    <2> QED BY <1>2, <2>1
  <1>4. \A p : p = job.item.media /\ job.item.origin = "order" =>
          \A ver, states : ver # job.item.ver =>
            (Has(p, ver, states)' <=> Has(p, ver, states))
    BY <1>2
  <1> QED BY <1>2, <1>3, <1>4, ItemDone

LEMMA AddedDone ==
    ASSUME Shape, EngineInv, job.pc \in InHand, job.item.order = 0,
           UNCHANGED <<photo, scope, skips, pending>>,
           NEW row \in OrderRec, row.media = job.item.media, row.ver = job.item.ver,
           row.state \in {"sourceGone", "failed"},
           Add(row), job' = Next1, Advance,
           swept \subseteq swept', swept' \subseteq Photos,
           job.item.origin = "scan" /\ job.late => swept' = swept \cup Overlooked',
           events' \in Nat, events' >= events
    PROVE  Shape' /\ EngineInv'
  <1>1. Flying = {} /\ job.item.origin # "order"
    BY InHandFacts
  <1>2. /\ orders' \in Seq(OrderRec) /\ RowsAreOld' /\ Flying' = {}
        /\ \A p : p # job.item.media =>
             \A ver, states : Has(p, ver, states)' <=> Has(p, ver, states)
        /\ \A p : p = job.item.media =>
             \A ver, states : Has(p, ver, states)' <=>
                              job.item.ver = ver /\ row.state \in states
    BY <1>1, OrderAdded
  <1>3. \A p : p = job.item.media /\ photo[p].ver = job.item.ver /\ p \in TodoTargets' =>
          Has(p, photo[p].ver, Open)'
    <2>1. \A p \in TodoTargets' : ~Has(p, photo[p].ver, Settled)'
      BY DEF TodoTargets, IsTodo
    <2> QED BY <1>2, <2>1 DEF Open, Settled
  <1> QED BY <1>1, <1>2, <1>3, ItemDone

LEMMA SweptBySweep ==
    ASSUME Shape, Sweep, UNCHANGED scope
    PROVE  /\ swept \subseteq swept' /\ swept' \subseteq Photos
           /\ job.item.origin = "scan" /\ job.late => swept' = swept \cup Overlooked'
  BY SweepGrows DEF Shape

LEMMA LaterOrNow ==
    ASSUME Shape, UNCHANGED events \/ events' = events + 1
    PROVE  events' \in Nat /\ events' >= events
  BY DEF Shape

LEMMA KeepsLookupFresh == ASSUME Shape, EngineInv, LookupFresh PROVE Shape' /\ EngineInv'
  <1>1. /\ job.pc = "lookup" /\ job.pc \in InHand /\ job.item.order = 0
        /\ UNCHANGED <<photo, scope, orders, skips, pending, events>> /\ Sweep
    BY DEF LookupFresh, InHand, Item, media, intent, count
  <1>2. /\ swept \subseteq swept' /\ swept' \subseteq Photos
        /\ job.item.origin = "scan" /\ job.late => swept' = swept \cup Overlooked'
        /\ events' \in Nat /\ events' >= events
    BY <1>1, SweptBySweep, LaterOrNow
  <1>3. /\ \A p : Current(p)' = Current(p)
        /\ \A p, ver, states : Has(p, ver, states)' <=> Has(p, ver, states)
        /\ Flying' = Flying /\ InScope' = InScope
    BY <1>1 DEF Current, Has, Flying, InScope, Listed
  <1>4. orders' \in Seq(OrderRec) /\ RowsAreOld'
    BY <1>1 DEF Shape, EngineInv, RowsAreOld
  <1>5. /\ gcur # None /\ job.item.media \in Photos /\ job.item.ver > 0
        /\ job.item.ver <= photo[job.item.media].ver /\ Flying = {}
        /\ job.item.origin \in {"new", "scan"}
    BY <1>1, InHandFacts
  <1>6. CASE job.item.media \in InScope
    <2> DEFINE v == photo[job.item.media].ver
    <2>1. job' = [Go("import") EXCEPT !.item.ver = v] /\ UNCHANGED <<gcur, scan>>
      BY <1>6 DEF LookupFresh, Item, Stay
    <2>2. v \in Nat /\ v > 0 /\ v >= job.item.ver
      BY <1>5, ShapeFacts
    <2> HIDE DEF v
    <2>3. /\ job' \in JobRec /\ job'.pc = "import" /\ job'.late = job.late
          /\ job'.item.media = job.item.media /\ job'.item.gen = job.item.gen
          /\ job'.item.origin = job.item.origin /\ job'.item.order = job.item.order
          /\ job'.item.ver = v
      BY <2>1, <2>2 DEF Shape, JobRec, ItemRec, Go, Stages
    <2> USE DEF v
    <2>4. ItemIsRow'
      <3>1. job'.item.ver > 0 /\ job'.item.ver <= photo'[job'.item.media].ver
        BY <1>1, <1>5, <2>2, <2>3
      <3> QED BY <1>1, <1>5, <2>3, <3>1 DEF ItemIsRow
    <2>5. Flights'
      BY <1>3, <1>5, <2>3 DEF Flights
    <2>6. \A p : p = job.item.media /\ p \in TodoTargets' => Ahead(p)' \/ Led(p)'
      <3>1. UNCHANGED <<photo, scope, orders, skips, gcur, scan>>
        BY <1>1, <2>1
      <3>2. /\ TodoTargets' = TodoTargets /\ \A p : Ahead(p)' = Ahead(p) /\ (Led(p) => Led(p)')
        BY <1>2, <3>1, SameStore
      <3> QED BY <1>5, <3>2 DEF EngineInv, AllFound
    <2>7. job'.item.ver = job.item.ver \/ job'.item.ver = photo[job.item.media].ver
      BY <2>3
    <2>8. job'.pc \in InHand
      BY <2>3 DEF InHand
    <2> HIDE DEF v
    <2> QED BY <1>1, <1>2, <1>3, <1>4, <2>1, <2>3, <2>4, <2>5, <2>6, <2>7, <2>8, OnItem
  <1>7. CASE job.item.media \notin InScope
    <2>1. job' = Next1 /\ Advance
      BY <1>7 DEF LookupFresh, Item
    <2>2. \A p : p = job.item.media /\ photo[p].ver = job.item.ver /\ p \in TodoTargets' =>
            Has(p, photo[p].ver, Open)'
      BY <1>3, <1>7 DEF TodoTargets
    <2>3. Flying' = {}
      BY <1>3, <1>5
    <2>4. \A p : p = job.item.media /\ job.item.origin = "order" =>
            \A ver, states : ver # job.item.ver =>
              (Has(p, ver, states)' <=> Has(p, ver, states))
      BY <1>3
    <2> QED BY <1>1, <1>2, <1>3, <1>4, <2>1, <2>2, <2>3, <2>4, ItemDone
  <1> QED BY <1>6, <1>7

LEMMA KeepsImportMissing == ASSUME Shape, EngineInv, ImportMissing PROVE Shape' /\ EngineInv'
  <1>1. /\ job.pc = "import" /\ job.pc \in InHand
        /\ UNCHANGED <<photo, scope, skips, pending>> /\ Sweep /\ job' = Next1
    BY DEF ImportMissing, InHand, media, intent
  <1>2. /\ swept \subseteq swept' /\ swept' \subseteq Photos
        /\ job.item.origin = "scan" /\ job.late => swept' = swept \cup Overlooked'
        /\ events' \in Nat /\ events' >= events
    <2>1. UNCHANGED events \/ events' = events + 1
      BY DEF ImportMissing, Happens, count
    <2> QED BY <1>1, <2>1, SweptBySweep, LaterOrNow
  <1>3. CASE job.item.order = 0
    <2> DEFINE row == NewOrder(job.item.media, job.item.ver, 0, "sourceGone")
    <2>1. Add(row) /\ Advance
      BY <1>3 DEF ImportMissing, Item
    <2>2. /\ row \in OrderRec /\ row.media = job.item.media /\ row.ver = job.item.ver
          /\ row.state \in {"sourceGone", "failed"}
      BY <1>1, InHandFacts, ShapeFacts DEF NewOrder, OrderRec, States, Settled
    <2> HIDE DEF row
    <2> QED BY <1>1, <1>2, <1>3, <2>1, <2>2, AddedDone
  <1>4. CASE job.item.order # 0
    <2>1. job.item.origin = "order"
      BY <1>1, <1>4, InHandFacts
    <2>2. Turn(job.item.order, "sourceGone", 0) /\ Advance
      BY <1>4, <2>1 DEF ImportMissing, Item, Advance, Stay
    <2>3. "sourceGone" \in (Settled \cup Open) \ {"transferring"}
      BY DEF Settled
    <2> QED BY <1>1, <1>2, <1>4, <2>2, <2>3, TurnedDone
  <1> QED BY <1>3, <1>4

LEMMA KeepsImportFailed == ASSUME Shape, EngineInv, ImportFailed PROVE Shape' /\ EngineInv'
  <1>1. /\ job.pc = "import" /\ job.pc \in InHand
        /\ UNCHANGED <<photo, scope, skips, pending>> /\ Sweep /\ job' = Next1
    BY DEF ImportFailed, InHand, media, intent
  <1>2. /\ swept \subseteq swept' /\ swept' \subseteq Photos
        /\ job.item.origin = "scan" /\ job.late => swept' = swept \cup Overlooked'
        /\ events' \in Nat /\ events' >= events
    <2>1. events' = events + 1
      BY DEF ImportFailed, Happens
    <2> QED BY <1>1, <2>1, SweptBySweep, LaterOrNow
  <1>3. CASE job.item.order = 0
    <2> DEFINE row == [NewOrder(job.item.media, job.item.ver, 0, "failed") EXCEPT !.tries = 1]
    <2>1. Add(row) /\ Advance
      BY <1>3 DEF ImportFailed, Item
    <2>2. /\ row \in OrderRec /\ row.media = job.item.media /\ row.ver = job.item.ver
          /\ row.state \in {"sourceGone", "failed"}
      BY <1>1, InHandFacts, ShapeFacts DEF NewOrder, OrderRec, States, Open
    <2> HIDE DEF row
    <2> QED BY <1>1, <1>2, <1>3, <2>1, <2>2, AddedDone
  <1>4. CASE job.item.order # 0
    <2>1. job.item.origin = "order"
      BY <1>1, <1>4, InHandFacts
    <2>2. Turn(job.item.order, "failed", 1) /\ Advance
      BY <1>4, <2>1 DEF ImportFailed, Item, Advance, Stay
    <2>3. "failed" \in (Settled \cup Open) \ {"transferring"}
      BY DEF Open
    <2> QED BY <1>1, <1>2, <1>4, <2>2, <2>3, TurnedDone
  <1> QED BY <1>3, <1>4

(* The outcome of a delivery.                                              *)
LEMMA Commits ==
    ASSUME Shape, EngineInv, NEW state \in {"confirmed", "sourceGone", "failed"},
           NEW tries \in {0, 1}, Commit(state, tries), Sweep,
           UNCHANGED events \/ events' = events + 1
    PROVE  Shape' /\ EngineInv'
  <1>1. /\ job.pc = "deliver" /\ job.pc \in InHand
        /\ UNCHANGED <<photo, scope, skips, pending>> /\ job' = Next1
        /\ Turn(job.item.order, state, tries) /\ Advance
    BY DEF Commit, InHand, media, intent, Item
  <1>2. job.item.order # 0
    BY <1>1, InHandFacts
  <1>3. state \in (Settled \cup Open) \ {"transferring"} /\ tries \in Nat
    BY DEF Settled, Open
  <1>4. /\ swept \subseteq swept' /\ swept' \subseteq Photos
        /\ job.item.origin = "scan" /\ job.late => swept' = swept \cup Overlooked'
        /\ events' \in Nat /\ events' >= events
    BY <1>1, SweptBySweep, LaterOrNow
  <1> QED BY <1>1, <1>2, <1>3, <1>4, TurnedDone

LEMMA KeepsConfirmed == ASSUME Shape, EngineInv, Confirmed PROVE Shape' /\ EngineInv'
  <1>1. Commit("confirmed", 0) \/ Commit("failed", 1)
    BY DEF Confirmed
  <1>2. Sweep /\ UNCHANGED events
    BY DEF Confirmed, count
  <1> QED BY <1>1, <1>2, Commits

LEMMA KeepsSourceMissing == ASSUME Shape, EngineInv, SourceMissing PROVE Shape' /\ EngineInv'
  <1>1. Commit("sourceGone", 0) /\ Sweep /\ UNCHANGED events
    BY DEF SourceMissing, count
  <1> QED BY <1>1, Commits

LEMMA KeepsItemFailure == ASSUME Shape, EngineInv, ItemFailure PROVE Shape' /\ EngineInv'
  <1>1. job.pc = "deliver" /\ job.pc \in InHand /\ events' = events + 1 /\ Sweep
    BY DEF ItemFailure, Happens, InHand
  <1>2. CASE job.again
    <2>1. Commit("failed", 1)
      BY <1>2 DEF ItemFailure
    <2> QED BY <1>1, <2>1, Commits
  <1>3. CASE ~job.again
    <2>1. /\ job' = [job EXCEPT !.again = TRUE]
          /\ UNCHANGED <<photo, scope, orders, skips, gcur, scan, pending>>
      BY <1>3 DEF ItemFailure, media, store, intent
    <2>2. job' \in JobRec /\ job'.pc = job.pc /\ job'.item = job.item /\ job'.late = job.late
          /\ job'.hash = job.hash
      BY <2>1 DEF Shape, JobRec
    <2>3. /\ swept \subseteq swept' /\ swept' \subseteq Photos
          /\ events' \in Nat /\ events' >= events
      BY <1>1, <2>1, SweptBySweep, LaterOrNow
    <2>4. /\ \A p : Current(p)' = Current(p) /\ Ahead(p)' = Ahead(p)
          /\ \A p, ver, states : Has(p, ver, states)' <=> Has(p, ver, states)
          /\ TodoTargets' = TodoTargets /\ Flying' = Flying
          /\ \A p : Led(p) => Led(p)'
      BY <2>1, <2>3, SameStore
    <2>5. orders' \in Seq(OrderRec) /\ RowsAreOld' /\ ItemIsRow' /\ Flights'
      BY <1>1, <2>1, <2>2, <2>4
         DEF Shape, EngineInv, RowsAreOld, ItemIsRow, Flights, InHand, Flying
    <2>6. \A p : p = job.item.media /\ p \in TodoTargets' => Ahead(p)' \/ Led(p)'
      BY <1>1, <2>4, InHandFacts DEF EngineInv, AllFound
    <2>7. /\ job'.pc \in InHand /\ job'.item.media = job.item.media
          /\ job'.item.gen = job.item.gen /\ job'.item.origin = job.item.origin
          /\ job'.item.ver = job.item.ver
      BY <1>1, <2>2
    <2> QED BY <1>1, <2>1, <2>2, <2>3, <2>4, <2>5, <2>6, <2>7, OnItem
  <1> QED BY <1>2, <1>3

LEMMA KeepsLookupOrder == ASSUME Shape, EngineInv, LookupOrder PROVE Shape' /\ EngineInv'
  <1>1. /\ job.pc = "lookup" /\ job.pc \in InHand /\ job.item.order # 0
        /\ UNCHANGED <<photo, scope, skips, gcur, scan, pending, events, swept>>
    BY DEF LookupOrder, InHand, Item, media, intent, count, Quiet, ghosts, Stay
  <1>2. /\ job.item.origin = "order" /\ gcur # None
        /\ \A i \in Flying : i = job.item.order
        /\ job.item.order \in 1..Len(orders) /\ orders[job.item.order].ver = job.item.ver
    BY <1>1, InHandFacts
  <1>3. Advance
    BY <1>1, <1>2 DEF Advance, Item
  <1>4. /\ swept \subseteq swept' /\ swept' \subseteq Photos
        /\ events' \in Nat /\ events' >= events
        /\ ~(job.item.origin = "scan" /\ job.late)
    BY <1>1, <1>2, ShapeFacts DEF Shape
  <1>5. CASE ~Here \/ photo[job.item.media].ver # Row.ver
    <2>1. Turn(job.item.order, "sourceGone", 0) /\ job' = Next1
      BY <1>5 DEF LookupOrder, Item
    <2>2. "sourceGone" \in (Settled \cup Open) \ {"transferring"}
      BY DEF Settled
    <2> QED BY <1>1, <1>3, <1>4, <2>1, <2>2, TurnedDone
  <1>6. CASE /\ ~(~Here \/ photo[job.item.media].ver # Row.ver)
             /\ job.item.media \notin scope
    <2>1. job' = Next1
      BY <1>6 DEF LookupOrder, Item
    <2>2. CASE Row.state = "transferring"
      <3>1. Turn(job.item.order, "pending", 0)
        BY <1>6, <2>2 DEF LookupOrder, Item
      <3>2. "pending" \in (Settled \cup Open) \ {"transferring"}
        BY DEF Open
      <3> QED BY <1>1, <1>3, <1>4, <2>1, <3>1, <3>2, TurnedDone
    <2>3. CASE Row.state # "transferring"
      <3>1. orders' = orders
        BY <1>6, <2>3 DEF LookupOrder, Item
      <3>2. Flying' = {}
        BY <1>2, <2>3, <3>1 DEF Flying, Row, Item
      <3>3. \A p, ver, states : Has(p, ver, states)' <=> Has(p, ver, states)
        BY <3>1 DEF Has, Current
      <3>4. orders' \in Seq(OrderRec) /\ RowsAreOld'
        BY <1>1, <3>1 DEF Shape, EngineInv, RowsAreOld
      <3>5. \A p : p = job.item.media => p \notin TodoTargets'
        BY <1>1, <1>6 DEF TodoTargets, InScope
      <3> QED BY <1>1, <1>3, <1>4, <2>1, <3>2, <3>3, <3>4, <3>5, ItemDone
    <2> QED BY <2>2, <2>3
  <1>7. CASE /\ ~(~Here \/ photo[job.item.media].ver # Row.ver)
             /\ job.item.media \in scope
    <2>1. job' = Go("import") /\ orders' = orders
      BY <1>7 DEF LookupOrder, Item
    <2>2. /\ job' \in JobRec /\ job'.pc = "import" /\ job'.item = job.item
          /\ job'.late = job.late
      BY <2>1, GoFacts DEF Stages
    <2>3. UNCHANGED <<photo, scope, orders, skips, gcur, scan>>
      BY <1>1, <2>1
    <2>4. /\ \A p : Current(p)' = Current(p) /\ Ahead(p)' = Ahead(p)
          /\ \A p, ver, states : Has(p, ver, states)' <=> Has(p, ver, states)
          /\ TodoTargets' = TodoTargets /\ Flying' = Flying
          /\ \A p : Led(p) => Led(p)'
      BY <1>4, <2>3, SameStore
    <2>5. orders' \in Seq(OrderRec) /\ RowsAreOld'
      BY <2>3 DEF Shape, EngineInv, RowsAreOld
    <2>6. ItemIsRow'
      BY <1>1, <2>2, <2>3, <2>4 DEF EngineInv, ItemIsRow
    <2>7. Flights'
      BY <1>1, <2>2, <2>3, <2>4 DEF EngineInv, Flights, Flying
    <2>8. \A p : p = job.item.media /\ p \in TodoTargets' => Ahead(p)' \/ Led(p)'
      BY <1>2, <2>4 DEF EngineInv, AllFound
    <2>9. /\ job'.pc \in InHand /\ job'.item.media = job.item.media
          /\ job'.item.gen = job.item.gen /\ job'.item.origin = job.item.origin
          /\ job'.item.ver = job.item.ver
      BY <2>2 DEF InHand
    <2> QED BY <1>1, <1>4, <2>1, <2>2, <2>4, <2>5, <2>6, <2>7, <2>8, <2>9, OnItem
  <1> QED BY <1>5, <1>6, <1>7

(* A new photo whose version in hand is not the one MediaStore has: G or S *)
(* has yet to come to the new one.                                         *)
LEMMA NewerIsAhead ==
    ASSUME Shape, EngineInv, job.pc \in InHand, job.item.origin \in {"new", "scan"},
           NEW p, p = job.item.media, p \in Listed, photo[p].ver # job.item.ver
    PROVE  Ahead(p)
  <1>1. /\ gcur # None /\ p \in Photos /\ p \in Nat /\ job.item.gen \in Nat
        /\ At(p) = <<photo[p].gen, p>> /\ photo[p].gen \in Nat
        /\ gcur[1] \in Nat /\ gcur[2] \in Nat
    BY InHandFacts, ShapeFacts
  <1>2. CASE job.item.origin = "new"
    <2> DEFINE to == <<job.item.gen, p>>
    <2>1. Before(gcur, to) /\ photo[p].gen > job.item.gen
      BY <1>2 DEF EngineInv, NewItem
    <2>2. Before(gcur, At(p))
      BY <1>1, <2>1 DEF Before
    <2> QED BY <1>1, <2>2 DEF Ahead
  <1>3. CASE job.item.origin = "scan"
    BY <1>3 DEF EngineInv, ScanItem
  <1> QED BY <1>2, <1>3

(* The bytes are in an order of their own, on their way.                   *)
LEMMA Delivers ==
    ASSUME Shape, EngineInv, job.pc \in InHand,
           UNCHANGED <<photo, scope, skips, pending, gcur, scan, events, swept>>,
           job' \in JobRec, job'.pc = "deliver", job'.late = job.late,
           job'.item.media = job.item.media, job'.item.gen = job.item.gen,
           job'.item.origin = job.item.origin, job'.item.ver = job.item.ver,
           orders' \in Seq(OrderRec), RowsAreOld',
           NEW i \in 1..Len(orders'), job'.item.order = i,
           \A p : p = job.item.media => Current(p)' = i,
           orders'[i].media = job.item.media, orders'[i].ver = job.item.ver,
           orders'[i].state = "transferring", orders'[i].hash = job'.hash,
           Flying' \subseteq {i},
           \A p : p # job.item.media =>
             \A ver, states : Has(p, ver, states)' <=> Has(p, ver, states),
           \A p : p = job.item.media =>
             \A ver, states : Has(p, ver, states)' <=>
                              job.item.ver = ver /\ "transferring" \in states,
           \/ job.item.origin \in {"new", "scan"}
           \/ \A p : p = job.item.media =>
                \A ver, states : ver # job.item.ver => ~Has(p, ver, states)
    PROVE  Shape' /\ EngineInv'
  <1>1. /\ gcur # None /\ job.item.media \in Photos /\ job.item.ver > 0
        /\ job.item.ver <= photo[job.item.media].ver
        /\ job.item.origin \in {"new", "scan", "order"}
    BY InHandFacts
  <1>2. job'.pc \in InHand /\ i # 0
    BY DEF InHand
  <1>3. ItemIsRow'
    <2>1. \A p : p = job'.item.media => i = Current(p)'
      OBVIOUS
    <2>2. job'.item.order = Current(job.item.media)'
      BY <2>1
    <2> QED BY <1>1, <1>2, <2>2 DEF ItemIsRow, Open
  <1>4. Flights'
    <2>1. \A k \in Flying' : k = i /\ orders'[k].media = job.item.media
      OBVIOUS
    <2>2. CurIn(orders', job.item.media) = i
      BY CurHasNext
    <2>3. \A k \in Flying' : k = CurIn(orders', orders'[k].media)
      BY <2>1, <2>2
    <2>4. \A k \in Flying' : (k = Current(orders[k].media))'
      BY <2>3 DEF Current, CurIn
    <2> QED BY <2>1, <2>4 DEF Flights, InHand
  <1>5. \A p : At(p)' = At(p) /\ Ahead(p)' = Ahead(p)
    BY DEF At, Ahead, Before
  <1>6. ASSUME NEW p, p = job.item.media, p \in TodoTargets' PROVE Ahead(p)' \/ Led(p)'
    <2>1. p \in Listed /\ p \in InScope /\ p \notin skips /\ p \in Photos
      BY <1>6 DEF TodoTargets, InScope, IsTodo, Listed
    <2>2. CASE photo[p].ver = job.item.ver
      <3>1. Has(p, photo[p].ver, Open)'
        BY <1>6, <2>2 DEF Open
      <3> QED BY <3>1 DEF Led
    <2>3. CASE photo[p].ver # job.item.ver /\ job.item.origin \in {"new", "scan"}
      BY <1>5, <1>6, <2>1, <2>3, NewerIsAhead
    <2>4. CASE /\ photo[p].ver # job.item.ver
               /\ \A ver, states : ver # job.item.ver => ~Has(p, ver, states)
      <3>1. \A states : ~Has(p, photo[p].ver, states)
        BY <2>4
      <3>2. p \in TodoTargets
        BY <2>1, <3>1 DEF TodoTargets, IsTodo
      <3>3. Ahead(p) \/ Led(p)
        BY <1>1, <3>2 DEF EngineInv, AllFound
      <3>4. Led(p) => Led(p)'
        BY <3>1 DEF Led
      <3> QED BY <1>5, <3>3, <3>4
    <2> QED BY <1>6, <2>2, <2>3, <2>4
  <1>7. /\ swept \subseteq swept' /\ swept' \subseteq Photos
        /\ events' \in Nat /\ events' >= events
    BY ShapeFacts DEF Shape
  <1> QED BY <1>2, <1>3, <1>4, <1>6, <1>7, OnItem

LEMMA KeepsImportFresh == ASSUME Shape, EngineInv, ImportFresh PROVE Shape' /\ EngineInv'
  <1> DEFINE bytes == photo[job.item.media].bytes
             row   == NewOrder(job.item.media, job.item.ver, bytes, "transferring")
             n     == Len(orders) + 1
  <1>1. /\ job.pc = "import" /\ job.pc \in InHand /\ job.item.order = 0
        /\ UNCHANGED <<photo, scope, skips, pending, gcur, scan, events, swept>>
        /\ Add(row)
        /\ job' = [Go("deliver") EXCEPT !.item.order = n, !.hash = bytes]
    BY DEF ImportFresh, InHand, Item, media, intent, count, Quiet, ghosts, Stay
  <1>2. /\ job.item.media \in Photos /\ job.item.origin \in {"new", "scan"} /\ Flying = {}
    BY <1>1, InHandFacts
  <1>3. bytes \in Nat /\ n \in Nat
    BY <1>2, ShapeFacts, CurrentFacts
  <1> HIDE DEF bytes, n
  <1>4. /\ row \in OrderRec /\ row.media = job.item.media /\ row.ver = job.item.ver
        /\ row.state = "transferring" /\ row.hash = bytes
    BY <1>2, <1>3, ShapeFacts DEF NewOrder, OrderRec, States, Open
  <1> HIDE DEF row
  <1>5. /\ job' \in JobRec /\ job'.pc = "deliver" /\ job'.late = job.late
        /\ job'.item.media = job.item.media /\ job'.item.gen = job.item.gen
        /\ job'.item.origin = job.item.origin /\ job'.item.ver = job.item.ver
        /\ job'.item.order = n /\ job'.hash = bytes
    BY <1>1, <1>3 DEF Shape, JobRec, ItemRec, Go, Stages
  <1>6. /\ orders' \in Seq(OrderRec) /\ RowsAreOld' /\ Flying' \subseteq {n}
        /\ \A p : p # job.item.media =>
             \A ver, states : Has(p, ver, states)' <=> Has(p, ver, states)
        /\ \A p : p = job.item.media =>
             \A ver, states : Has(p, ver, states)' <=>
                              job.item.ver = ver /\ row.state \in states
        /\ n \in 1..Len(orders')
        /\ \A p : p = job.item.media => Current(p)' = n
        /\ orders'[n] = row
    BY <1>1, <1>2, <1>4, OrderAdded DEF n
  <1> QED BY <1>1, <1>2, <1>4, <1>5, <1>6, Delivers

LEMMA KeepsReinsert == ASSUME Shape, EngineInv, Reinsert PROVE Shape' /\ EngineInv'
  <1> DEFINE row == NewOrder(job.item.media, job.item.ver, job.hash, "transferring")
             n   == Len(orders) + 1
  <1>1. /\ job.pc = "reinsert" /\ job.pc \in InHand
        /\ UNCHANGED <<photo, scope, skips, pending, gcur, scan, events, swept>>
        /\ job' = [Go("deliver") EXCEPT !.item.order = n]
    BY DEF Reinsert, InHand, Item, media, intent, count, Quiet, ghosts, Stay
  <1>2. /\ job.item.media \in Photos /\ job.item.order # 0 /\ Flying = {}
        /\ orders[job.item.order].ver = job.item.ver
        /\ orders[job.item.order].media = job.item.media
        /\ job.item.order = Current(job.item.media)
    BY <1>1, InHandFacts DEF EngineInv, Flights
  <1>3. Add(row)
    BY <1>2 DEF Reinsert, Item, Row
  <1>4. n \in Nat
    BY CurrentFacts
  <1> HIDE DEF n
  <1>5. /\ row \in OrderRec /\ row.media = job.item.media /\ row.ver = job.item.ver
        /\ row.state = "transferring" /\ row.hash = job.hash
    BY <1>2, ShapeFacts DEF NewOrder, OrderRec, States, Open
  <1> HIDE DEF row
  <1>6. /\ job' \in JobRec /\ job'.pc = "deliver" /\ job'.late = job.late
        /\ job'.item.media = job.item.media /\ job'.item.gen = job.item.gen
        /\ job'.item.origin = job.item.origin /\ job'.item.ver = job.item.ver
        /\ job'.item.order = n /\ job'.hash = job.hash
    BY <1>1, <1>4 DEF Shape, JobRec, ItemRec, Go, Stages
  <1>7. /\ orders' \in Seq(OrderRec) /\ RowsAreOld' /\ Flying' \subseteq {n}
        /\ \A p : p # job.item.media =>
             \A ver, states : Has(p, ver, states)' <=> Has(p, ver, states)
        /\ \A p : p = job.item.media =>
             \A ver, states : Has(p, ver, states)' <=>
                              job.item.ver = ver /\ row.state \in states
        /\ n \in 1..Len(orders')
        /\ \A p : p = job.item.media => Current(p)' = n
        /\ orders'[n] = row
    BY <1>1, <1>2, <1>3, <1>5, OrderAdded DEF n
  <1>8. \A p : p = job.item.media =>
          \A ver, states : ver # job.item.ver => ~Has(p, ver, states)
    BY <1>2 DEF Has
  <1> QED BY <1>1, <1>5, <1>6, <1>7, <1>8, Delivers

LEMMA KeepsImportOrder == ASSUME Shape, EngineInv, ImportOrder PROVE Shape' /\ EngineInv'
  <1> DEFINE bytes == photo[job.item.media].bytes
  <1>1. /\ job.pc = "import" /\ job.pc \in InHand /\ job.item.order # 0
        /\ UNCHANGED <<photo, scope, skips, pending, gcur, scan, events, swept>>
    BY DEF ImportOrder, InHand, Item, media, intent, count, Quiet, ghosts, Stay
  <1>2. /\ job.item.media \in Photos /\ gcur # None /\ job.item.ver > 0
        /\ job.item.ver <= photo[job.item.media].ver /\ job.item.origin = "order"
        /\ \A k \in Flying : k = job.item.order
        /\ orders[job.item.order].ver = job.item.ver
        /\ orders[job.item.order].media = job.item.media
        /\ job.item.order = Current(job.item.media)
    BY <1>1, InHandFacts
  <1>3. PICK i \in 1..Len(orders) : i = job.item.order
    BY <1>1, InHandFacts
  <1>4. bytes \in Nat
    BY <1>2, ShapeFacts
  <1>5. CASE Row.hash \notin {0, bytes}
    <2>1. Turn(job.item.order, "sourceGone", 0) /\ job' = [Go("reinsert") EXCEPT !.hash = bytes]
      BY <1>5 DEF ImportOrder, Item
    <2> HIDE DEF bytes
    <2>2. /\ job' \in JobRec /\ job'.pc = "reinsert" /\ job'.late = job.late
          /\ job'.item = job.item
      BY <1>4, <2>1 DEF Shape, JobRec, Go, Stages
    <2>3. "sourceGone" \in States \ {"transferring"} /\ 0 \in Nat
      BY DEF States, Settled
    <2>4. /\ orders' \in Seq(OrderRec) /\ RowsAreOld' /\ Flying' = {}
          /\ \A p : p # job.item.media =>
               \A ver, states : Has(p, ver, states)' <=> Has(p, ver, states)
          /\ \A p : p = job.item.media =>
               /\ \A ver, states : Has(p, ver, states)' <=>
                                   job.item.ver = ver /\ "sourceGone" \in states
               /\ \A ver, states : ver # job.item.ver =>
                                   ~Has(p, ver, states)' /\ ~Has(p, ver, states)
          /\ Len(orders') = Len(orders)
          /\ \A p : Current(p)' = Current(p)
          /\ orders'[job.item.order].media = job.item.media
          /\ orders'[job.item.order].ver = job.item.ver
      BY <1>1, <2>1, <2>3, OrderTurned
    <2>5. ItemIsRow'
      BY <1>1, <1>2, <2>2, <2>4 DEF ItemIsRow
    <2>6. Flights'
      BY <2>2, <2>4 DEF Flights
    <2>7. ASSUME NEW p, p = job.item.media, p \in TodoTargets' PROVE Ahead(p)' \/ Led(p)'
      <3>1. p \in InScope /\ p \notin skips /\ ~Has(p, photo[p].ver, Settled)'
        BY <1>1, <2>7 DEF TodoTargets, IsTodo, InScope, Listed
      <3>2. photo[p].ver # job.item.ver
        BY <1>1, <2>4, <2>7, <3>1 DEF Settled
      <3>3. \A states : ~Has(p, photo[p].ver, states)
        BY <2>4, <2>7, <3>2
      <3>4. p \in TodoTargets
        BY <3>1, <3>3 DEF TodoTargets, IsTodo
      <3>5. Ahead(p) \/ Led(p)
        BY <1>2, <3>4 DEF EngineInv, AllFound
      <3>6. Led(p) => Led(p)'
        BY <1>1, <3>3 DEF Led
      <3>7. Ahead(p) => Ahead(p)'
        BY <1>1 DEF Ahead, Before, At
      <3> QED BY <3>5, <3>6, <3>7
    <2>8. /\ swept \subseteq swept' /\ swept' \subseteq Photos
          /\ events' \in Nat /\ events' >= events /\ job'.pc \in InHand
          /\ job'.item.ver = job.item.ver
      BY <1>1, <2>2, ShapeFacts DEF Shape, InHand
    <2> QED BY <1>1, <2>2, <2>4, <2>5, <2>6, <2>7, <2>8, OnItem
  <1>6. CASE Row.hash \in {0, bytes}
    <2>1. /\ orders' = [orders EXCEPT ![i].state = "transferring", ![i].hash = bytes]
          /\ job' = [Go("deliver") EXCEPT !.hash = bytes]
      BY <1>3, <1>6 DEF ImportOrder, Item
    <2> HIDE DEF bytes
    <2>2. /\ job' \in JobRec /\ job'.pc = "deliver" /\ job'.late = job.late
          /\ job'.item = job.item /\ job'.hash = bytes
      BY <1>4, <2>1 DEF Shape, JobRec, Go, Stages
    <2>3. /\ DOMAIN orders = 1..Len(orders) /\ Len(orders) \in Nat
          /\ orders \in Seq(OrderRec) /\ orders[i] \in OrderRec
      BY CurrentFacts DEF Shape
    <2> DEFINE old == orders[i]
               row == [old EXCEPT !.state = "transferring", !.hash = bytes]
    <2>4. old \in OrderRec
      BY <2>3
    <2> HIDE DEF old
    <2>5. /\ row \in OrderRec /\ row.media = old.media /\ row.ver = old.ver
          /\ row.hash = bytes /\ row.state = "transferring"
      BY <1>4, <2>4 DEF OrderRec, States, Open
    <2> USE DEF old
    <2>6. orders' = [orders EXCEPT ![i] = row]
      BY <2>1, <2>3 DEF OrderRec
    <2> HIDE DEF row
    <2>7. /\ orders' \in Seq(OrderRec) /\ Len(orders') = Len(orders)
          /\ \A k \in 1..Len(orders) : k # i => orders'[k] = orders[k]
          /\ orders'[i] = row
      BY <2>3, <2>5, <2>6
    <2>8. \A k \in 1..Len(orders) : /\ orders'[k].media = orders[k].media
                                    /\ orders'[k].ver = orders[k].ver
      BY <2>5, <2>7
    <2>9. /\ \A p : Current(p)' = Current(p)
          /\ \A p, ver, states : Has(p, ver, states)' <=>
               /\ Current(p) > 0 /\ orders[Current(p)].ver = ver
               /\ orders'[Current(p)].state \in states
      BY <2>7, <2>8, InPlace
    <2>10. \A p : /\ Current(p) \in 0..Len(orders)
                  /\ Current(p) # 0 => orders[Current(p)].media = p
      BY CurrentFacts
    <2>11. \A p : p # job.item.media =>
             \A ver, states : Has(p, ver, states)' <=> Has(p, ver, states)
      BY <1>2, <1>3, <2>7, <2>9, <2>10 DEF Has
    <2>12. \A p : p = job.item.media =>
             /\ \A ver, states : Has(p, ver, states)' <=>
                                 job.item.ver = ver /\ "transferring" \in states
             /\ \A ver, states : ver # job.item.ver => ~Has(p, ver, states)
      BY <1>2, <1>3, <2>5, <2>7, <2>9 DEF Has
    <2>13. DOMAIN orders' = 1..Len(orders)
      BY <2>7
    <2>14. RowsAreOld'
      BY <1>1, <2>3, <2>8, <2>13 DEF EngineInv, RowsAreOld
    <2>15. Flying' \subseteq {i}
      BY <1>2, <1>3, <2>3, <2>7, <2>13 DEF Flying
    <2>16. \A p : p = job.item.media => Current(p)' = i
      BY <1>2, <1>3, <2>9
    <2>17. i \in 1..Len(orders') /\ job'.item.order = i
      BY <1>3, <2>2, <2>7
    <2>18. /\ orders'[i].media = job.item.media /\ orders'[i].ver = job.item.ver
           /\ orders'[i].state = "transferring" /\ orders'[i].hash = job'.hash
      BY <1>2, <1>3, <2>2, <2>5, <2>7
    <2>19. /\ job'.item.media = job.item.media /\ job'.item.gen = job.item.gen
           /\ job'.item.origin = job.item.origin /\ job'.item.ver = job.item.ver
      BY <2>2
    <2> QED BY <1>1, <2>2, <2>7, <2>11, <2>12, <2>14, <2>15, <2>16, <2>17, <2>18, <2>19, Delivers
  <1> QED BY <1>5, <1>6

-----------------------------------------------------------------------------
(* The invariant.                                                          *)

-----------------------------------------------------------------------------
(* A cycle that is leaving.                                                *)

(* Its order comes late, and hides no later one.                           *)
LEMMA KeepsLate ==
    ASSUME Shape, EngineInv, Leaves, NEW c \in leaving, LateInsert(c)
    PROVE  Shape' /\ EngineInv'
  <1> DEFINE row == NewOrder(c.media, c.ver, c.hash, "transferring")
             n   == Len(orders) + 1
  <1>1. /\ Stale(c) /\ job.pc = "off" /\ Flying = {}
        /\ UNCHANGED <<photo, scope, skips, gcur, scan, pending, job, events, swept>>
        /\ Add(row)
    BY DEF LateInsert, Leaves, Stale, media, count
  <1>2. /\ row \in OrderRec /\ row.media = c.media /\ row.ver = c.ver
        /\ row.state = "transferring"
    BY <1>1 DEF Stale, NewOrder, OrderRec, States, Open
  <1> HIDE DEF row
  <1>3. /\ orders' \in Seq(OrderRec) /\ Len(orders') = n
        /\ \A i \in 1..Len(orders) : orders'[i] = orders[i]
        /\ orders'[n] = row
        /\ Current(c.media)' = n
        /\ \A ver, states : Has(c.media, ver, states)' <=>
             c.ver = ver /\ row.state \in states
        /\ \A p : p # c.media =>
             \A ver, states : Has(p, ver, states)' <=> Has(p, ver, states)
    BY <1>1, <1>2, Appended
  <1>4. /\ DOMAIN orders = 1..Len(orders) /\ Len(orders) \in Nat
        /\ DOMAIN orders' = 1..n
    BY <1>3, CurrentFacts
  <1> HIDE DEF n
  <1>5. Shape' /\ Clocks' /\ Control'
    BY <1>1, <1>3 DEF Shape, EngineInv, Clocks, Control
  <1>6. RowsAreOld'
    BY <1>1, <1>2, <1>3, <1>4 DEF EngineInv, RowsAreOld, Stale, n
  <1>7. \A i \in Flying' : i = n
    <2>1. \A i \in DOMAIN orders : orders[i].state # "transferring"
      BY <1>1 DEF Flying
    <2> QED BY <1>3, <1>4, <2>1 DEF Flying, n
  <1>8. Flights'
    BY <1>1, <1>2, <1>3, <1>7 DEF Flights, InHand
  <1>9. AllFound'
    <2>1. SUFFICES ASSUME NEW q \in TodoTargets' PROVE gcur' = None \/ Ahead(q)' \/ Led(q)'
      BY DEF AllFound
    <2>2. /\ Ahead(q)' = Ahead(q) /\ InScope' = InScope /\ q \in InScope
          /\ q \notin skips /\ ~Has(q, photo[q].ver, Settled)'
      BY <1>1, <2>1 DEF Ahead, At, Before, InScope, Listed, TodoTargets, IsTodo
    <2>3. CASE q # c.media
      <3>1. q \in TodoTargets
        BY <1>1, <1>3, <2>2, <2>3 DEF TodoTargets, IsTodo
      <3> QED BY <1>1, <1>3, <2>2, <2>3, <3>1 DEF EngineInv, AllFound, Led
    <2>4. CASE q = c.media /\ photo[q].ver = c.ver
      <3>1. Has(q, photo[q].ver, Open)'
        BY <1>1, <1>2, <1>3, <2>4 DEF Open
      <3> QED BY <3>1 DEF Led
    <2>5. CASE q = c.media /\ photo[q].ver # c.ver
      <3>1. \A states : ~Has(q, photo[q].ver, states)
        BY <1>1, <2>5 DEF Has, Stale
      <3>2. q \in TodoTargets
        BY <2>2, <3>1 DEF TodoTargets, IsTodo
      <3> QED BY <1>1, <2>2, <3>1, <3>2 DEF EngineInv, AllFound, Led
    <2> QED BY <2>3, <2>4, <2>5
  <1> QED BY <1>1, <1>5, <1>6, <1>8, <1>9, Idles DEF InHand

LEMMA KeepsLeaving ==
    ASSUME Shape, EngineInv, Leaves, Leaving PROVE Shape' /\ EngineInv'
  <1>1. CASE \E c \in leaving : LateInsert(c)
    BY <1>1, KeepsLate
  <1>2. CASE \E c \in leaving : LateInsertFails(c)
    <2>1. /\ job.pc = "off" /\ events' = events
          /\ UNCHANGED <<photo, scope, orders, skips, gcur, scan, swept, job, pending>>
      BY <1>2 DEF LateInsertFails, Leaves, count, media, store
    <2>2. /\ job \in JobRec /\ pending \subseteq {"wake", "check", "periodic"}
          /\ events \in Nat /\ job.legacy = 0 /\ job.item = NoItem
      BY <2>1 DEF Shape, EngineInv, Control, Between, InHand
    <2> QED BY <2>1, <2>2, Halts
  <1> QED BY <1>1, <1>2 DEF Leaving, Late

(* What is leaving is what it was.                                         *)
LEMMA StillStale ==
    ASSUME Shape, Leaves, leaving # {}, leaving' = leaving, job'.pc = "off",
           \A p \in Photos : photo'[p].ver \in Nat /\ photo'[p].ver >= photo[p].ver,
           \A p : Current(p)' = Current(p),
           \A c \in leaving : orders'[Current(c.media)].ver = orders[Current(c.media)].ver,
           Flying' \subseteq Flying
    PROVE  Leaves'
  <1>1. SUFFICES ASSUME NEW c \in leaving PROVE Stale(c)'
    BY DEF Leaves
  <1>2. Stale(c)
    BY DEF Leaves
  <1>3. c.ver <= photo'[c.media].ver
    BY <1>2, ShapeFacts DEF Stale
  <1> QED BY <1>2, <1>3 DEF Stale

(* Photos only ever get later versions.                                    *)
LEMMA PhotosChange ==
    ASSUME Shape, [Next]_vars
    PROVE  \A p \in Photos : photo'[p].ver \in Nat /\ photo'[p].ver >= photo[p].ver
  <1>1. photo \in [Photos -> PhotoRec] /\ \A p \in Photos : photo[p].ver \in Nat
    BY ShapeFacts DEF Shape
  <1>2. CASE UNCHANGED photo
    BY <1>1, <1>2
  <1>3. CASE \E burst \in SUBSET Photos : Take(burst)
    <2>1. PICK burst \in SUBSET Photos : Take(burst)
      BY <1>3
    <2>2. /\ \A p \in burst : photo[p].ver = 0
          /\ \A p \in Photos : photo'[p] = IF p \in burst
                                           THEN [gen |-> 1 + events', ver |-> 1, bytes |-> 1]
                                           ELSE photo[p]
      BY <2>1 DEF Take
    <2>3. \A p \in burst : photo'[p].ver = 1
      BY <2>2
    <2>4. \A p \in Photos : p \notin burst => photo'[p] = photo[p]
      BY <2>2
    <2> QED BY <1>1, <2>2, <2>3, <2>4
  <1>4. CASE \E p \in Photos : Edit(p) \/ Overwrite(p) \/ Delete(p) \/ Reappear(p)
    <2>1. PICK p \in Photos : Edit(p) \/ Overwrite(p) \/ Delete(p) \/ Reappear(p)
      BY <1>4
    <2>2. \E g, v, b : Changed(p, g, v, b) /\ (v = photo[p].ver + 1 \/ v = photo[p].ver)
      BY <2>1 DEF Edit, Overwrite, Delete, Reappear
    <2>3. PICK g, v, b : Changed(p, g, v, b) /\ (v = photo[p].ver + 1 \/ v = photo[p].ver)
      BY <2>2
    <2>4. photo'[p].ver = v /\ \A q \in Photos : q # p => photo'[q] = photo[q]
      BY <1>1, <2>3 DEF Changed
    <2> QED BY <1>1, <2>3, <2>4
  <1>5. CASE \/ \E p \in Photos : AddScope(p) \/ DropScope(p)
             \/ \E f \in kept : Lose(f)
    BY <1>2, <1>5 DEF AddScope, DropScope, Lose, media
  <1>6. CASE Commands
    BY <1>2, <1>6
       DEF Commands, Trigger, Pause, StopCycle, Resume, RemainingSnapshot, CancelRemaining,
           RestoreSkipped, RetryFailed, Kill, media
  <1>7. CASE Choosing
    BY <1>2, <1>7
       DEF Choosing, Begin, Count, Counted, Work, PickLegacy, ScanRead, Scanned, Discover,
           PickRetry, Presence, Finish, media
  <1>8. CASE Sending
    BY <1>2, <1>8
       DEF Sending, LookupFresh, LookupOrder, ImportFresh, ImportOrder, Reinsert, ImportMissing,
           Pull, Confirmed, SourceMissing, Commit, media
  <1>9. CASE Faults
    BY <1>2, <1>9 DEF Faults, Hold, ImportFailed, ItemFailure, PathFailure, WriteFails, Commit,
                      media
  <1>10. CASE UNCHANGED vars
    BY <1>2, <1>10 DEF vars, media
  <1>11. CASE Leaving
    BY <1>2, <1>11 DEF Leaving, Late, LateInsert, LateInsertFails, media
  <1> QED BY <1>3, <1>4, <1>5, <1>6, <1>7, <1>8, <1>9, <1>10, <1>11 DEF Next, Surroundings

(* Who leaves, and who starts a loop beside the one that leaves.           *)
LeavesOne == \E c \in leaving : leaving' = leaving \ {c}
LeavesNow == /\ Pause \/ StopCycle
             /\ job.pc = "reinsert" => Leave(TRUE) \/ Leave(FALSE)
             /\ job.pc # "reinsert" => leaving' = leaving
StaysOff  == job.pc = "off" => /\ job'.pc = "off"
                               /\ UNCHANGED orders \/ RetryFailed \/ CancelRemaining

LEMMA WhoLeaves ==
    ASSUME Shape, [Next]_vars, ~overtaken'
    PROVE  /\ ~overtaken
           /\ (leaving' = leaving /\ StaysOff) \/ leaving' = {} \/ LeavesNow \/ LeavesOne
  <1> USE DEF ghosts, aside, StaysOff
  <1>1. ASSUME NEW kind, NEW j, Wake(kind, j)
        PROVE  ~overtaken /\ ((leaving' = leaving /\ job' = j) \/ leaving' = {})
    BY <1>1 DEF Wake, Overtake
  <1>2. Marked.pc = job.pc
    BY DEF Marked, Shape, JobRec
  <1>3. CASE \/ RestoreSkipped \/ \E p \in Photos : AddScope(p)
    <2>1. Wake("check", Marked) /\ UNCHANGED orders
      BY <1>3 DEF RestoreSkipped, AddScope
    <2> QED BY <1>1, <1>2, <2>1
  <1>4. CASE RetryFailed
    <2>1. Wake("check", job)
      BY <1>4 DEF RetryFailed
    <2> QED BY <1>1, <1>4, <2>1
  <1>5. CASE \E kind \in {"wake", "periodic"} : Trigger(kind)
    <2>1. PICK kind : Trigger(kind)
      BY <1>5
    <2>2. Wake(kind, job) /\ UNCHANGED orders
      BY <2>1 DEF Trigger, store
    <2> QED BY <1>1, <2>2
  <1>6. CASE \/ \E burst \in SUBSET Photos : Take(burst)
             \/ \E p \in Photos : Edit(p) \/ Overwrite(p) \/ Delete(p) \/ Reappear(p) \/ DropScope(p)
             \/ \E f \in kept : Lose(f)
    BY <1>6 DEF Take, Edit, Overwrite, Delete, Reappear, DropScope, Lose, Untouched, store
  <1>7. CASE Pause \/ StopCycle
    BY <1>7 DEF Pause, StopCycle, LeavesNow, Leave
  <1>8. CASE Resume
    BY <1>8 DEF Resume, Overtake
  <1>9. CASE RemainingSnapshot \/ CancelRemaining
    <2>1. job'.pc = job.pc \/ job'.pc = "off"
      BY <1>9, OffFacts DEF RemainingSnapshot, CancelRemaining
    <2> QED BY <1>9, <2>1 DEF RemainingSnapshot, CancelRemaining, Quiet, store
  <1>10. CASE Kill
    BY <1>10 DEF Kill
  <1>11. CASE Choosing
    <2>1. UNCHANGED <<leaving, overtaken>>
      BY <1>11 DEF Choosing, Begin, Count, Counted, Work, PickLegacy, ScanRead, Scanned, Discover,
                   PickRetry, Presence, Finish, Quiet
    <2>2. job.pc # "off"
      BY <1>11 DEF Choosing, Begin, Count, Counted, Work, PickLegacy, ScanRead, Scanned, Discover,
                   PickRetry, Presence, Finish
    <2> QED BY <2>1, <2>2
  <1>12. CASE Sending
    <2>1. UNCHANGED <<leaving, overtaken>>
      BY <1>12 DEF Sending, LookupFresh, LookupOrder, ImportFresh, ImportOrder, Reinsert,
                   ImportMissing, Pull, Confirmed, SourceMissing, Quiet
    <2>2. job.pc # "off"
      BY <1>12 DEF Sending, LookupFresh, LookupOrder, ImportFresh, ImportOrder, Reinsert,
                   ImportMissing, Pull, Confirmed, SourceMissing, Commit
    <2> QED BY <2>1, <2>2
  <1>13. CASE Faults
    <2>1. UNCHANGED <<leaving, overtaken>>
      BY <1>13 DEF Faults, Hold, ImportFailed, ItemFailure, PathFailure, WriteFails
    <2>2. job.pc # "off"
      <3>1. CASE Hold \/ WriteFails
        BY <3>1 DEF Hold, WriteFails
      <3>2. CASE ImportFailed \/ ItemFailure \/ PathFailure
        BY <3>2 DEF ImportFailed, ItemFailure, PathFailure
      <3> QED BY <1>13, <3>1, <3>2 DEF Faults
    <2> QED BY <2>1, <2>2
  <1>14. CASE UNCHANGED vars
    BY <1>14 DEF vars, store
  <1>15. CASE Leaving
    BY <1>15 DEF Leaving, Late, LateInsert, LateInsertFails, LeavesOne
  <1> QED BY <1>3, <1>4, <1>5, <1>6, <1>7, <1>8, <1>9, <1>10, <1>11, <1>12, <1>13, <1>14, <1>15
          DEF Next, Surroundings, Commands

LEMMA StaysOvertaken == ASSUME [Next]_vars, overtaken PROVE overtaken'
  <1> USE DEF ghosts, aside
  <1>1. ASSUME NEW kind, NEW j, Wake(kind, j) PROVE overtaken'
    BY <1>1 DEF Wake, Overtake
  <1>2. CASE Surroundings
    <2>1. CASE \E p \in Photos : AddScope(p)
      BY <1>1, <2>1 DEF AddScope
    <2>2. CASE ~\E p \in Photos : AddScope(p)
      BY <1>2, <2>2 DEF Surroundings, Take, Edit, Overwrite, Delete, Reappear, DropScope, Lose
    <2> QED BY <2>1, <2>2
  <1>3. CASE Commands
    <2>1. CASE RestoreSkipped \/ RetryFailed \/ \E kind \in {"wake", "periodic"} : Trigger(kind)
      BY <1>1, <2>1 DEF RestoreSkipped, RetryFailed, Trigger
    <2>2. CASE Pause \/ StopCycle \/ Resume \/ RemainingSnapshot \/ CancelRemaining \/ Kill
      BY <2>2 DEF Pause, StopCycle, Resume, RemainingSnapshot, CancelRemaining, Kill, Overtake,
                  Quiet
    <2> QED BY <1>3, <2>1, <2>2 DEF Commands
  <1>4. CASE Choosing
    BY <1>4 DEF Choosing, Begin, Count, Counted, Work, PickLegacy, ScanRead, Scanned, Discover,
                PickRetry, Presence, Finish, Quiet
  <1>5. CASE Sending
    BY <1>5 DEF Sending, LookupFresh, LookupOrder, ImportFresh, ImportOrder, Reinsert,
                ImportMissing, Pull, Confirmed, SourceMissing, Commit, Quiet
  <1>6. CASE Faults
    BY <1>6 DEF Faults, Hold, ImportFailed, ItemFailure, PathFailure, WriteFails, Commit
  <1>7. CASE UNCHANGED vars
    BY <1>7 DEF vars
  <1>8. CASE Leaving
    BY <1>8 DEF Leaving, Late, LateInsert, LateInsertFails
  <1> QED BY <1>2, <1>3, <1>4, <1>5, <1>6, <1>7, <1>8 DEF Next

LEMMA KeepsLeaves ==
    ASSUME Shape, EngineInv, Leaves, [Next]_vars, ~overtaken' PROVE Leaves'
  <1>1. CASE leaving' = leaving /\ StaysOff /\ leaving # {}
    <2>1. job.pc = "off" /\ job'.pc = "off" /\ ~CancelRemaining
      BY <1>1 DEF StaysOff, Leaves, Stale, CancelRemaining
    <2>2. CASE UNCHANGED orders
      BY <1>1, <2>1, <2>2, PhotosChange, StillStale DEF Current, Flying
    <2>3. CASE RetryFailed
      <3>1. \A i \in DOMAIN orders : orders[i] \in OrderRec
        BY CurrentFacts
      <3>2. /\ DOMAIN orders' = DOMAIN orders
            /\ \A i \in DOMAIN orders :
                 /\ orders'[i].media = orders[i].media /\ orders'[i].ver = orders[i].ver
                 /\ orders'[i].state = orders[i].state \/ orders'[i].state = "pending"
        BY <2>3, <3>1 DEF RetryFailed, OrderRec
      <3>3. \A p : Current(p)' = Current(p)
        <4>1. \A p : {i \in DOMAIN orders' : orders'[i].media = p}
                     = {i \in DOMAIN orders : orders[i].media = p}
          BY <3>2
        <4> QED BY <4>1 DEF Current
      <3>4. Flying' \subseteq Flying
        BY <3>2 DEF Flying
      <3>5. \A c \in leaving : Current(c.media) \in DOMAIN orders
        <4>1. SUFFICES ASSUME NEW c \in leaving PROVE Current(c.media) \in DOMAIN orders
          OBVIOUS
        <4>2. Current(c.media) # 0
          BY DEF Leaves, Stale
        <4> QED BY <4>2, CurrentFacts
      <3> QED BY <1>1, <2>1, <3>2, <3>3, <3>4, <3>5, PhotosChange, StillStale
    <2> QED BY <1>1, <2>1, <2>2, <2>3 DEF StaysOff
  <1>2. CASE leaving' = {}
    BY <1>2 DEF Leaves
  <1>3. CASE LeavesNow /\ job.pc = "reinsert" /\ (Leave(TRUE) \/ Leave(FALSE))
    <2>1. leaving = {}
      BY <1>3 DEF Leaves
    <2>2. PICK wait \in BOOLEAN :
            leaving' = {[media |-> job.item.media, ver |-> orders[job.item.order].ver,
                         hash |-> job.hash, wait |-> wait, last |-> TRUE]}
      BY <1>3, <2>1 DEF Leave
    <2>3. PICK c : /\ leaving' = {c} /\ c.last /\ c.media = job.item.media
                   /\ c.ver = orders[job.item.order].ver /\ c.hash = job.hash
      <3> DEFINE d == [media |-> job.item.media, ver |-> orders[job.item.order].ver,
                       hash |-> job.hash, wait |-> wait, last |-> TRUE]
      <3>1. leaving' = {d}
        BY <2>2
      <3>2. /\ d.last /\ d.media = job.item.media
            /\ d.ver = orders[job.item.order].ver /\ d.hash = job.hash
        OBVIOUS
      <3> HIDE DEF d
      <3> QED BY <3>1, <3>2
    <2>4. /\ job' = Off /\ UNCHANGED <<orders, photo>>
      BY <1>3 DEF LeavesNow, Pause, StopCycle, store, media
    <2>5. job.pc \in InHand
      BY <1>3 DEF InHand
    <2>6. /\ c.media \in Photos /\ job.item.order # 0 /\ Flying = {}
          /\ orders[job.item.order].ver = job.item.ver
          /\ job.item.order = Current(c.media)
      BY <1>3, <2>3, <2>5, InHandFacts DEF EngineInv, Flights
    <2>7. c.ver = job.item.ver /\ c.ver > 0 /\ c.ver <= photo[c.media].ver
      BY <2>3, <2>5, <2>6 DEF EngineInv, ItemIsRow
    <2>8. c.ver \in Nat /\ c.hash \in Nat
      BY <2>3, <2>7, ShapeFacts
    <2>9. Current(c.media)' = Current(c.media) /\ Flying' = Flying
      BY <2>4 DEF Current, Flying
    <2>10. job'.pc = "off"
      BY <2>4, OffFacts
    <2>11. Stale(c)'
      BY <2>3, <2>4, <2>6, <2>7, <2>8, <2>9 DEF Stale
    <2> QED BY <2>3, <2>6, <2>9, <2>10, <2>11 DEF Leaves
  <1>4. CASE LeavesOne
    <2>1. leaving' = {}
      BY <1>4 DEF LeavesOne, Leaves
    <2> QED BY <2>1 DEF Leaves
  <1>5. CASE LeavesNow /\ job.pc # "reinsert"
    <2>1. leaving' = leaving /\ job.pc # "off"
      BY <1>5 DEF LeavesNow, Pause, StopCycle
    <2> QED BY <2>1 DEF Leaves
  <1> QED BY <1>1, <1>2, <1>3, <1>4, <1>5, WhoLeaves DEF LeavesNow

LEMMA Starts == ASSUME Init PROVE Shape /\ EngineInv /\ Leaves
  <1>1. PICK taken \in Taken :
          photo = [p \in Photos |-> IF p \in taken THEN [gen |-> 1, ver |-> 1, bytes |-> 1]
                                    ELSE [gen |-> 0, ver |-> 0, bytes |-> 0]]
    BY DEF Init
  <1>2. /\ orders = << >> /\ gcur = None /\ scan = Clean /\ pending = {} /\ job = Off
        /\ events = 0 /\ swept = {} /\ scope \subseteq Photos
    BY PhoneEngineAssumption DEF Init, Photos
  <1>3. Off \in JobRec /\ job.pc = "off" /\ job.legacy = 0 /\ job.item = NoItem
    BY <1>2, OffFacts
  <1>4. orders \in Seq(OrderRec) /\ DOMAIN orders = {}
    BY <1>2
  <1>5. Shape
    BY <1>1, <1>2, <1>3, <1>4 DEF Shape, PhotoRec, Clean
  <1>6. Clocks
    BY <1>1, <1>2, <1>3, NoItemFacts DEF Clocks
  <1>7. Control /\ RowsAreOld
    BY <1>2, <1>3, <1>4 DEF Control, RowsAreOld, Between
  <1>8. ItemIsRow /\ Flights /\ NewItem /\ ScanItem /\ Batched /\ CountedZero /\ AllFound
    BY <1>2, <1>3, <1>4
       DEF ItemIsRow, Flights, Flying, NewItem, ScanItem, Batched, CountedZero, AllFound, InHand
  <1>9. Leaves
    BY DEF Init, Leaves
  <1> QED BY <1>5, <1>6, <1>7, <1>8, <1>9 DEF EngineInv

LEMMA Keeps == 
    ASSUME Shape, EngineInv, Leaves, [Next]_vars, ~overtaken'
    PROVE  Shape' /\ EngineInv'
  <1>1. CASE Surroundings
    <2>1. CASE \/ \E burst \in SUBSET Photos : Take(burst)
               \/ \E p \in Photos : Edit(p) \/ Overwrite(p) \/ Delete(p) \/ Reappear(p) \/ DropScope(p)
               \/ \E f \in kept : Lose(f)
      BY <2>1, SurroundingsKeep
    <2>2. CASE \E p \in Photos : AddScope(p)
      BY <2>2, Rescans
    <2> QED BY <1>1, <2>1, <2>2 DEF Surroundings
  <1>2. CASE Commands
    <2>1. CASE \/ \E kind \in {"wake", "periodic"} : Trigger(kind)
               \/ Pause \/ StopCycle \/ Resume \/ Kill
      BY <2>1, Stops
    <2>2. CASE RemainingSnapshot
      BY <2>2, Unseen DEF RemainingSnapshot, media, store, Quiet, ghosts, count
    <2>3. CASE CancelRemaining
      BY <2>3, KeepsCancel
    <2>4. CASE RestoreSkipped
      BY <2>4, Rescans
    <2>5. CASE RetryFailed
      BY <2>5, KeepsRetryFailed
    <2> QED BY <1>2, <2>1, <2>2, <2>3, <2>4, <2>5 DEF Commands
  <1>3. CASE Choosing
    BY <1>3, KeepsBegin, KeepsCount, KeepsCounted, KeepsWork, KeepsPickLegacy, KeepsScanRead,
       KeepsScanned, KeepsDiscover, KeepsPickRetry, KeepsPresence, Stops DEF Choosing
  <1>4. CASE Sending
    <2>1. CASE Pull
      BY <2>1, Unseen DEF Pull, media, store, intent, Quiet, ghosts, count
    <2> QED BY <1>4, <2>1, KeepsLookupFresh, KeepsLookupOrder, KeepsImportFresh,
               KeepsImportOrder, KeepsReinsert, KeepsImportMissing, KeepsConfirmed,
               KeepsSourceMissing DEF Sending
  <1>5. CASE Faults
    BY <1>5, Stops, KeepsImportFailed, KeepsItemFailure DEF Faults
  <1>6. CASE UNCHANGED vars
    BY <1>6, Unseen DEF vars, media, store, intent, count, ghosts
  <1>7. CASE Leaving
    BY <1>7, KeepsLeaving
  <1> QED BY <1>1, <1>2, <1>3, <1>4, <1>5, <1>6, <1>7 DEF Next

(* Until a loop is started beside a cycle that is leaving.                 *)
Sound == Shape /\ EngineInv /\ Leaves
LEMMA Invariant == Spec => [](overtaken \/ Sound)
  <1>1. Init => overtaken \/ Sound
    BY Starts DEF Sound
  <1>2. (overtaken \/ Sound) /\ [Next]_vars => (overtaken \/ Sound)'
    <2>1. ASSUME [Next]_vars, overtaken PROVE overtaken'
      BY <2>1, StaysOvertaken
    <2>2. ASSUME [Next]_vars, Sound, ~overtaken' PROVE Sound'
      BY <2>2, Keeps, KeepsLeaves DEF Sound
    <2> QED BY <2>1, <2>2
  <1> QED BY <1>1, <1>2, PTL DEF Spec

(* Nothing the user wants sent is ever forgotten: whatever is left to do   *)
(* lies after one of the cursors, in an open order or in the running       *)
(* cycle's hands, for every number of photos, whatever the surroundings,   *)
(* the user and process deaths do in between (FlowEngine's two cursors),   *)
(* until a loop is started beside a cancelled cycle that has still to      *)
(* insert its order; the one exception before that is the window a dirty   *)
(* mark can be undone in.                                                  *)
THEOREM NeverForgotten == Spec => [](~overtaken => TodoIsComplete)
  <1>1. Sound => TodoIsComplete
    <2> SUFFICES ASSUME Shape, EngineInv, NEW q \in Overlooked PROVE q \in swept
      BY DEF TodoIsComplete, Sound
    <2>1. q \in TodoTargets /\ ~Found(q) /\ q \in InScope
      BY DEF Overlooked, TodoTargets
    <2>2. gcur # None /\ ~Ahead(q)
      BY <2>1 DEF Found, Beyond, Ahead
    <2> QED BY <2>1, <2>2 DEF Found, Led, EngineInv, AllFound
  <1> QED BY <1>1, Invariant, PTL

(* One order is in flight at a time, however many cycles were interrupted  *)
(* before it (FlowEngine's serial delivery), until a loop is started       *)
(* beside a cancelled cycle that has still to insert its order: then there *)
(* may be two.                                                             *)
THEOREM OneAtATime == Spec => []OneUntilOvertaken
  <1>1. Sound => OneInFlight
    BY DEF Sound, EngineInv, Flights, Flying, OneInFlight
  <1> QED BY <1>1, Invariant, PTL DEF OneUntilOvertaken

-----------------------------------------------------------------------------
(* Confirmed, and gone: what an order is told at its end.                  *)

Final == {"confirmed", "sourceGone"}

(* No order comes to its end.                                              *)
NoEnd ==
    /\ DOMAIN orders \subseteq DOMAIN orders'
    /\ \A i \in DOMAIN orders : orders'[i].media = orders[i].media
    /\ \A i \in DOMAIN orders' : orders'[i].state \in Final =>
         /\ i \in DOMAIN orders /\ orders'[i].state = orders[i].state
         /\ orders'[i].ver = orders[i].ver

LEMMA NoEndHas ==
    ASSUME Shape, Shape', NoEnd
    PROVE  \A p, ver : Has(p, ver, {"sourceGone"})' => Has(p, ver, {"sourceGone"})
  <1> SUFFICES ASSUME NEW p, NEW ver, Has(p, ver, {"sourceGone"})'
               PROVE  Has(p, ver, {"sourceGone"})
    OBVIOUS
  <1>1. /\ orders \in Seq(OrderRec) /\ orders' \in Seq(OrderRec)
        /\ DOMAIN orders = 1..Len(orders) /\ DOMAIN orders' = 1..Len(orders')
        /\ Len(orders) \in Nat /\ Len(orders') \in Nat
    BY DEF Shape
  <1>2. HasIn(orders', p, ver, {"sourceGone"})
    BY CurHasNext
  <1>3. PICK i \in 0..Len(orders') : i = CurIn(orders', p)
    BY <1>1, CurFacts
  <1>4. /\ i > 0 /\ orders'[i].ver = ver /\ orders'[i].state = "sourceGone"
        /\ orders'[i].media = p
        /\ \A k \in 1..Len(orders') : orders'[k].media = p => k <= i
    BY <1>1, <1>2, <1>3, CurFacts DEF HasIn
  <1>5. i \in DOMAIN orders /\ orders[i].ver = ver /\ orders[i].state = "sourceGone"
        /\ orders[i].media = p
    BY <1>1, <1>4 DEF NoEnd, Final
  <1>6. \A k \in 1..Len(orders) : orders[k].media = p => k <= i
    BY <1>1, <1>4 DEF NoEnd
  <1>7. CurIn(orders, p) = i
    BY <1>1, <1>5, <1>6, CurIs
  <1> QED BY <1>4, <1>5, <1>7, CurHas DEF HasIn

LEMMA SameRows == ASSUME UNCHANGED orders PROVE NoEnd
  BY DEF NoEnd

LEMMA AddedRows ==
    ASSUME Shape, NEW row, Add(row), row.state \notin Final PROVE NoEnd
  <1>1. orders \in Seq(OrderRec) /\ orders' = Append(orders, row)
    BY DEF Shape, Add
  <1>2. /\ DOMAIN orders = 1..Len(orders) /\ DOMAIN orders' = 1..(Len(orders) + 1)
        /\ Len(orders) \in Nat
        /\ \A i \in 1..Len(orders) : orders'[i] = orders[i]
        /\ orders'[Len(orders) + 1] = row
    BY <1>1
  <1>3. 1..Len(orders) \subseteq 1..(Len(orders) + 1)
    BY <1>2
  <1>4. \A i \in 1..(Len(orders) + 1) : i \in 1..Len(orders) \/ i = Len(orders) + 1
    BY <1>2
  <1> QED BY <1>2, <1>3, <1>4 DEF NoEnd

(* Each order is what it was, or is told something else.                   *)
LEMMA ChangedRows ==
    ASSUME Shape, DOMAIN orders' = DOMAIN orders,
           \A i \in DOMAIN orders :
             /\ orders'[i].media = orders[i].media /\ orders'[i].ver = orders[i].ver
             /\ orders'[i].state = orders[i].state \/ orders'[i].state \notin Final
    PROVE  NoEnd
  BY DEF NoEnd

LEMMA TurnedRows ==
    ASSUME Shape, NEW i, NEW state, NEW tries, Turn(i, state, tries)
    PROVE  /\ DOMAIN orders' = DOMAIN orders
           /\ \A k \in DOMAIN orders :
                /\ orders'[k].media = orders[k].media /\ orders'[k].ver = orders[k].ver
                /\ orders'[k].hash = orders[k].hash
                /\ k # i => orders'[k].state = orders[k].state
                /\ k = i => orders'[k].state = state
           /\ state \notin Final => NoEnd
  <1>1. \A k \in DOMAIN orders : orders[k] \in OrderRec
    BY CurrentFacts
  <1>2. /\ DOMAIN orders' = DOMAIN orders
        /\ \A k \in DOMAIN orders :
             /\ orders'[k].media = orders[k].media /\ orders'[k].ver = orders[k].ver
             /\ orders'[k].hash = orders[k].hash
             /\ k # i => orders'[k].state = orders[k].state
             /\ k = i => orders'[k].state = state
    BY <1>1 DEF Turn, OrderRec
  <1>3. state \notin Final => NoEnd
    BY <1>2, ChangedRows
  <1> QED BY <1>2, <1>3

(* The steps that end no order.                                            *)
Telling == LookupOrder \/ ImportOrder \/ ImportMissing \/ Confirmed \/ SourceMissing

LEMMA BeginRows == ASSUME Shape, Begin PROVE NoEnd
  <1>1. \A i \in DOMAIN orders : orders[i] \in OrderRec
    BY CurrentFacts
  <1>2. /\ DOMAIN orders' = DOMAIN orders
        /\ \A i \in DOMAIN orders : \/ orders'[i] = orders[i]
             \/ orders'[i] = [orders[i] EXCEPT !.gone = orders[i].media \notin Listed]
    BY DEF Begin
  <1>3. \A i \in DOMAIN orders :
          /\ orders'[i].media = orders[i].media /\ orders'[i].ver = orders[i].ver
          /\ orders'[i].state = orders[i].state
    BY <1>1, <1>2 DEF OrderRec
  <1> QED BY <1>2, <1>3, ChangedRows

LEMMA UserRows == ASSUME Shape, CancelRemaining \/ RetryFailed PROVE NoEnd
  <1>1. \A i \in DOMAIN orders : orders[i] \in OrderRec
    BY CurrentFacts
  <1>2. /\ DOMAIN orders' = DOMAIN orders
        /\ \A i \in DOMAIN orders : \/ orders'[i] = orders[i]
             \/ orders'[i] = [orders[i] EXCEPT !.state = "skipped"]
             \/ orders'[i] = [orders[i] EXCEPT !.state = "pending"]
    BY DEF CancelRemaining, RetryFailed
  <1>3. \A i \in DOMAIN orders :
          /\ orders'[i].media = orders[i].media /\ orders'[i].ver = orders[i].ver
          /\ orders'[i].state = orders[i].state \/ orders'[i].state \notin Final
    BY <1>1, <1>2 DEF OrderRec, Final
  <1> QED BY <1>2, <1>3, ChangedRows

LEMMA PresenceRows == ASSUME Shape, Presence PROVE NoEnd
  <1>a. PICK n \in Nat : \E ids \in [1..n -> Missing] : \E rows \in Seq(OrderRec) :
             /\ Len(rows) = n /\ orders' = orders \o rows
             /\ \A k \in 1..n : /\ rows[k].state = "pending"
                                /\ rows[k].media = orders[ids[k]].media
                                /\ rows[k].ver = orders[ids[k]].ver
    BY LostAgain
  <1>1. PICK ids \in [1..n -> Missing], rows \in Seq(OrderRec) :
             /\ Len(rows) = n /\ orders' = orders \o rows
             /\ \A k \in 1..n : /\ rows[k].state = "pending"
                                /\ rows[k].media = orders[ids[k]].media
                                /\ rows[k].ver = orders[ids[k]].ver
    BY <1>a
  <1>2. orders \in Seq(OrderRec) /\ DOMAIN orders = 1..Len(orders) /\ Len(orders) \in Nat
    BY DEF Shape
  <1>3. /\ DOMAIN orders' = 1..(Len(orders) + n)
        /\ \A i \in 1..Len(orders) : orders'[i] = orders[i]
        /\ \A i \in 1..(Len(orders) + n) : i > Len(orders) => orders'[i] = rows[i - Len(orders)]
    BY <1>1, <1>2
  <1>4. /\ 1..Len(orders) \subseteq 1..(Len(orders) + n)
        /\ \A i \in 1..(Len(orders) + n) : \/ i \in 1..Len(orders)
                                           \/ i > Len(orders) /\ i - Len(orders) \in 1..n
    BY <1>2
  <1>5. \A i \in 1..(Len(orders) + n) : i \in 1..Len(orders) \/ orders'[i].state = "pending"
    BY <1>1, <1>3, <1>4
  <1> QED BY <1>2, <1>3, <1>4, <1>5 DEF NoEnd, Final

LEMMA SilentSteps == ASSUME Shape, EngineInv, [Next]_vars, ~Telling PROVE NoEnd
  <1>1. CASE Surroundings
    <2>1. UNCHANGED orders
      BY <1>1
         DEF Surroundings, Take, Edit, Overwrite, Delete, Reappear, AddScope, DropScope, Lose, Untouched, store
    <2> QED BY <2>1, SameRows
  <1>2. CASE Commands
    <2>1. CASE CancelRemaining \/ RetryFailed
      BY <2>1, UserRows
    <2>2. CASE \/ \E kind \in {"wake", "periodic"} : Trigger(kind)
               \/ Pause \/ StopCycle \/ Resume \/ RemainingSnapshot \/ RestoreSkipped \/ Kill
      <3>1. UNCHANGED orders
        BY <2>2 DEF Trigger, Pause, StopCycle, Resume, RemainingSnapshot, RestoreSkipped, Kill,
                    store
      <3> QED BY <3>1, SameRows
    <2> QED BY <1>2, <2>1, <2>2 DEF Commands
  <1>3. CASE Choosing
    <2>1. CASE Begin \/ Presence
      BY <2>1, BeginRows, PresenceRows
    <2>2. CASE \/ Count \/ Counted \/ Work \/ PickLegacy \/ ScanRead \/ Scanned \/ Discover
               \/ PickRetry \/ Finish
      <3>1. UNCHANGED orders
        BY <2>2 DEF Count, Counted, Work, PickLegacy, ScanRead, Scanned, Discover, PickRetry,
                    Finish, store
      <3> QED BY <3>1, SameRows
    <2> QED BY <1>3, <2>1, <2>2 DEF Choosing
  <1>4. CASE Sending
    <2>1. CASE LookupFresh \/ Pull
      BY <2>1, SameRows DEF LookupFresh, Pull, store
    <2>2. CASE ImportFresh
      <3>1. Add(NewOrder(Item.media, Item.ver, photo[Item.media].bytes, "transferring"))
        BY <2>2 DEF ImportFresh
      <3> QED BY <3>1, AddedRows DEF NewOrder, Final
    <2>3. CASE Reinsert
      <3>1. Add(NewOrder(Item.media, Row.ver, job.hash, "transferring"))
        BY <2>3 DEF Reinsert
      <3> QED BY <3>1, AddedRows DEF NewOrder, Final
    <2> QED BY <1>4, <2>1, <2>2, <2>3 DEF Sending, Telling
  <1>5. CASE Faults
    <2>1. CASE Hold \/ PathFailure \/ WriteFails
      BY <2>1, SameRows DEF Hold, PathFailure, WriteFails, store
    <2>2. CASE ImportFailed
      <3>1. CASE Item.order = 0
        <4> DEFINE row == [NewOrder(Item.media, Item.ver, 0, "failed") EXCEPT !.tries = 1]
        <4>1. Add(row)
          BY <2>2, <3>1 DEF ImportFailed
        <4>2. row.state = "failed"
          BY DEF NewOrder
        <4> HIDE DEF row
        <4> QED BY <4>1, <4>2, AddedRows DEF Final
      <3>2. CASE Item.order # 0
        BY <2>2, <3>2, TurnedRows DEF ImportFailed, Final
      <3> QED BY <3>1, <3>2
    <2>3. CASE ItemFailure
      <3>1. CASE job.again
        BY <2>3, <3>1, TurnedRows DEF ItemFailure, Commit, Final
      <3>2. CASE ~job.again
        BY <2>3, <3>2, SameRows DEF ItemFailure, store
      <3> QED BY <3>1, <3>2
    <2> QED BY <1>5, <2>1, <2>2, <2>3 DEF Faults
  <1>6. CASE UNCHANGED vars
    BY <1>6, SameRows DEF vars, store
  <1>7. CASE Leaving
    <2>1. CASE \E c \in leaving : LateInsertFails(c)
      BY <2>1, SameRows DEF LateInsertFails, store
    <2>2. CASE \E c \in leaving : LateInsert(c)
      <3>1. PICK c \in leaving : Add(NewOrder(c.media, c.ver, c.hash, "transferring"))
        BY <2>2 DEF LateInsert
      <3> QED BY <3>1, AddedRows DEF NewOrder, Final
    <2> QED BY <1>7, <2>1, <2>2 DEF Leaving, Late
  <1> QED BY <1>1, <1>2, <1>3, <1>4, <1>5, <1>6, <1>7 DEF Next

(* Who writes what: the cycle does not run while the user pauses it, and   *)
(* the desktop's receipts are pairs.                                       *)
Quietly == (paused => job.pc = "off") /\ desk \subseteq Nat \X Nat

LEMMA KeepsPaused ==
    ASSUME Shape, Quietly, [Next]_vars PROVE (paused => job.pc = "off")'
  <1> USE DEF Quietly
  <1>1. CASE Choosing
    <2>1. job.pc # "off"
      BY <1>1 DEF Choosing, Begin, Count, Counted, Work, PickLegacy, ScanRead, Scanned, Discover,
                  PickRetry, Presence, Finish
    <2>2. CASE Begin \/ Count \/ Counted \/ Work
      BY <2>1, <2>2 DEF Begin, Count, Counted, Work, End, intent
    <2>3. CASE PickLegacy \/ PickRetry
      BY <2>1, <2>3 DEF PickLegacy, PickRetry, Existing, End, intent
    <2>4. CASE ScanRead \/ Scanned \/ Discover \/ Presence \/ Finish
      BY <2>1, <2>4 DEF ScanRead, Scanned, Discover, Presence, Finish, End, intent
    <2> QED BY <1>1, <2>2, <2>3, <2>4 DEF Choosing
  <1>2. CASE Sending
    BY <1>2 DEF Sending, LookupFresh, LookupOrder, ImportFresh, ImportOrder, Reinsert,
                ImportMissing, Pull, Confirmed, SourceMissing, Commit, intent
  <1>3. CASE Faults
    BY <1>3 DEF Faults, Hold, ImportFailed, ItemFailure, PathFailure, WriteFails, Commit, End,
                intent
  <1>4. CASE Surroundings
    <2>1. CASE \E p \in Photos : AddScope(p)
      <3>1. Wake("check", Marked) /\ paused' = paused
        BY <2>1 DEF AddScope
      <3>2. Marked.pc = job.pc
        BY DEF Marked, Shape, JobRec
      <3> QED BY <3>1, <3>2 DEF Wake
    <2>2. CASE \/ \E burst \in SUBSET Photos : Take(burst)
               \/ \E p \in Photos : Edit(p) \/ Overwrite(p) \/ Delete(p) \/ Reappear(p) \/ DropScope(p)
               \/ \E f \in kept : Lose(f)
      BY <2>2 DEF Take, Edit, Overwrite, Delete, Reappear, DropScope, Lose, Untouched, intent
    <2> QED BY <1>4, <2>1, <2>2 DEF Surroundings
  <1>5. CASE Commands
    <2>1. CASE \E kind \in {"wake", "periodic"} : Trigger(kind)
      BY <2>1 DEF Trigger
    <2>2. CASE Pause \/ StopCycle \/ Resume \/ Kill \/ CancelRemaining
      <3>1. job' = Off \/ paused' = FALSE
        BY <2>2 DEF Pause, StopCycle, Resume, Kill, CancelRemaining
      <3> QED BY <3>1, OffFacts
    <2>3. CASE RemainingSnapshot
      BY <2>3 DEF RemainingSnapshot
    <2>4. CASE RestoreSkipped \/ RetryFailed
      <3>1. (Wake("check", Marked) \/ Wake("check", job)) /\ paused' = paused
        BY <2>4 DEF RestoreSkipped, RetryFailed
      <3>2. Marked.pc = job.pc
        BY DEF Marked, Shape, JobRec
      <3> QED BY <3>1, <3>2 DEF Wake
    <2> QED BY <1>5, <2>1, <2>2, <2>3, <2>4 DEF Commands
  <1>6. CASE UNCHANGED vars
    BY <1>6 DEF vars, intent
  <1>7. CASE Leaving
    BY <1>7 DEF Leaving, Late, LateInsert, LateInsertFails
  <1> QED BY <1>1, <1>2, <1>3, <1>4, <1>5, <1>6, <1>7 DEF Next

LEMMA KeepsReceipts ==
    ASSUME Shape, Quietly, [Next]_vars PROVE (desk \subseteq Nat \X Nat)'
  <1> USE DEF Quietly
  <1>1. CASE Pull
    <2>1. job.item.order \in Nat /\ job.hash \in Nat
      BY ShapeFacts
    <2> QED BY <1>1, <2>1 DEF Pull, Item
  <1>2. CASE UNCHANGED desk
    BY <1>2
  <1>3. CASE Surroundings
    BY <1>2, <1>3
       DEF Surroundings, Take, Edit, Overwrite, Delete, Reappear, AddScope, DropScope, Lose, remote
  <1>4. CASE Commands
    BY <1>2, <1>4
       DEF Commands, Trigger, Pause, StopCycle, Resume, RemainingSnapshot, CancelRemaining,
           RestoreSkipped, RetryFailed, Kill, remote
  <1>5. CASE Choosing
    BY <1>2, <1>5
       DEF Choosing, Begin, Count, Counted, Work, PickLegacy, ScanRead, Scanned, Discover,
           PickRetry, Presence, Finish, remote
  <1>6. CASE Sending
    BY <1>1, <1>2, <1>6
       DEF Sending, LookupFresh, LookupOrder, ImportFresh, ImportOrder, Reinsert, ImportMissing,
           Confirmed, SourceMissing, Commit, remote
  <1>7. CASE Faults
    BY <1>2, <1>7 DEF Faults, Hold, ImportFailed, ItemFailure, PathFailure, WriteFails, Commit,
                      remote
  <1>8. CASE UNCHANGED vars
    BY <1>2, <1>8 DEF vars, remote
  <1>9. CASE Leaving
    BY <1>2, <1>9 DEF Leaving, Late, LateInsert, LateInsertFails, remote
  <1> QED BY <1>3, <1>4, <1>5, <1>6, <1>7, <1>8, <1>9 DEF Next

LEMMA NotConfirmed ==
    ASSUME Shape, NoEnd
    PROVE  ~\E i \in DOMAIN orders : orders[i].state # "confirmed" /\ orders'[i].state = "confirmed"
  BY DEF NoEnd, Final

(* An order is told "confirmed" only on the desktop's word, and for the    *)
(* bytes read for this delivery (FlowEngine.deliverAndCommit, and the      *)
(* check of the receipt's hash), whichever photo, version or attempt it    *)
(* is, if no loop is started beside a cancelled cycle that has still to    *)
(* insert its order.                                                       *)
THEOREM AsRead == Spec /\ []~overtaken => ConfirmedAsRead
  <1> DEFINE Safely ==
        \A i \in DOMAIN orders :
           /\ orders[i].state # "confirmed" /\ orders'[i].state = "confirmed"
           => <<i, job.hash>> \in desk /\ orders'[i].hash = job.hash
  <1>1. Init => Quietly
    BY DEF Init, Quietly
  <1>2. Sound /\ Quietly /\ [Next]_vars => Quietly'
    BY KeepsPaused, KeepsReceipts DEF Quietly, Sound
  <1>3. Sound /\ Quietly /\ [Next]_vars => Safely
    <2> SUFFICES ASSUME Shape, EngineInv, Quietly, [Next]_vars,
                        NEW i \in DOMAIN orders,
                        orders[i].state # "confirmed", orders'[i].state = "confirmed"
                 PROVE  <<i, job.hash>> \in desk /\ orders'[i].hash = job.hash
      BY DEF Sound
    <2>1. Telling
      BY SilentSteps, NotConfirmed
    <2>2. ASSUME NEW k, NEW state, NEW tries, Turn(k, state, tries)
          PROVE  state = "confirmed" /\ i = k /\ orders'[i].hash = orders[i].hash
      BY <2>2, TurnedRows
    <2>3. CASE LookupOrder
      BY <2>2, <2>3 DEF LookupOrder
    <2>4. CASE ImportMissing
      <3>1. CASE Item.order = 0
        <4>1. orders \in Seq(OrderRec) /\ \E row : orders' = Append(orders, row)
          BY <2>4, <3>1 DEF Shape, ImportMissing, Add
        <4>2. orders'[i] = orders[i]
          BY <4>1
        <4> QED BY <4>2
      <3>2. CASE Item.order # 0
        BY <2>2, <2>4, <3>2 DEF ImportMissing
      <3> QED BY <3>1, <3>2
    <2>5. CASE SourceMissing
      BY <2>2, <2>5 DEF SourceMissing, Commit
    <2>6. CASE ImportOrder
      <3>1. CASE Row.hash \notin {0, photo[Item.media].bytes}
        BY <2>2, <2>6, <3>1 DEF ImportOrder
      <3>2. CASE Row.hash \in {0, photo[Item.media].bytes}
        <4>1. orders' = [orders EXCEPT ![Item.order].state = "transferring",
                                       ![Item.order].hash = photo[Item.media].bytes]
          BY <2>6, <3>2 DEF ImportOrder
        <4>2. orders[i] \in OrderRec
          BY CurrentFacts
        <4> QED BY <4>1, <4>2 DEF OrderRec
      <3> QED BY <3>1, <3>2
    <2>7. CASE Confirmed
      <3>1. PICK d \in desk : /\ d[1] = Item.order
                              /\ IF d[2] = job.hash THEN Commit("confirmed", 0)
                                 ELSE Commit("failed", 1)
        BY <2>7 DEF Confirmed
      <3>2. d[2] = job.hash /\ Commit("confirmed", 0)
        BY <2>2, <3>1 DEF Commit
      <3>3. i = job.item.order /\ orders'[i].hash = orders[i].hash
        BY <2>2, <3>2 DEF Commit, Item
      <3>4. job.pc = "deliver" /\ job.pc \in InHand
        BY <3>2 DEF Commit, InHand
      <3>5. job.item.order # 0
        BY <3>4, InHandFacts
      <3>6. orders[i].hash = job.hash
        BY <3>3, <3>4, <3>5 DEF EngineInv, ItemIsRow
      <3>7. d = <<i, job.hash>>
        BY <3>1, <3>2, <3>3 DEF Quietly, Item
      <3> QED BY <3>3, <3>6, <3>7
    <2> QED BY <2>1, <2>3, <2>4, <2>5, <2>6, <2>7 DEF Telling
  <1> QED BY <1>1, <1>2, <1>3, Invariant, PTL DEF Spec, ConfirmedAsRead

-----------------------------------------------------------------------------
(* A photo that is still there is not written off.                         *)

LEMMA OlderRows ==
    ASSUME Shape, EngineInv, NEW p, NEW ver, ver > photo[p].ver, p \in Photos, ver \in Nat,
           NEW states
    PROVE  ~Has(p, ver, states)
  <1> SUFFICES ASSUME Has(p, ver, states) PROVE FALSE
    OBVIOUS
  <1>1. PICK i \in 1..Len(orders) : i = Current(p) /\ orders[i].media = p /\ orders[i].ver = ver
    BY CurrentFacts DEF Has
  <1>2. i \in DOMAIN orders
    BY CurrentFacts
  <1>3. ver <= photo[p].ver
    BY <1>1, <1>2 DEF EngineInv, RowsAreOld
  <1>4. photo[p].ver \in Nat
    BY ShapeFacts
  <1> QED BY <1>3, <1>4

Excused == unread \cup unopened \cup Reopening

LEMMA StaysUnwritten ==
    ASSUME Shape, EngineInv, Shape', NothingWrittenOff, NoEnd, Excused \subseteq Excused',
           \A p \in Photos : photo'[p].ver \in Nat /\ photo'[p].ver >= photo[p].ver
    PROVE  NothingWrittenOff'
  <1> SUFFICES ASSUME NEW p \in Photos, HasIn(orders', p, photo'[p].ver, {"sourceGone"})
               PROVE  <<p, photo'[p].ver>> \in Excused'
    BY DEF NothingWrittenOff, Excused, Has, HasIn, Current, CurIn
  <1>1. PICK ver \in Nat : ver = photo'[p].ver
    OBVIOUS
  <1>2. Has(p, ver, {"sourceGone"})
    <2>1. HasIn(orders', p, ver, {"sourceGone"})
      BY <1>1
    <2>2. Has(p, ver, {"sourceGone"})'
      BY <2>1, CurHasNext
    <2> QED BY <2>2, NoEndHas
  <1>3. photo[p].ver = ver
    <2>1. ~(ver > photo[p].ver) /\ photo[p].ver \in Nat
      BY <1>2, OlderRows, ShapeFacts
    <2> QED BY <1>1, <2>1
  <1>4. <<p, ver>> \in Excused
    BY <1>2, <1>3 DEF NothingWrittenOff, Excused
  <1> QED BY <1>1, <1>4

(* One photo is the only one that is told anything.                        *)
LEMMA OnlyOne ==
    ASSUME Shape, EngineInv, NothingWrittenOff, photo' = photo, NEW m,
           \A p : p # m => \A ver, states : Has(p, ver, states)' <=> Has(p, ver, states),
           \A p : p # m => \A ver : <<p, ver>> \in Excused => <<p, ver>> \in Excused',
           \A p, ver : p = m /\ p \in Photos /\ ver = photo[p].ver
                       /\ Has(p, ver, {"sourceGone"})' => <<p, ver>> \in Excused'
    PROVE  NothingWrittenOff'
  <1> SUFFICES ASSUME NEW p \in Photos, HasIn(orders', p, photo[p].ver, {"sourceGone"})
               PROVE  <<p, photo[p].ver>> \in Excused'
    BY DEF NothingWrittenOff, Excused, Has, HasIn, Current, CurIn
  <1>1. PICK ver : ver = photo[p].ver
    OBVIOUS
  <1>2. Has(p, ver, {"sourceGone"})'
    BY <1>1, CurHasNext
  <1>3. CASE p = m
    BY <1>1, <1>2, <1>3
  <1>4. CASE p # m
    <2>1. Has(p, ver, {"sourceGone"})
      BY <1>2, <1>4
    <2>2. <<p, ver>> \in Excused
      BY <1>1, <2>1 DEF NothingWrittenOff, Excused
    <2> QED BY <1>1, <1>4, <2>2
  <1> QED BY <1>3, <1>4

LEMMA LeavesAlone ==
    ASSUME Shape, EngineInv, Shape', NothingWrittenOff, NoEnd, Excused \subseteq Excused',
           photo' = photo
    PROVE  NothingWrittenOff'
  <1>1. \A p \in Photos : photo[p].ver \in Nat
    BY ShapeFacts
  <1> QED BY <1>1, StaysUnwritten

(* The order in hand is told it is over, and its photo is excused if gone. *)
LEMMA ToldGone ==
    ASSUME Shape, EngineInv, NothingWrittenOff, job.pc \in InHand, job.item.order # 0,
           photo' = photo, Excused \subseteq Excused',
           NEW state \in States \ {"transferring"}, NEW tries \in Nat,
           Turn(job.item.order, state, tries),
           \A p : state = "sourceGone" /\ p = job.item.media /\ photo[p].ver = job.item.ver =>
                    <<p, job.item.ver>> \in Excused'
    PROVE  NothingWrittenOff'
  <1>1. /\ \A p : p # job.item.media =>
             \A ver, states : Has(p, ver, states)' <=> Has(p, ver, states)
        /\ \A p : p = job.item.media =>
             \A ver, states : Has(p, ver, states)' <=>
                              job.item.ver = ver /\ state \in states
    BY OrderTurned
  <1>2. ASSUME NEW p, NEW ver, p = job.item.media, ver = photo[p].ver,
               Has(p, ver, {"sourceGone"})'
        PROVE  <<p, ver>> \in Excused'
    <2>1. job.item.ver = ver /\ state = "sourceGone"
      BY <1>1, <1>2
    <2> QED BY <1>2, <2>1
  <1> HIDE DEF Excused
  <1> QED BY <1>1, <1>2, OnlyOne

(* An order is put in for one photo: what was said of it before is over.   *)
LEMMA Reopened ==
    ASSUME Shape, EngineInv, NothingWrittenOff, photo' = photo,
           NEW row \in OrderRec, row.state = "transferring", Add(row),
           \A p : p # row.media => \A ver : <<p, ver>> \in Excused => <<p, ver>> \in Excused'
    PROVE  NothingWrittenOff'
  <1>1. /\ \A ver, states : Has(row.media, ver, states)' <=>
             row.ver = ver /\ row.state \in states
        /\ \A p : p # row.media =>
             \A ver, states : Has(p, ver, states)' <=> Has(p, ver, states)
    BY Appended
  <1>2. \A p, ver : p = row.media => ~Has(p, ver, {"sourceGone"})'
    BY <1>1
  <1> QED BY <1>1, <1>2, OnlyOne

LEMMA TellingKeeps ==
    ASSUME Shape, EngineInv, Shape', NothingWrittenOff, Telling PROVE  NothingWrittenOff'
  <1>1. photo' = photo /\ job.pc \in InHand /\ job.pc # "reinsert"
    BY DEF Telling, LookupOrder, ImportOrder, ImportMissing, Confirmed, SourceMissing,
           Commit, media, InHand
  <1>2. unread \subseteq unread' /\ unopened' = unopened /\ leaving' = leaving
    BY DEF Telling, LookupOrder, ImportOrder, ImportMissing, Confirmed, SourceMissing,
           Quiet, ghosts, aside
  <1>3. Excused \subseteq Excused' /\ unread' \subseteq Excused'
    BY <1>1, <1>2 DEF Excused, Reopening, NotReopened
  <1>4. CASE LookupOrder
    <2>1. /\ job.pc = "lookup" /\ job.item.order # 0
          /\ orders[job.item.order].ver = job.item.ver
      BY <1>1, <1>4, InHandFacts DEF LookupOrder, Item
    <2>2. CASE UNCHANGED orders
      BY <1>1, <1>3, <2>2, SameRows, LeavesAlone
    <2>3. CASE Turn(job.item.order, "pending", 0)
      <3>1. NoEnd
        BY <2>3, TurnedRows DEF Final
      <3> QED BY <1>1, <1>3, <3>1, LeavesAlone
    <2>4. CASE /\ ~Here \/ photo[job.item.media].ver # Row.ver
               /\ Turn(job.item.order, "sourceGone", 0)
      <3>1. "sourceGone" \in States \ {"transferring"} /\ 0 \in Nat
        BY DEF States, Settled
      <3>2. photo[job.item.media].ver = job.item.ver =>
              <<job.item.media, job.item.ver>> \in Excused'
        <4>1. photo[job.item.media].ver = job.item.ver => ~Here
          BY <2>1, <2>4 DEF Row, Item
        <4> QED BY <1>3, <1>4, <4>1 DEF LookupOrder, Item
      <3> QED BY <1>1, <1>3, <2>1, <2>4, <3>1, <3>2, ToldGone
    <2> QED BY <1>4, <2>2, <2>3, <2>4 DEF LookupOrder, Item
  <1>5. CASE ImportOrder
    <2>1. job.pc = "import" /\ job.item.order # 0
      BY <1>5 DEF ImportOrder, Item
    <2>2. CASE Row.hash \notin {0, photo[Item.media].bytes}
      <3>1. /\ Turn(job.item.order, "sourceGone", 0)
            /\ job' = [Go("reinsert") EXCEPT !.hash = photo[Item.media].bytes]
        BY <1>5, <2>2 DEF ImportOrder, Item
      <3>2. job'.pc = "reinsert" /\ job'.item = job.item
        BY <3>1 DEF Go, Shape, JobRec
      <3>3. "sourceGone" \in States \ {"transferring"} /\ 0 \in Nat
        BY DEF States, Settled
      <3>4. <<job.item.media, job.item.ver>> \in Excused'
        BY <3>2 DEF Excused, Reopening, NotReopened
      <3> QED BY <1>1, <1>3, <2>1, <3>1, <3>3, <3>4, ToldGone
    <2>3. CASE Row.hash \in {0, photo[Item.media].bytes}
      <3>1. orders' = [orders EXCEPT ![Item.order].state = "transferring",
                                     ![Item.order].hash = photo[Item.media].bytes]
        BY <1>5, <2>3 DEF ImportOrder
      <3>2. \A i \in DOMAIN orders : orders[i] \in OrderRec
        BY CurrentFacts
      <3>3. /\ DOMAIN orders' = DOMAIN orders
            /\ \A i \in DOMAIN orders :
                 /\ orders'[i].media = orders[i].media /\ orders'[i].ver = orders[i].ver
                 /\ orders'[i].state = orders[i].state \/ orders'[i].state = "transferring"
        BY <3>1, <3>2 DEF OrderRec
      <3>4. NoEnd
        BY <3>3, ChangedRows DEF Final
      <3> QED BY <1>1, <1>3, <3>4, LeavesAlone
    <2> QED BY <2>2, <2>3
  <1>6. CASE ImportMissing \/ SourceMissing
    <2>1. <<job.item.media, job.item.ver>> \in Excused'
      BY <1>3, <1>6 DEF ImportMissing, SourceMissing, Item
    <2>2. CASE Turn(job.item.order, "sourceGone", 0) /\ job.item.order # 0
      <3>1. "sourceGone" \in States \ {"transferring"} /\ 0 \in Nat
        BY DEF States, Settled
      <3> QED BY <1>1, <1>3, <2>1, <2>2, <3>1, ToldGone
    <2>3. CASE ImportMissing /\ job.item.order = 0
      <3> DEFINE row == NewOrder(job.item.media, job.item.ver, 0, "sourceGone")
      <3>1. Add(row)
        BY <2>3 DEF ImportMissing, Item
      <3>2. Flying = {} /\ job.item.media \in Photos
        BY <1>1, <2>3, InHandFacts
      <3>3. /\ row \in OrderRec /\ row.media = job.item.media /\ row.ver = job.item.ver
        BY <3>2, ShapeFacts DEF NewOrder, OrderRec, States, Settled
      <3> HIDE DEF row
      <3>4. /\ \A p : p # job.item.media =>
                 \A ver, states : Has(p, ver, states)' <=> Has(p, ver, states)
            /\ \A p : p = job.item.media =>
                 \A ver, states : Has(p, ver, states)' => job.item.ver = ver
        BY <1>1, <3>1, <3>2, <3>3, OrderAdded
      <3>5. \A p, ver : p = job.item.media /\ Has(p, ver, {"sourceGone"})' =>
                          <<p, ver>> \in Excused'
        BY <2>1, <3>4
      <3> QED BY <1>1, <1>3, <3>4, <3>5, OnlyOne
    <2>4. SourceMissing => job.item.order # 0
      BY <1>1, InHandFacts DEF SourceMissing
    <2> QED BY <1>6, <2>2, <2>3, <2>4 DEF ImportMissing, SourceMissing, Commit, Item
  <1>7. CASE Confirmed
    <2>1. job.pc = "deliver"
      BY <1>7 DEF Confirmed, Commit
    <2>2. job.item.order # 0
      BY <1>1, <2>1, InHandFacts
    <2>3. Turn(job.item.order, "confirmed", 0) \/ Turn(job.item.order, "failed", 1)
      BY <1>7 DEF Confirmed, Commit, Item
    <2>4. /\ "confirmed" \in States \ {"transferring"} /\ "failed" \in States \ {"transferring"}
          /\ 0 \in Nat /\ 1 \in Nat
      BY DEF States, Settled, Open
    <2>5. CASE Turn(job.item.order, "confirmed", 0)
      BY <1>1, <1>3, <2>1, <2>2, <2>4, <2>5, ToldGone
    <2>6. CASE Turn(job.item.order, "failed", 1)
      BY <1>1, <1>3, <2>1, <2>2, <2>4, <2>6, ToldGone
    <2> QED BY <2>3, <2>5, <2>6
  <1> QED BY <1>4, <1>5, <1>6, <1>7 DEF Telling

(* The order for the new bytes, in time or late.                           *)
LEMMA ReinsertKeeps ==
    ASSUME Shape, EngineInv, NothingWrittenOff, Reinsert PROVE NothingWrittenOff'
  <1> DEFINE row == NewOrder(job.item.media, orders[job.item.order].ver, job.hash, "transferring")
  <1>1. /\ job.pc = "reinsert" /\ job.pc \in InHand /\ photo' = photo /\ Add(row)
        /\ UNCHANGED <<unread, unopened, leaving>>
    BY DEF Reinsert, InHand, Quiet, ghosts, aside, media, Item, Row
  <1>2. /\ job.item.media \in Photos /\ orders[job.item.order].ver = job.item.ver
    BY <1>1, InHandFacts
  <1>3. /\ row \in OrderRec /\ row.media = job.item.media /\ row.state = "transferring"
    BY <1>2, ShapeFacts DEF NewOrder, OrderRec, States, Open
  <1>4. \A p : p # row.media => \A ver : <<p, ver>> \in Excused => <<p, ver>> \in Excused'
    BY <1>1, <1>3 DEF Excused, Reopening, NotReopened
  <1> HIDE DEF row
  <1> QED BY <1>1, <1>3, <1>4, Reopened

LEMMA LateKeeps ==
    ASSUME Shape, EngineInv, Leaves, NothingWrittenOff, NEW c \in leaving, LateInsert(c)
    PROVE  NothingWrittenOff'
  <1> DEFINE row == NewOrder(c.media, c.ver, c.hash, "transferring")
  <1>1. /\ Stale(c) /\ leaving = {c} /\ job.pc = "off" /\ photo' = photo /\ Add(row)
        /\ UNCHANGED <<unread, unopened, job>>
    BY DEF LateInsert, Leaves, media
  <1>2. /\ row \in OrderRec /\ row.media = c.media /\ row.state = "transferring"
    BY <1>1 DEF Stale, NewOrder, OrderRec, States, Open
  <1>3. \A p : p # row.media => \A ver : <<p, ver>> \in Excused => <<p, ver>> \in Excused'
    BY <1>1, <1>2 DEF Excused, Reopening, NotReopened
  <1> HIDE DEF row
  <1> QED BY <1>1, <1>2, <1>3, Reopened

(* A photo that waits for its new order goes on waiting, or is noted.      *)
LEMMA StaysExcused ==
    ASSUME Shape, EngineInv, Quietly, [Next]_vars, ~overtaken', ~Telling, ~Reinsert, ~Late
    PROVE  Excused \subseteq Excused'
  <1> USE DEF ghosts, aside, Excused, Reopening, NotReopened
  <1>1. Marked.pc = job.pc /\ Marked.item = job.item
    BY DEF Marked, Shape, JobRec
  <1>2. ASSUME NEW kind, NEW j, Wake(kind, j), j.pc = job.pc, j.item = job.item,
               UNCHANGED <<unread, unopened>>
        PROVE  Excused \subseteq Excused'
    <2>1. CASE job' = j /\ leaving' = leaving
      BY <1>2, <2>1
    <2>2. CASE j.pc = "off" /\ Overtake
      BY <1>2, <2>2 DEF Overtake
    <2> QED BY <1>2, <2>1, <2>2 DEF Wake
  <1>3. CASE \/ RestoreSkipped \/ RetryFailed \/ \E p \in Photos : AddScope(p)
             \/ \E kind \in {"wake", "periodic"} : Trigger(kind)
    <2>1. /\ UNCHANGED <<unread, unopened>>
          /\ Wake("check", Marked) \/ Wake("check", job)
             \/ \E kind \in {"wake", "periodic"} : Wake(kind, job)
      BY <1>3 DEF RestoreSkipped, RetryFailed, AddScope, Trigger
    <2> QED BY <1>1, <1>2, <2>1
  <1>4. CASE \/ \E burst \in SUBSET Photos : Take(burst)
             \/ \E p \in Photos : Edit(p) \/ Overwrite(p) \/ Delete(p) \/ Reappear(p) \/ DropScope(p)
             \/ \E f \in kept : Lose(f)
             \/ RemainingSnapshot
    BY <1>4 DEF Take, Edit, Overwrite, Delete, Reappear, DropScope, Lose, RemainingSnapshot,
                Untouched, Quiet
  <1>5. CASE Pause \/ StopCycle
    <2>1. /\ UNCHANGED <<unread, unopened>>
          /\ Leave(TRUE) \/ Leave(FALSE)
      BY <1>5 DEF Pause, StopCycle
    <2>2. leaving \subseteq leaving'
      BY <2>1 DEF Leave
    <2>3. ASSUME job.pc = "reinsert"
          PROVE  \E c \in leaving' : c.media = job.item.media /\ c.ver = job.item.ver
      <3>1. job.item.order # 0 /\ orders[job.item.order].ver = job.item.ver
        BY <2>3, InHandFacts DEF InHand
      <3> DEFINE c(wait) == [media |-> job.item.media, ver |-> orders[job.item.order].ver,
                             hash |-> job.hash, wait |-> wait, last |-> TRUE]
      <3>2. \E wait \in BOOLEAN : c(wait) \in leaving'
        BY <2>1, <2>3 DEF Leave
      <3>3. \A wait : c(wait).media = job.item.media /\ c(wait).ver = job.item.ver
        BY <3>1
      <3> HIDE DEF c
      <3> QED BY <3>2, <3>3
    <2> QED BY <2>1, <2>2, <2>3
  <1>6. CASE Resume \/ CancelRemaining
    <2>1. job.pc # "reinsert"
      BY <1>6 DEF Quietly, Resume, CancelRemaining, MayCancel
    <2>2. UNCHANGED <<unread, unopened, leaving>>
      BY <1>6 DEF Resume, CancelRemaining, Quiet, Overtake
    <2> QED BY <2>1, <2>2
  <1>7. CASE Kill
    BY <1>7 DEF Kill
  <1>8. CASE Choosing
    BY <1>8 DEF Choosing, Begin, Count, Counted, Work, PickLegacy, ScanRead, Scanned,
                Discover, PickRetry, Presence, Finish, Quiet
  <1>9. CASE LookupFresh \/ ImportFresh \/ Pull
    BY <1>9 DEF LookupFresh, ImportFresh, Pull, Quiet
  <1>10. CASE Hold \/ ImportFailed \/ ItemFailure \/ PathFailure
    BY <1>10 DEF Hold, ImportFailed, ItemFailure, PathFailure, Commit
  <1>11. CASE WriteFails
    BY <1>11 DEF WriteFails
  <1>12. CASE UNCHANGED vars
    BY <1>12 DEF vars
  <1>13. CASE \E c \in leaving : LateInsertFails(c)
    BY <1>13 DEF LateInsertFails
  <1> QED BY <1>3, <1>4, <1>5, <1>6, <1>7, <1>8, <1>9, <1>10, <1>11, <1>12, <1>13
          DEF Next, Surroundings, Commands, Sending, Faults, Leaving, Telling

LEMMA KeepsUnwritten ==
    ASSUME Sound, Shape', Quietly, NothingWrittenOff, [Next]_vars, ~overtaken'
    PROVE  NothingWrittenOff'
  <1> USE DEF Sound
  <1>1. CASE Telling
    BY <1>1, TellingKeeps
  <1>2. CASE Reinsert
    BY <1>2, ReinsertKeeps
  <1>3. CASE Late
    BY <1>3, LateKeeps DEF Late
  <1>4. CASE ~Telling /\ ~Reinsert /\ ~Late
    <2>1. NoEnd
      BY <1>4, SilentSteps
    <2>2. Excused \subseteq Excused'
      BY <1>4, StaysExcused
    <2> QED BY <2>1, <2>2, PhotosChange, StaysUnwritten
  <1> QED BY <1>1, <1>2, <1>3, <1>4

(* A photo is settled as gone, in the version it has, only when it or its  *)
(* file was looked for in vain, or when its order was closed for other     *)
(* bytes and a death of the process or a failed write came before the next *)
(* one; an edit, an overwritten file, an album given up or taken up again, *)
(* a pause or a lost network do not do it (FlowEngine.processExisting,     *)
(* deliverAndCommit).  So until a loop is started beside a cancelled cycle *)
(* that has still to insert its order.                                     *)
THEOREM NotWrittenOff == Spec => [](~overtaken => NothingWrittenOff)
  <1> DEFINE Kept == Sound /\ Quietly /\ NothingWrittenOff
  <1>1. Init => overtaken \/ Kept
    <2>1. ASSUME Init PROVE Quietly /\ NothingWrittenOff
      <3>1. /\ Shape /\ orders = << >> /\ paused = FALSE /\ desk = {}
        BY <2>1, Starts DEF Init
      <3>2. \A p, ver, states : ~Has(p, ver, states)
        BY <3>1, CurrentFacts DEF Has
      <3> QED BY <3>1, <3>2 DEF Quietly, NothingWrittenOff
    <2> QED BY <2>1, Starts DEF Sound
  <1>2. (overtaken \/ Kept) /\ [Next]_vars => (overtaken \/ Kept)'
    <2>1. ASSUME overtaken, [Next]_vars PROVE overtaken'
      BY <2>1, StaysOvertaken
    <2>2. ASSUME Kept, [Next]_vars, ~overtaken' PROVE Kept'
      <3>1. Sound'
        BY <2>2, Keeps, KeepsLeaves DEF Sound
      <3>2. Quietly'
        BY <2>2, KeepsPaused, KeepsReceipts DEF Quietly, Sound
      <3>3. NothingWrittenOff'
        BY <2>2, <3>1, KeepsUnwritten DEF Sound
      <3> QED BY <3>1, <3>2, <3>3
    <2> QED BY <2>1, <2>2
  <1> QED BY <1>1, <1>2, PTL DEF Spec

===============================================================================
