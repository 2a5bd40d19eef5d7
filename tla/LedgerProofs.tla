---------------------------- MODULE LedgerProofs ----------------------------
(***************************************************************************)
(* The wallet implements the ledger, for any number of requests, lots,     *)
(* orders and failures: every step leaves the ledger alone, is a look of a *)
(* withdrawal at the lots or the end of one, or is a COMMIT; and a COMMIT  *)
(* is one deposit or one withdrawal of the ledger, computed from the lots  *)
(* as they are at that moment.                                             *)
(*                                                                         *)
(* LotInv carries the argument.  A deposit has pending the lot its request *)
(* asks for.  A withdrawal ran its loop many steps ago over rows it read   *)
(* without a lock, but each row it is about to replace is still the row it *)
(* read, so the ledger's loop over the stored rows is the loop it ran.     *)
(***************************************************************************)
EXTENDS LotProofs

USE DEF CommandFound, ClientFound, AssetFound

(* The committed snapshots: the results of the ledger. *)
Snapshots == [k \in DOMAIN commands |-> commands[k].responseSnapshot]

(* The lots the withdrawals in progress have read: what the ledger's have  *)
(* seen.                                                                   *)
Seen == [r \in Request |-> LotsSeen(r)]

(* The operators of the ledger are those of the wallet. *)
LEMMA LedgerOperators ==
    /\ \A p : AbstractLedger!Coerce(p) = Coerce(p)
    /\ \A p : AbstractLedger!Storable(p) = Storable(p)
    /\ \A p : AbstractLedger!ToDTO(p) = ToDTO(p)
    /\ \A s : AbstractLedger!ToResponse(s) = ToResponse(s)
    /\ \A p : AbstractLedger!IsEligible(p) = IsEligible(p)
    /\ \A p, x : AbstractLedger!UnitsSold(p, x) = UnitsSold(p, x)
    /\ \A p, x : AbstractLedger!UpdateAmount(p, x) = UpdateAmount(p, x)
    /\ \A t, k, v : AbstractLedger!Put(t, k, v) = Put(t, k, v)
    /\ AbstractLedger!EmptyTable = EmptyTable
    /\ \A id, c, a, n, u, t :
          AbstractLedger!NewPosition(id, c, a, n, u, t) = NewPosition(id, c, a, n, u, t)
<1>1. \A n, q : AbstractLedger!RoundHalfUp(n, q) = RoundHalfUp(n, q)
  BY DEF AbstractLedger!RoundHalfUp, RoundHalfUp
<1>2. \A n, q : AbstractLedger!ToScale(n, q) = ToScale(n, q)
  BY <1>1 DEF AbstractLedger!ToScale, ToScale
<1>3. \A p : AbstractLedger!Coerce(p) = Coerce(p)
  BY <1>2 DEF AbstractLedger!Coerce, Coerce
<1>4. \A p : AbstractLedger!Storable(p) = Storable(p)
  BY <1>3 DEF AbstractLedger!Storable, Storable
<1>5. \A p : AbstractLedger!ToDTO(p) = ToDTO(p)
  BY DEF AbstractLedger!ToDTO, ToDTO
<1>6. \A s : AbstractLedger!ToResponse(s) = ToResponse(s)
  BY <1>5 DEF AbstractLedger!ToResponse, ToResponse
<1>7. \A p : AbstractLedger!AvailableValue(p) = AvailableValue(p)
  BY DEF AbstractLedger!AvailableValue, AvailableValue
<1>8. \A p : AbstractLedger!IsEligible(p) = IsEligible(p)
  BY <1>7 DEF AbstractLedger!IsEligible, IsEligible
<1>9. \A v, u : AbstractLedger!Round6(AbstractLedger!Div(v, u)) = Round6(Div(v, u))
  BY <1>1 DEF AbstractLedger!Round6, AbstractLedger!Div, Round6, Div
<1>10. \A p, x : AbstractLedger!UnitsSold(p, x) = UnitsSold(p, x)
  BY <1>7, <1>9 DEF AbstractLedger!UnitsSold, UnitsSold
<1>11. \A p, x : AbstractLedger!UpdateAmount(p, x) = UpdateAmount(p, x)
  BY DEF AbstractLedger!UpdateAmount, UpdateAmount
<1>12. \A t, k, v : AbstractLedger!Put(t, k, v) = Put(t, k, v)
  BY DEF AbstractLedger!Put, Put
<1>13. AbstractLedger!EmptyTable = EmptyTable
  BY DEF AbstractLedger!EmptyTable, EmptyTable
<1>14. \A id, c, a, n, u, t :
         AbstractLedger!NewPosition(id, c, a, n, u, t) = NewPosition(id, c, a, n, u, t)
  BY DEF AbstractLedger!NewPosition, NewPosition
<1> QED
  BY <1>3, <1>4, <1>5, <1>6, <1>8, <1>10, <1>11, <1>12, <1>13, <1>14

(* So are its sets of sequences. *)
LEMMA LedgerSequences ==
    /\ \A S : AbstractLedger!SetToSeqs(S) = SetToSeqs(S)
    /\ \A f : AbstractLedger!Range(f) = Range(f)
<1>1. \A S : AbstractLedger!Cardinality(S) = Cardinality(S)
  BY DEF AbstractLedger!Cardinality, Cardinality
<1>2. \A S : AbstractLedger!SetToSeqs(S) = SetToSeqs(S)
  BY <1>1 DEF AbstractLedger!SetToSeqs, SetToSeqs
<1>3. \A f : AbstractLedger!Range(f) = Range(f)
  BY DEF AbstractLedger!Range, Range
<1> QED
  BY <1>2, <1>3

-----------------------------------------------------------------------------
(* The loop over stored lots. *)

(* The value left before each round, when the stored lots of s are sold    *)
(* one after the other for request q.                                      *)
IsToSell(q, s, f) ==
    f = [i \in 1..Len(s) + 1 |->
            IF i = 1 THEN q.desiredValue
            ELSE f[i - 1] - UnitsSold(positions[s[i - 1]], f[i - 1])
                                * positions[s[i - 1]].unitPrice]

(* It is determined: two of them that differ would differ first somewhere. *)
LEMMA ToSellUnique ==
    ASSUME NEW q, NEW s, Len(s) \in Nat, NEW f, NEW g,
           IsToSell(q, s, f), IsToSell(q, s, g)
    PROVE  f = g
<1> DEFINE n == Len(s)
           T == {i \in 1..n + 1 : f[i] # g[i]}
<1>1. /\ f = [i \in 1..n + 1 |-> f[i]] /\ g = [i \in 1..n + 1 |-> g[i]]
      /\ f[1] = q.desiredValue /\ g[1] = q.desiredValue
      /\ \A i \in 1..n + 1 : i # 1 =>
            /\ f[i] = f[i - 1] - UnitsSold(positions[s[i - 1]], f[i - 1])
                                     * positions[s[i - 1]].unitPrice
            /\ g[i] = g[i - 1] - UnitsSold(positions[s[i - 1]], g[i - 1])
                                     * positions[s[i - 1]].unitPrice
  <2> SUFFICES ASSUME NEW h, IsToSell(q, s, h)
               PROVE  /\ h = [i \in 1..n + 1 |-> h[i]]
                      /\ h[1] = q.desiredValue
                      /\ \A i \in 1..n + 1 : i # 1 =>
                            h[i] = h[i - 1]
                                     - UnitsSold(positions[s[i - 1]], h[i - 1])
                                         * positions[s[i - 1]].unitPrice
    OBVIOUS
  <2> DEFINE round(i) == h[i - 1] - UnitsSold(positions[s[i - 1]], h[i - 1])
                                        * positions[s[i - 1]].unitPrice
  <2>1. h = [i \in 1..n + 1 |-> IF i = 1 THEN q.desiredValue ELSE round(i)]
    BY DEF IsToSell
  <2>2. 1 \in 1..n + 1
    OBVIOUS
  <2> HIDE DEF round, n
  <2>3. DOMAIN h = 1..n + 1
    BY <2>1
  <2>4. \A i \in 1..n + 1 : h[i] = IF i = 1 THEN q.desiredValue ELSE round(i)
    BY <2>1
  <2>5. h = [i \in 1..n + 1 |-> h[i]]
    BY <2>1, <2>3
  <2> QED
    BY <2>2, <2>4, <2>5 DEF round
<1>2. SUFFICES ASSUME T # {} PROVE FALSE
  BY <1>1
<1>3. T \subseteq Nat
  OBVIOUS
<1>4. PICK i \in T : \A k \in T : i <= k
  BY <1>2, <1>3, LeastNatural
<1>5. i \in 1..n + 1 /\ i # 1 /\ f[i] # g[i]
  BY <1>1, <1>4
<1>6. i - 1 \in 1..n + 1 /\ i - 1 \notin T
  BY <1>4, <1>5
<1>7. f[i - 1] = g[i - 1]
  BY <1>6
<1> QED
  BY <1>1, <1>5, <1>7

(* It is what the ledger computes. *)
LEMMA ToSellIs ==
    ASSUME NEW q, NEW s, Len(s) \in Nat, NEW f, IsToSell(q, s, f)
    PROVE  AbstractLedger!ToSell(q, s) = f
<1> DEFINE IsLeft(g) ==
             g = [i \in 1..Len(s) + 1 |->
                    IF i = 1 THEN q.desiredValue
                    ELSE g[i - 1] - AbstractLedger!UnitsSold(positions[s[i - 1]], g[i - 1])
                                        * positions[s[i - 1]].unitPrice]
<1>1. \A g : IsLeft(g) <=> IsToSell(q, s, g)
  BY LedgerOperators DEF IsToSell
<1>2. AbstractLedger!ToSell(q, s) = CHOOSE g : IsLeft(g)
  BY DEF AbstractLedger!ToSell
<1> HIDE DEF IsLeft
<1>3. IsLeft(CHOOSE g : IsLeft(g))
  BY <1>1
<1> QED
  BY <1>1, <1>2, <1>3, ToSellUnique

-----------------------------------------------------------------------------
(* Commits. *)

(* A COMMIT records the result of its request, which had none. *)
LEMMA CommitIsRecord ==
    ASSUME WalletInv, NEW s \in Request, pc[s] = "commit", CommitTx(s)
    PROVE  LET key == <<req[s].type, req[s].order>>
           IN  /\ key \notin DOMAIN Snapshots
               /\ Snapshots' = Put(Snapshots, key, ToResponse(mem[s].held))
<1> DEFINE key == KeyOf(s)
           snapshot == ToResponse(mem[s].held)
<1>1. /\ key \notin DOMAIN commands
      /\ DOMAIN commands' = DOMAIN commands \cup {key}
      /\ commands'[key].responseSnapshot = snapshot
      /\ \A k \in DOMAIN commands : commands'[k] = commands[k]
  BY CommitRecords DEF WalletInv
<1>2. key = <<req[s].type, req[s].order>>
  BY DEF KeyOf
<1> HIDE DEF key, snapshot
<1>3. DOMAIN Snapshots = DOMAIN commands
  BY DEF Snapshots
<1>4. Snapshots' = Put(Snapshots, key, snapshot)
  <2>1. DOMAIN Put(Snapshots, key, snapshot) = DOMAIN commands'
    BY <1>1, <1>3 DEF Put
  <2>2. ASSUME NEW k \in DOMAIN commands'
        PROVE  commands'[k].responseSnapshot = Put(Snapshots, key, snapshot)[k]
    BY <1>1, <1>3 DEF Put, Snapshots
  <2> QED
    BY <1>1, <1>3, <2>1, <2>2 DEF Snapshots, Put
<1> QED
  BY <1>1, <1>2, <1>3, <1>4 DEF snapshot

(* The COMMIT of a deposit adds the lot its request asks for. *)
LEMMA CommitIsDeposit ==
    ASSUME WalletInv, NEW s \in Request, pc[s] = "commit", CommitTx(s), IsDeposit(s),
           NEW q, q = req[s], req' = req, Seen' = Seen
    PROVE  \E now \in Times : AbstractLedger!Deposit(s, now)
<1> DEFINE p == mem[s].held[1]
<1>1. LotsAt(s, "commit", mem[s], pendingRows[s], DOMAIN pendingCommands[s])
  BY DEF WalletInv, LotInv, InvocationLots
<1>2. /\ Len(mem[s].held) = 1 /\ IsNewLot(s, p)
      /\ Storable(p) /\ DOMAIN pendingRows[s] = {s} /\ pendingRows[s][s] = Coerce(p)
  BY <1>1 DEF LotsAt
<1>3. PICK now \in Times : p = NewPosition(s, q.client, q.asset, q.amount, q.unitPrice, now)
  BY <1>2 DEF IsNewLot
<1>4. q.type = "DEPOSIT"
  BY DEF IsDeposit
<1>5. s \notin DOMAIN positions
  BY CommitEffect DEF WalletInv
<1>6. positions' = Put(positions, s, Coerce(p))
  BY <1>2 DEF CommitTx, PutAll, Put
<1>7. ToResponse(mem[s].held) = <<ToDTO(p)>>
  <2>1. mem[s].held \in Seq(Position)
    BY MemoryType DEF WalletInv, TypeInv, InvocationTypeOK
  <2>2. DOMAIN mem[s].held = 1..1
    BY <1>2, <2>1
  <2> HIDE DEF p
  <2>3. \A i \in 1..1 : i = 1
    OBVIOUS
  <2>4. ToResponse(mem[s].held) = [i \in 1..1 |-> ToDTO(p)]
    BY <2>2, <2>3 DEF ToResponse, p
  <2>5. [i \in 1..1 |-> ToDTO(p)] = <<ToDTO(p)>>
    OBVIOUS
  <2> QED
    BY <2>4, <2>5
<1> DEFINE key == <<q.type, q.order>>
<1>8. key \notin DOMAIN Snapshots /\ Snapshots' = Put(Snapshots, key, <<ToDTO(p)>>)
  BY <1>7, CommitIsRecord
<1> HIDE DEF p
<1>9. /\ AbstractLedger!NewPosition(s, q.client, q.asset, q.amount, q.unitPrice, now) = p
      /\ AbstractLedger!Storable(p) /\ AbstractLedger!ToDTO(p) = ToDTO(p)
      /\ positions' = AbstractLedger!Put(positions, s, AbstractLedger!Coerce(p))
      /\ Snapshots' = AbstractLedger!Put(Snapshots, key, <<ToDTO(p)>>)
  BY <1>2, <1>3, <1>6, <1>8, LedgerOperators
<1>10. AbstractLedger!Record(req[s],
         <<AbstractLedger!ToDTO(AbstractLedger!NewPosition(s, req[s].client,
             req[s].asset, req[s].amount, req[s].unitPrice, now))>>)
  BY <1>8, <1>9 DEF AbstractLedger!Record, Snapshots
<1>11. AbstractLedger!Deposit(s, now)
  BY <1>2, <1>4, <1>5, <1>9, <1>10 DEF AbstractLedger!Deposit, Seen
<1> QED
  BY <1>11

(* The lots a withdrawal holds, by id. *)
LotsSold(m) == [i \in 1..Len(m.held) |-> m.held[i].positionID]

(* The position in place i of memory m is the stored row less a sale when  *)
(* toSell[i] is left of the desired value.                                 *)
SoldFromRow(r, m, toSell, i) ==
    LET lot == positions[m.held[i].positionID]
    IN  /\ m.held[i].positionID \in DOMAIN positions
        /\ lot \in Position /\ ReadBy(r, lot)
        /\ toSell[i] > 0
        /\ m.held[i] = UpdateAmount(lot, lot.amount - UnitsSold(lot, toSell[i]))
        /\ toSell[i + 1] = toSell[i] - UnitsSold(lot, toSell[i]) * lot.unitPrice

(* The loop a withdrawal about to commit ran is the loop over the rows     *)
(* stored now: each of them is at the version read.                        *)
LEMMA LoopIsCurrent ==
    ASSUME WalletInv, NEW s \in Request, pc[s] = "commit", IsWithdraw(s)
    PROVE  \E toSell \in [1..Len(mem[s].held) + 1 -> Int] :
              /\ toSell[1] = req[s].desiredValue
              /\ toSell[Len(mem[s].held) + 1] = mem[s].remaining
              /\ \A i \in 1..Len(mem[s].held) : SoldFromRow(s, mem[s], toSell, i)
<1> DEFINE m == mem[s]
<1>1. /\ Selling(s, m) /\ Written(m, pendingRows[s])
      /\ m.written = Len(m.held)
  <2>1. LotsAt(s, "commit", m, pendingRows[s], DOMAIN pendingCommands[s])
    BY DEF WalletInv, LotInv, InvocationLots
  <2> QED
    BY <2>1 DEF LotsAt
<1>2. PICK toSell \in [1..Len(m.held) + 1 -> Int] : IsLoop(s, m, toSell)
  BY <1>1 DEF Selling
<1> HIDE DEF m
<1>3. ASSUME NEW i \in 1..Len(m.held)
      PROVE  SoldFromRow(s, m, toSell, i)
  <2> DEFINE p == m.held[i]
             lot == positions[p.positionID]
  <2>1. /\ SoldBy(s, p, m.sold[i], toSell[i])
        /\ toSell[i + 1] = toSell[i] - m.sold[i] * p.unitPrice
    BY <1>2 DEF IsLoop
  <2>2. lot.rowVersion = p.rowVersion - 1
    BY <1>1 DEF Written
  <2>3. /\ p.positionID \in DOMAIN positions /\ lot \in Position
        /\ ReadBy(s, lot)
        /\ toSell[i] > 0 /\ m.sold[i] = UnitsSold(lot, toSell[i])
        /\ p = UpdateAmount(lot, lot.amount - m.sold[i])
    BY <2>1, <2>2, VersionFindsRead DEF WalletInv
  <2> HIDE DEF p, lot
  <2>4. p.unitPrice = lot.unitPrice
    BY <2>3 DEF UpdateAmount, Position, PositionRecord
  <2>5. SoldFromRow(s, m, toSell, i)
    BY <2>1, <2>3, <2>4 DEF SoldFromRow, p, lot
  <2> QED
    BY <2>5
<1> QED
  BY <1>2, <1>3 DEF IsLoop, m

(* The lots a withdrawal sells from are stored lots, none of them twice. *)
LEMMA LotsSoldOnce ==
    ASSUME WalletInv, NEW s \in Request, pc[s] = "commit", IsWithdraw(s)
    PROVE  LET sigma == LotsSold(mem[s])
               h == Len(mem[s].held)
           IN  /\ h \in Nat /\ Len(sigma) = h /\ DOMAIN sigma = 1..h
               /\ \A i \in 1..h : sigma[i] = mem[s].held[i].positionID
               /\ Range(sigma) \subseteq DOMAIN positions
               /\ \A i, j \in 1..h : i # j => sigma[i] # sigma[j]
               /\ sigma \in SetToSeqs(Range(sigma))
<1> DEFINE sigma == LotsSold(mem[s])
           h == Len(mem[s].held)
           S == Range(sigma)
<1>1. mem[s] \in Memory /\ Selling(s, mem[s])
  BY WritingLots
<1>2. /\ h \in Nat
      /\ \A i, j \in 1..h : i # j => mem[s].held[i].positionID # mem[s].held[j].positionID
  BY <1>1, HeldLots DEF WalletInv
<1>3. /\ DOMAIN sigma = 1..h /\ sigma = [i \in 1..h |-> sigma[i]]
      /\ \A i \in 1..h : sigma[i] = mem[s].held[i].positionID
  BY DEF LotsSold
<1>4. \A i, j \in 1..h : i # j => sigma[i] # sigma[j]
  BY <1>2, <1>3
<1>5. \A i \in 1..h : sigma[i] \in DOMAIN positions
  <2>1. PICK toSell \in [1..h + 1 -> Int] :
           \A i \in 1..h : SoldFromRow(s, mem[s], toSell, i)
    BY LoopIsCurrent
  <2> QED
    BY <1>3, <2>1 DEF SoldFromRow
<1> HIDE DEF sigma, h
<1>6. S = {sigma[i] : i \in 1..h} /\ S \subseteq DOMAIN positions
  BY <1>3, <1>5 DEF Range
<1>7. sigma \in [1..h -> S]
  BY <1>3, <1>6
<1>8. sigma \in Seq(S) /\ Len(sigma) = h
  BY <1>2, <1>3, <1>7
<1>9. Cardinality(S) = h
  <2>1. sigma \in Bijection(1..h, S)
    <3>1. sigma \in Injection(1..h, S)
      BY <1>4, <1>7 DEF Injection, IsInjective
    <3>2. sigma \in Surjection(1..h, S)
      BY <1>6, <1>7 DEF Surjection
    <3> QED
      BY <3>1, <3>2 DEF Bijection
  <2>2. IsFiniteSet(1..h) /\ Cardinality(1..h) = h
    BY <1>2, FS_Interval
  <2> HIDE DEF S
  <2> QED
    BY <2>1, <2>2, FS_Bijection DEF ExistsBijection
<1> HIDE DEF S
<1>10. sigma \in SetToSeqs(S)
  BY <1>4, <1>7, <1>9 DEF SetToSeqs
<1> QED
  BY <1>2, <1>3, <1>4, <1>6, <1>8, <1>10 DEF sigma, h, S

(* The labels at which a withdrawal has lots in memory. *)
Reading == {"sell", "update", "createCommand", "commit"}

(* What a withdrawal has seen is what it holds and what is still in its    *)
(* queue.                                                                  *)
LEMMA SeenLots ==
    ASSUME NEW r, IsWithdraw(r), pc[r] \in Reading, mem[r] \in Memory
    PROVE  LET m == mem[r] IN
           /\ \A i \in 1..Len(m.held) : m.held[i].positionID \in LotsSeen(r)
           /\ \A i \in 1..Len(m.eligible) : m.eligible[i].positionID \in LotsSeen(r)
           /\ \A l \in LotsSeen(r) :
                 \/ \E i \in 1..Len(m.held) : m.held[i].positionID = l
                 \/ \E i \in 1..Len(m.eligible) : m.eligible[i].positionID = l
<1> DEFINE held == mem[r].held
           eligible == mem[r].eligible
<1>1. LotsSeen(r) = {p.positionID : p \in Range(held) \cup Range(eligible)}
  BY DEF LotsSeen, Reading
<1>2. held \in Seq(Position) /\ eligible \in Seq(Position)
  BY MemoryType
<1> HIDE DEF held, eligible
<1>3. /\ Range(held) = {held[i] : i \in 1..Len(held)}
      /\ Range(eligible) = {eligible[i] : i \in 1..Len(eligible)}
  BY <1>2 DEF Range
<1> QED
  BY <1>1, <1>3 DEF held, eligible

(* They are sold oldest first, and no lot it saw is older than one sold,   *)
(* but left.                                                               *)
LEMMA OldestSold ==
    ASSUME WalletInv, NEW s \in Request, pc[s] = "commit", IsWithdraw(s)
    PROVE  LET sigma == LotsSold(mem[s])
               h == Len(mem[s].held)
           IN  /\ \A i, j \in 1..h : i < j =>
                     positions[sigma[i]].purchasedAt <= positions[sigma[j]].purchasedAt
               /\ \A l \in LotsSeen(s) \ Range(sigma) : \A i \in 1..h :
                     positions[sigma[i]].purchasedAt <= positions[l].purchasedAt
<1> DEFINE m == mem[s]
           sigma == LotsSold(m)
           h == Len(m.held)
           e == Len(m.eligible)
<1>1. m \in Memory /\ Selling(s, m)
  BY WritingLots
<1>2. h \in Nat /\ e \in Nat
  BY <1>1, MemoryType, LenProperties
<1>3. InOrder(m) /\ \A i \in 1..e : ReadBy(s, m.eligible[i])
  BY <1>1 DEF Selling
<1>4. \A i \in 1..h : sigma[i] = m.held[i].positionID /\ sigma[i] \in Range(sigma)
  BY LotsSoldOnce DEF Range
<1>5. \A i \in 1..h : positions[sigma[i]].purchasedAt = m.held[i].purchasedAt
  <2>1. PICK toSell \in [1..h + 1 -> Int] :
           \A i \in 1..h : SoldFromRow(s, m, toSell, i)
    BY LoopIsCurrent
  <2> SUFFICES ASSUME NEW i \in 1..h
               PROVE  positions[sigma[i]].purchasedAt = m.held[i].purchasedAt
    OBVIOUS
  <2> DEFINE lot == positions[sigma[i]]
  <2>2. /\ lot \in Position
        /\ m.held[i] = UpdateAmount(lot, lot.amount - UnitsSold(lot, toSell[i]))
    BY <1>4, <2>1 DEF SoldFromRow
  <2> HIDE DEF lot, m
  <2>3. m.held[i].purchasedAt = lot.purchasedAt
    BY <2>2 DEF UpdateAmount, Position, PositionRecord
  <2> QED
    BY <2>3 DEF lot
<1>6. /\ QueueLen(m) = h + e
      /\ \A i : i <= h => QueueAt(m, i) = m.held[i]
      /\ \A i : ~ (i <= h) => QueueAt(m, i) = m.eligible[i - h]
  BY DEF QueueLen, QueueAt
<1> HIDE DEF m, sigma, h, e
<1>7. \A i \in 1..h : i \in 1..h + e /\ i <= h
  BY <1>2
<1>8. ASSUME NEW i \in 1..h, NEW j \in 1..h, i < j
      PROVE  positions[sigma[i]].purchasedAt <= positions[sigma[j]].purchasedAt
  <2>1. m.held[i].purchasedAt <= m.held[j].purchasedAt
    BY <1>3, <1>6, <1>7, <1>8 DEF InOrder
  <2> QED
    BY <1>5, <2>1
<1>9. ASSUME NEW l \in LotsSeen(s) \ Range(sigma), NEW i \in 1..h
      PROVE  positions[sigma[i]].purchasedAt <= positions[l].purchasedAt
  <2>1. PICK k \in 1..e : m.eligible[k].positionID = l
    <3>1. \/ \E k \in 1..h : m.held[k].positionID = l
          \/ \E k \in 1..e : m.eligible[k].positionID = l
      BY <1>1, SeenLots DEF Reading, m, h, e
    <3> QED
      BY <1>4, <1>9, <3>1
  <2> DEFINE j == h + k
  <2>2. j \in 1..h + e /\ ~ (j <= h)
    BY <1>2
  <2>3. j - h \in 1..e /\ j - h = k /\ i < j
    BY <1>2
  <2> HIDE DEF j
  <2> DEFINE lot == m.eligible[j - h]
  <2>4. lot.positionID = l /\ QueueAt(m, j) = lot
    BY <1>6, <2>1, <2>2, <2>3
  <2>5. lot.purchasedAt = positions[l].purchasedAt
    <3>1. ReadBy(s, lot)
      BY <1>3, <2>3
    <3> QED
      BY <2>4, <3>1 DEF ReadBy, SameLot
  <2>6. m.held[i].purchasedAt <= lot.purchasedAt
    BY <1>3, <1>6, <1>7, <2>2, <2>3, <2>4 DEF InOrder
  <2> QED
    BY <1>5, <2>5, <2>6
<1> QED
  BY <1>8, <1>9 DEF m, sigma, h

(* The COMMIT of a withdrawal stores what it holds and changes no other    *)
(* lot.                                                                    *)
LEMMA CommitStoresHeld ==
    ASSUME WalletInv, NEW s \in Request, pc[s] = "commit", IsWithdraw(s), CommitTx(s)
    PROVE  LET sigma == LotsSold(mem[s])
           IN  positions' = [l \in DOMAIN positions |->
                  IF l \in Range(sigma)
                  THEN mem[s].held[CHOOSE i \in 1..Len(sigma) : sigma[i] = l]
                  ELSE positions[l]]
<1> DEFINE m == mem[s]
           sigma == LotsSold(m)
           h == Len(m.held)
           rows == pendingRows[s]
<1>1. /\ Written(m, rows) /\ m.written = h
  <2>1. LotsAt(s, "commit", m, rows, DOMAIN pendingCommands[s])
    BY DEF WalletInv, LotInv, InvocationLots
  <2> QED
    BY <2>1 DEF LotsAt
<1>2. /\ Len(sigma) = h /\ DOMAIN sigma = 1..h
      /\ \A i \in 1..h : sigma[i] = m.held[i].positionID
      /\ Range(sigma) \subseteq DOMAIN positions
      /\ \A i, j \in 1..h : i # j => sigma[i] # sigma[j]
  BY LotsSoldOnce
<1>3. positions' = PutAll(positions, rows)
  BY DEF CommitTx
<1> HIDE DEF m, sigma, h, rows
<1>4. /\ DOMAIN rows = Range(sigma)
      /\ \A i \in 1..h : rows[sigma[i]] = m.held[i]
  <2>1. Range(sigma) = {sigma[i] : i \in 1..h}
    BY <1>2 DEF Range
  <2>2. DOMAIN rows = {m.held[i].positionID : i \in 1..h}
    BY <1>1 DEF Written
  <2>3. \A i \in 1..h : rows[sigma[i]] = m.held[i]
    BY <1>1, <1>2 DEF Written
  <2> QED
    BY <1>2, <2>1, <2>2, <2>3
<1>5. \A l \in Range(sigma) : rows[l] = m.held[CHOOSE i \in 1..h : sigma[i] = l]
  <2> SUFFICES ASSUME NEW l \in Range(sigma)
               PROVE  rows[l] = m.held[CHOOSE i \in 1..h : sigma[i] = l]
    OBVIOUS
  <2> DEFINE c == CHOOSE i \in 1..h : sigma[i] = l
  <2>1. \E i \in 1..h : sigma[i] = l
    BY <1>2 DEF Range
  <2>2. c \in 1..h /\ sigma[c] = l
    BY <2>1
  <2> QED
    BY <1>4, <2>2
<1>6. DOMAIN positions \cup DOMAIN rows = DOMAIN positions
  BY <1>2, <1>4
<1>7. positions' = [l \in DOMAIN positions |->
                      IF l \in Range(sigma)
                      THEN m.held[CHOOSE i \in 1..h : sigma[i] = l] ELSE positions[l]]
  BY <1>3, <1>4, <1>5, <1>6 DEF PutAll
<1> QED
  BY <1>2, <1>7 DEF m, sigma

(* The ledger's loop over those lots, run at the moment of the COMMIT,     *)
(* debits them as the withdrawal did.                                      *)
LEMMA DebitedIsHeld ==
    ASSUME WalletInv, NEW s \in Request, pc[s] = "commit", IsWithdraw(s)
    PROVE  LET sigma == LotsSold(mem[s])
           IN  /\ \A i \in 1..Len(sigma) : AbstractLedger!ToSell(req[s], sigma)[i] > 0
               /\ AbstractLedger!ToSell(req[s], sigma)[Len(sigma) + 1] = mem[s].remaining
               /\ AbstractLedger!Debited(req[s], sigma) = mem[s].held
<1> DEFINE q == req[s]
           m == mem[s]
           sigma == LotsSold(m)
           h == Len(m.held)
<1>1. /\ h \in Nat /\ Len(sigma) = h
      /\ \A i \in 1..h : sigma[i] = m.held[i].positionID
  BY LotsSoldOnce
<1>2. PICK toSell \in [1..h + 1 -> Int] :
         /\ toSell[1] = q.desiredValue /\ toSell[h + 1] = m.remaining
         /\ \A i \in 1..h : SoldFromRow(s, m, toSell, i)
  BY LoopIsCurrent
<1>3. m.held = [i \in 1..h |-> m.held[i]]
  <2>1. m.held \in Seq(Position)
    BY WritingLots, MemoryType
  <2> QED
    BY <2>1
<1> HIDE DEF q, m, sigma, h
<1>4. \A i \in 1..h :
         LET lot == positions[sigma[i]]
         IN  /\ toSell[i] > 0
             /\ m.held[i] = UpdateAmount(lot, lot.amount - UnitsSold(lot, toSell[i]))
             /\ toSell[i + 1] = toSell[i] - UnitsSold(lot, toSell[i]) * lot.unitPrice
  BY <1>1, <1>2 DEF SoldFromRow
<1>5. IsToSell(q, sigma, toSell)
  <2> DEFINE round(i) == toSell[i - 1] - UnitsSold(positions[sigma[i - 1]], toSell[i - 1])
                                             * positions[sigma[i - 1]].unitPrice
  <2>1. ASSUME NEW i \in 1..h + 1, i # 1
        PROVE  toSell[i] = round(i)
    <3>1. i - 1 \in 1..h /\ (i - 1) + 1 = i
      BY <1>1, <2>1
    <3> QED
      BY <1>4, <3>1
  <2> HIDE DEF round
  <2>2. toSell = [i \in 1..h + 1 |-> IF i = 1 THEN q.desiredValue ELSE round(i)]
    BY <1>2, <2>1
  <2> QED
    BY <1>1, <2>2 DEF IsToSell, round
<1>6. AbstractLedger!ToSell(q, sigma) = toSell
  BY <1>1, <1>5, ToSellIs
<1>7. AbstractLedger!Debited(q, sigma) = m.held
  <2>1. AbstractLedger!Debited(q, sigma)
          = [i \in 1..h |->
               UpdateAmount(positions[sigma[i]],
                 positions[sigma[i]].amount
                   - UnitsSold(positions[sigma[i]], toSell[i]))]
    BY <1>1, <1>6, LedgerOperators DEF AbstractLedger!Debited
  <2> QED
    BY <1>3, <1>4, <2>1
<1> QED
  BY <1>1, <1>2, <1>4, <1>6, <1>7 DEF q, m, sigma

(* It sold from some lot, and stopped because nothing is left to sell or   *)
(* because no lot is left that it saw.                                     *)
LEMMA LoopIsOver ==
    ASSUME WalletInv, NEW s \in Request, pc[s] = "commit", IsWithdraw(s)
    PROVE  LET sigma == LotsSold(mem[s])
           IN  /\ sigma # <<>>
               /\ Range(sigma) \subseteq LotsSeen(s)
               /\ mem[s].remaining <= 0 \/ LotsSeen(s) \subseteq Range(sigma)
<1> DEFINE m == mem[s]
           h == Len(m.held)
           sigma == LotsSold(m)
<1>1. /\ Selling(s, m) /\ h > 0 /\ LoopEnds(m.eligible, m.remaining)
  <2>1. LotsAt(s, "commit", m, pendingRows[s], DOMAIN pendingCommands[s])
    BY DEF WalletInv, LotInv, InvocationLots
  <2> QED
    BY <2>1 DEF LotsAt
<1>2. /\ h \in Nat /\ Len(sigma) = h /\ DOMAIN sigma = 1..h
      /\ \A i \in 1..h : sigma[i] = m.held[i].positionID
  BY LotsSoldOnce
<1> HIDE DEF sigma, h, m
<1>3. sigma # <<>>
  BY <1>1, <1>2
<1>4. /\ \A i \in 1..h : m.held[i].positionID \in LotsSeen(s)
      /\ \A l \in LotsSeen(s) :
            \/ \E i \in 1..h : m.held[i].positionID = l
            \/ \E i \in 1..Len(m.eligible) : m.eligible[i].positionID = l
  BY WritingLots, SeenLots DEF Reading, m, h
<1>5. \A l : l \in Range(sigma) <=> \E i \in 1..h : m.held[i].positionID = l
  BY <1>2 DEF Range
<1>6. Range(sigma) \subseteq LotsSeen(s)
  BY <1>4, <1>5
<1>7. ASSUME m.eligible = <<>> PROVE LotsSeen(s) \subseteq Range(sigma)
  <2>1. 1..Len(m.eligible) = {}
    BY <1>7
  <2> QED
    BY <1>4, <1>5, <2>1
<1> QED
  BY <1>1, <1>3, <1>6, <1>7 DEF LoopEnds, sigma, m

(* The COMMIT of a withdrawal is the ledger's withdrawal of its request    *)
(* from the lots it holds.                                                 *)
LEMMA CommitIsWithdraw ==
    ASSUME WalletInv, NEW s \in Request, pc[s] = "commit", IsWithdraw(s), CommitTx(s),
           NEW q, q = req[s], NEW sigma, sigma = LotsSold(mem[s]),
           req' = req, Seen' = [Seen EXCEPT ![s] = {}]
    PROVE  AbstractLedger!Withdraw(s, sigma) /\ Range(sigma) \subseteq Seen[s]
<1> DEFINE m == mem[s]
           key == <<q.type, q.order>>
<1>1. q.type = "WITHDRAW"
  BY DEF IsWithdraw
<1>2. Len(sigma) = Len(m.held) /\ \A i \in 1..Len(m.held) : sigma[i] = m.held[i].positionID
  BY LotsSoldOnce
<1>3. \A i \in 1..Len(sigma) :
         /\ AbstractLedger!CanSell(q, sigma[i])
         /\ AbstractLedger!ToSell(q, sigma)[i] > 0
  <2>1. PICK toSell \in [1..Len(m.held) + 1 -> Int] :
           \A i \in 1..Len(m.held) : SoldFromRow(s, m, toSell, i)
    BY LoopIsCurrent
  <2>2. ASSUME NEW i \in 1..Len(sigma)
        PROVE  AbstractLedger!CanSell(q, sigma[i])
    <3>1. ReadBy(s, positions[sigma[i]])
      BY <1>2, <2>1 DEF SoldFromRow
    <3> QED
      BY <3>1, LedgerOperators DEF AbstractLedger!CanSell, ReadBy
  <2>3. \A i \in 1..Len(sigma) : AbstractLedger!ToSell(q, sigma)[i] > 0
    BY DebitedIsHeld
  <2> QED
    BY <2>2, <2>3
<1>4. \A i, j \in 1..Len(sigma) : i < j =>
         positions[sigma[i]].purchasedAt <= positions[sigma[j]].purchasedAt
  BY <1>2, OldestSold
<1>5. \A l \in LotsSeen(s) \ Range(sigma) : \A i \in 1..Len(sigma) :
         positions[sigma[i]].purchasedAt <= positions[l].purchasedAt
  BY <1>2, OldestSold
<1>6. AbstractLedger!Debited(q, sigma) = m.held
  BY DebitedIsHeld
<1>7. positions' = [l \in DOMAIN positions |->
                      IF l \in Range(sigma)
                      THEN m.held[CHOOSE i \in 1..Len(sigma) : sigma[i] = l]
                      ELSE positions[l]]
  BY ZenonT(60), CommitStoresHeld
<1>8. /\ key \notin DOMAIN Snapshots
      /\ Snapshots' = Put(Snapshots, key, ToResponse(m.held))
  BY CommitIsRecord
<1> HIDE DEF m
<1>over. /\ sigma # <<>> /\ Range(sigma) \subseteq LotsSeen(s)
         /\ \/ AbstractLedger!ToSell(q, sigma)[Len(sigma) + 1] <= 0
            \/ LotsSeen(s) \subseteq Range(sigma)
  BY LoopIsOver, DebitedIsHeld
<1>9. /\ AbstractLedger!Range(sigma) = Range(sigma)
      /\ AbstractLedger!ToResponse(m.held) = ToResponse(m.held)
      /\ Snapshots' = AbstractLedger!Put(Snapshots, key, ToResponse(m.held))
  BY <1>8, LedgerOperators, LedgerSequences
<1>10. AbstractLedger!Record(req[s],
         AbstractLedger!ToResponse(AbstractLedger!Debited(req[s], sigma)))
  BY <1>6, <1>8, <1>9 DEF AbstractLedger!Record, Snapshots
<1>11. Seen[s] = LotsSeen(s)
  BY DEF Seen
<1>12. AbstractLedger!MayEnd(s, sigma)
  BY <1>9, <1>over, <1>11 DEF AbstractLedger!MayEnd, Seen
<1>13. AbstractLedger!Withdraw(s, sigma)
  BY <1>12, <1>over, <1>1, <1>3, <1>4, <1>5, <1>6, <1>7, <1>9, <1>10, <1>11
  DEF AbstractLedger!Withdraw, Seen
<1> QED
  BY <1>over, <1>11, <1>13

-----------------------------------------------------------------------------
(* Steps that commit nothing. *)

(* What becomes of the lots r has seen, when only r moves. *)
LEMMA SeenMoves ==
    ASSUME NEW r \in Request, OnlyMoves(r), req' = req, NEW S, LotsSeen(r)' = S
    PROVE  Seen' = [Seen EXCEPT ![r] = S]
<1>1. ASSUME NEW s \in Request \ {r} PROVE LotsSeen(s)' = LotsSeen(s)
  BY DEF OnlyMoves, LotsSeen, IsWithdraw
<1>2. Seen' = [s \in Request |-> LotsSeen(s)']
  BY DEF Seen
<1>3. DOMAIN Seen = Request /\ \A s \in Request : Seen[s] = LotsSeen(s)
  BY DEF Seen
<1>4. Seen' = [s \in Request |-> IF s = r THEN S ELSE Seen[s]]
  BY <1>1, <1>2, <1>3
<1> QED
  BY <1>3, <1>4

(* An invocation that is not at the lots has seen none. *)
LEMMA NotReading ==
    ASSUME NEW r, pc[r] \notin Reading \/ ~ IsWithdraw(r)
    PROVE  LotsSeen(r) = {}
BY DEF LotsSeen, Reading

(* An answer, an abort, or a move to a label before the lots are read. *)
LEMMA SeenEnds ==
    ASSUME TypeInv, NEW r \in Request,
           \/ \E status, error, body : Answer(r, status, error, body)
           \/ \E error : Abort(r, error)
           \/ \E label :
                 /\ label \notin Reading /\ Goto(r, label)
                 /\ UNCHANGED mem \/ \E m : mem' = [mem EXCEPT ![r] = m]
    PROVE  OnlyMoves(r) /\ LotsSeen(r)' = {}
<1>1. OnlyMoves(r)
  BY DEF Answer, Abort, Goto, TypeInv, InvocationTypeOK, OnlyMoves
<1>2. pc'[r] \notin Reading
  BY DEF Answer, Abort, Goto, TypeInv, InvocationTypeOK, Reading
<1> QED
  BY <1>1, <1>2 DEF LotsSeen, Reading

(* The lots of a withdrawal at the moment of its SELECT. *)
LEMMA SeenAtSelect ==
    ASSUME TypeInv, LotInv, NEW r \in Request, IsWithdraw(r), req' = req,
           NEW s \in OldestFirst(Eligible(LotsOf(req[r]))),
           pc'[r] = "sell", mem'[r].held = <<>>, mem'[r].eligible = s
    PROVE  LotsSeen(r)' = {l \in DOMAIN positions : AbstractLedger!CanSell(req[r], l)}
<1> DEFINE rows == LotsOf(req[r])
           seen == {l \in DOMAIN positions : AbstractLedger!CanSell(req[r], l)}
<1>1. rows \in SUBSET Position /\ IsFiniteSet(rows)
  BY LotsOfType DEF TypeInv
<1>2. /\ s \in Seq(Position)
      /\ \A i \in 1..Len(s) : s[i] \in Eligible(rows)
      /\ \A p \in Eligible(rows) : \E i \in 1..Len(s) : s[i] = p
  BY <1>1, OldestFirstType, OldestFirstComplete DEF Eligible
<1>3. Range(s) = Eligible(rows)
  BY <1>2 DEF Range
<1>4. LotsSeen(r)' = {p.positionID : p \in Eligible(rows)}
  <2>1. LotsSeen(r)' = {p.positionID : p \in Range(mem'[r].held) \cup Range(mem'[r].eligible)}
    BY DEF LotsSeen, IsWithdraw
  <2>2. Range(<<>>) = {}
    BY DEF Range
  <2> QED
    BY <1>3, <2>1, <2>2
<1>5. \A l \in DOMAIN positions : positions[l].positionID = l
  BY DEF LotInv, RowsStored, IsStored
<1>6. \A p : p \in Eligible(rows) <=> \E l \in DOMAIN positions :
         p = positions[l] /\ AbstractLedger!CanSell(req[r], l)
  BY LedgerOperators DEF Eligible, LotsOf, AbstractLedger!CanSell
<1> HIDE DEF rows
<1>7. {p.positionID : p \in Eligible(rows)} = seen
  BY <1>5, <1>6
<1> QED
  BY <1>4, <1>7

(* Sold from or not, a lot stays in sight. *)
LEMMA SeenAtSale ==
    ASSUME TypeInv, NEW r \in Request, IsWithdraw(r), req' = req,
           pc[r] = "sell", pc'[r] \in Reading, mem[r].eligible # <<>>, NEW n,
           mem'[r].held = Append(mem[r].held, UpdateAmount(Head(mem[r].eligible), n)),
           mem'[r].eligible = Tail(mem[r].eligible)
    PROVE  LotsSeen(r)' = LotsSeen(r)
<1> DEFINE held == mem[r].held
           eligible == mem[r].eligible
           lot == Head(eligible)
           p == UpdateAmount(lot, n)
<1>1. held \in Seq(Position) /\ eligible \in Seq(Position) /\ eligible # <<>>
  BY MemoryType DEF TypeInv, InvocationTypeOK
<1>2. p.positionID = lot.positionID
  <2>1. lot \in Position
    BY <1>1
  <2> HIDE DEF lot
  <2> QED
    BY <2>1 DEF UpdateAmount, Position, PositionRecord
<1>3. /\ LotsSeen(r) = {x.positionID : x \in Range(held) \cup Range(eligible)}
      /\ LotsSeen(r)' = {x.positionID : x \in Range(mem'[r].held) \cup Range(mem'[r].eligible)}
  BY DEF LotsSeen, Reading, IsWithdraw
<1> HIDE DEF held, eligible, p
<1>4. Range(Append(held, p)) = Range(held) \cup {p}
  <2> DEFINE h == Len(held)
             longer == Append(held, p)
  <2>1. held \in Seq(Position \cup {p})
    BY <1>1
  <2>2. /\ h \in Nat /\ DOMAIN held = 1..h /\ DOMAIN longer = 1..h + 1
        /\ longer[h + 1] = p
        /\ \A i \in 1..h : longer[i] = held[i]
    BY <1>1, <2>1, AppendProperties
  <2> HIDE DEF longer, h
  <2>3. \A i \in 1..h : i \in 1..h + 1
    BY <2>2
  <2>4. \A i \in 1..h + 1 : i \in 1..h \/ i = h + 1
    BY <2>2
  <2>5. h + 1 \in 1..h + 1
    BY <2>2
  <2>6. Range(longer) = Range(held) \cup {p}
    BY <2>2, <2>3, <2>4, <2>5 DEF Range
  <2> QED
    BY <2>6 DEF longer
<1>5. Range(eligible) = Range(Tail(eligible)) \cup {lot}
  <2> DEFINE e == Len(eligible)
             rest == Tail(eligible)
  <2>1. /\ e \in Nat /\ e > 0 /\ DOMAIN eligible = 1..e
        /\ DOMAIN rest = 1..e - 1
        /\ \A i \in 1..e - 1 : rest[i] = eligible[i + 1]
        /\ eligible[1] = lot
    BY <1>1
  <2> HIDE DEF lot, e, rest
  <2>2. \A i \in 1..e : i = 1 \/ (i - 1 \in 1..e - 1 /\ (i - 1) + 1 = i)
    BY <2>1
  <2>3. (\A i \in 1..e - 1 : i + 1 \in 1..e) /\ 1 \in 1..e
    BY <2>1
  <2>4. \A i \in 1..e : eligible[i] = lot \/ \E j \in 1..e - 1 : eligible[i] = rest[j]
    BY <2>1, <2>2
  <2>5. \A j \in 1..e - 1 : \E i \in 1..e : rest[j] = eligible[i]
    BY <2>1, <2>3
  <2>6. /\ Range(eligible) = {eligible[i] : i \in 1..e}
        /\ Range(rest) = {rest[i] : i \in 1..e - 1}
    BY <2>1 DEF Range
  <2>7. Range(eligible) \subseteq Range(rest) \cup {lot}
    BY <2>4, <2>6
  <2>8. Range(rest) \cup {lot} \subseteq Range(eligible)
    BY <2>1, <2>3, <2>5, <2>6
  <2> QED
    BY <2>7, <2>8 DEF rest
<1>6. mem'[r].held = Append(held, p) /\ mem'[r].eligible = Tail(eligible)
  BY DEF held, eligible, p
<1> HIDE DEF lot
<1> QED
  BY <1>2, <1>3, <1>4, <1>5, <1>6

(* The tables stay, and r sees what it saw, nothing any more, or, at its   *)
(* SELECT, all it can sell from.                                           *)
Looks(r) ==
    /\ IsWithdraw(r) /\ LotsSeen(r) = {}
    /\ LotsSeen(r)' = {l \in DOMAIN positions : AbstractLedger!CanSell(req[r], l)}

OnlySees(r) ==
    /\ TablesKept /\ OnlyMoves(r)
    /\ LotsSeen(r)' = LotsSeen(r) \/ LotsSeen(r)' = {} \/ Looks(r)

(* r commits, and is done with its lots. *)
Commits(r) ==
    /\ pc[r] = "commit" /\ CommitTx(r) /\ req' = req
    /\ OnlyMoves(r) /\ LotsSeen(r)' = {}

(* The steps of an invocation that has seen nothing before and after. *)
LEMMA SeesNothing ==
    ASSUME TypeInv, NEW r \in Request,
           \/ ReceiveRequest(r) \/ FindByTypeAndOrderID(r) \/ FindAssetByID(r)
           \/ FindClientByID(r, "findAsset") \/ FindClientByID(r, "begin")
           \/ Begin(r, "createPosition") \/ Begin(r, "findLots")
           \/ ReplayAfterRace(r) \/ \E status : Rollback(r, status)
    PROVE  OnlySees(r)
<1>1. TablesKept
  BY DEF ReceiveRequest, DepositReceive, WithdrawReceive, Receive,
         FindByTypeAndOrderID, FindAssetByID, FindClientByID, Begin, BeginTx,
         ReplayAfterRace, Rollback, RollbackTx, TablesKept, db
<1>2. \/ \E status, error, body : Answer(r, status, error, body)
      \/ \E label \in {"findCommand", "findClient", "findAsset", "begin",
                       "createPosition", "findLots", "replay"} :
            Goto(r, label) /\ (UNCHANGED mem \/ \E m : mem' = [mem EXCEPT ![r] = m])
  BY DEF ReceiveRequest, DepositReceive, WithdrawReceive, Receive,
         FindByTypeAndOrderID, FindAssetByID, FindClientByID, Begin,
         ReplayAfterRace, Rollback
<1>3. OnlyMoves(r) /\ LotsSeen(r)' = {}
  BY <1>2, SeenEnds DEF Reading
<1> QED
  BY <1>1, <1>3 DEF OnlySees

(* The statements that write, and the loop. *)
LEMMA SeesLots ==
    ASSUME WalletInv, NEW r \in Request,
           \/ IsDeposit(r) /\ (CreatePosition(r) \/ CreateProcessedCommand(r))
           \/ /\ IsWithdraw(r)
              /\ \/ FindByClientAndInstrument(r) \/ SellFromLot(r)
                 \/ UpdatePosition(r) \/ CreateProcessedCommand(r)
    PROVE  OnlySees(r)
<1>1. TypeInv /\ LotInv /\ (IsDeposit(r) <=> ~ IsWithdraw(r))
  BY OneUseCase DEF WalletInv, TypeInv
<1>2. TablesKept
  BY DEF CreatePosition, FindByClientAndInstrument, SellFromLot, UpdatePosition,
         CreateProcessedCommand, FailTx, WriteRow, WriteCommand, TablesKept, db
<1>3. CASE \E error : Abort(r, error)
  BY <1>1, <1>2, <1>3, SeenEnds DEF OnlySees
<1>4. CASE IsDeposit(r) /\ ~ \E error : Abort(r, error)
  <2>1. (\E label : Goto(r, label)) /\ UNCHANGED mem
    BY <1>1, <1>4 DEF CreatePosition, CreateProcessedCommand
  <2>2. OnlyMoves(r)
    BY <1>1, <2>1 DEF Goto, TypeInv, InvocationTypeOK, OnlyMoves
  <2>3. LotsSeen(r)' = {}
    BY <1>1, <1>2, <1>4 DEF LotsSeen, IsWithdraw, TablesKept
  <2> QED
    BY <1>2, <2>2, <2>3 DEF OnlySees
<1>5. CASE FindByClientAndInstrument(r) /\ ~ \E error : Abort(r, error)
  <2>1. PICK s \in OldestFirst(Eligible(LotsOf(req[r]))) :
           /\ mem' = [mem EXCEPT ![r] =
                        [held |-> <<>>, eligible |-> s, remaining |-> req[r].desiredValue,
                         sold |-> <<>>, written |-> 0]]
           /\ Goto(r, "sell") /\ pc[r] = "findLots"
    BY <1>5 DEF FindByClientAndInstrument
  <2>2. /\ pc'[r] = "sell" /\ mem'[r].held = <<>> /\ mem'[r].eligible = s
        /\ OnlyMoves(r)
    BY <1>1, <2>1 DEF Goto, TypeInv, InvocationTypeOK, OnlyMoves
  <2>3. IsWithdraw(r) /\ req' = req
    BY <1>1, <1>2, <1>5 DEF CreatePosition, CreateProcessedCommand,
                            FindByClientAndInstrument, TablesKept
  <2>4. LotsSeen(r) = {}
    BY <2>1, NotReading DEF Reading
  <2>5. LotsSeen(r)' = {l \in DOMAIN positions : AbstractLedger!CanSell(req[r], l)}
    BY <1>1, <2>2, <2>3, SeenAtSelect
  <2> QED
    BY <1>2, <2>2, <2>3, <2>4, <2>5 DEF OnlySees, Looks
<1>6. CASE IsWithdraw(r) /\ SellFromLot(r) /\ ~ \E error : Abort(r, error)
  <2> DEFINE m == mem[r]
             lot == Head(m.eligible)
             newAmount == lot.amount - UnitsSold(lot, m.remaining)
             next == IF LoopEnds(Tail(m.eligible), m.remaining
                                   - UnitsSold(lot, m.remaining) * lot.unitPrice)
                     THEN "update" ELSE "sell"
  <2>1. /\ pc[r] = "sell" /\ m.eligible # <<>>
        /\ \E x, y : mem' = [mem EXCEPT ![r] =
              [held |-> Append(m.held, UpdateAmount(lot, newAmount)),
               eligible |-> Tail(m.eligible), remaining |-> x, sold |-> y, written |-> 0]]
        /\ Goto(r, next)
    BY <1>6 DEF SellFromLot, LoopEnds
  <2> DEFINE n == newAmount
  <2>2. next \in Reading
    BY DEF Reading
  <2> HIDE DEF next, lot, newAmount
  <2>3. /\ pc'[r] \in Reading /\ OnlyMoves(r)
        /\ mem'[r].held = Append(m.held, UpdateAmount(lot, n))
        /\ mem'[r].eligible = Tail(m.eligible)
    BY <1>1, <2>1, <2>2 DEF Goto, TypeInv, InvocationTypeOK, OnlyMoves
  <2>4. LotsSeen(r)' = LotsSeen(r)
    <3>1. PICK k : k = n
      OBVIOUS
    <3>2. req' = req
      BY <1>2 DEF TablesKept
    <3> QED
      BY <1>1, <1>6, <2>1, <2>3, <3>1, <3>2, SeenAtSale DEF lot
  <2> QED
    BY <1>2, <2>3, <2>4 DEF OnlySees
<1>7. CASE /\ IsWithdraw(r) /\ (UpdatePosition(r) \/ CreateProcessedCommand(r))
           /\ ~ \E error : Abort(r, error)
  <2>1. /\ pc[r] \in {"update", "createCommand"}
        /\ \E label \in {"update", "createCommand", "commit"} : Goto(r, label)
        /\ mem' = [mem EXCEPT ![r].written = @ + 1] \/ UNCHANGED mem
    BY <1>7 DEF UpdatePosition, CreateProcessedCommand
  <2>2. mem[r] \in Memory
    BY <1>1 DEF TypeInv, InvocationTypeOK
  <2>3. /\ pc'[r] \in Reading /\ pc[r] \in Reading /\ OnlyMoves(r)
        /\ mem'[r].held = mem[r].held /\ mem'[r].eligible = mem[r].eligible
    BY <1>1, <2>1, <2>2 DEF Goto, TypeInv, InvocationTypeOK, OnlyMoves, Reading, Memory
  <2>4. LotsSeen(r)' = LotsSeen(r)
    BY <1>2, <1>7, <2>3 DEF LotsSeen, Reading, IsWithdraw, TablesKept
  <2> QED
    BY <1>2, <2>3, <2>4 DEF OnlySees
<1> QED
  BY <1>1, <1>3, <1>4, <1>5, <1>6, <1>7

(* Commits, failures and deadlocks. *)
LEMMA SeesTheEnd ==
    ASSUME WalletInv, NEW r \in Request,
           \/ \E status : Commit(r, status)
           \/ StatementFails(r) \/ CommitFails(r) \/ Crash(r) \/ DeadlockVictim(r)
    PROVE  Commits(r) \/ OnlySees(r)
<1>1. TypeInv
  BY DEF WalletInv
<1>2. req' = req /\ (TablesKept \/ (pc[r] = "commit" /\ CommitTx(r)))
  BY DEF Commit, StatementFails, CommitFails, Crash, DeadlockVictim, FailTx,
         TablesKept, db
<1>3. OnlyMoves(r) /\ LotsSeen(r)' = {}
  <2>1. CASE Crash(r)
    <3>1. pc'[r] = "crashed" /\ OnlyMoves(r)
      BY <1>1, <2>1 DEF Crash, TypeInv, InvocationTypeOK, OnlyMoves
    <3> QED
      BY <3>1 DEF LotsSeen
  <2>2. CASE ~ Crash(r)
    BY <1>1, <2>2, SeenEnds DEF Commit, StatementFails, CommitFails, DeadlockVictim
  <2> QED
    BY <2>1, <2>2
<1> QED
  BY <1>2, <1>3 DEF Commits, OnlySees

(* Every step of an invocation. *)
LEMMA SeesOrCommits ==
    ASSUME WalletInv, NEW r \in Request,
           \/ ReceiveRequest(r) \/ Step(r) \/ StatementFails(r) \/ CommitFails(r)
           \/ Crash(r) \/ DeadlockVictim(r)
    PROVE  Commits(r) \/ OnlySees(r)
<1>1. TypeInv
  BY DEF WalletInv
<1>2. CASE IsDeposit(r) /\ DepositStep(r)
  BY <1>1, <1>2, SeesNothing, SeesLots, SeesTheEnd DEF DepositStep
<1>3. CASE IsWithdraw(r) /\ WithdrawStep(r)
  BY <1>1, <1>3, SeesNothing, SeesLots, SeesTheEnd DEF WithdrawStep
<1> QED
  BY <1>1, <1>2, <1>3, SeesNothing, SeesTheEnd DEF Step

(* A step that commits nothing is a look, the end of one, or nothing. *)
LEMMA OnlySeesIsLook ==
    ASSUME NEW r \in Request, OnlySees(r)
    PROVE  [AbstractLedger!Next]_(AbstractLedger!ledger)
<1>1. /\ positions' = positions /\ commands' = commands /\ req' = req
      /\ Snapshots' = Snapshots /\ OnlyMoves(r)
  BY DEF OnlySees, TablesKept, Snapshots
<1>2. PICK S : S = LotsSeen(r)'
  OBVIOUS
<1>3. Seen' = [Seen EXCEPT ![r] = S] /\ Seen[r] = LotsSeen(r) /\ DOMAIN Seen = Request
  BY <1>1, <1>2, SeenMoves DEF Seen
<1>4. CASE S = LotsSeen(r)
  <2>1. Seen' = Seen
    BY <1>3, <1>4 DEF Seen
  <2> QED
    BY <1>1, <2>1 DEF AbstractLedger!ledger, Seen, Snapshots
<1>5. CASE S = {}
  <2>1. AbstractLedger!GiveUp(r)
    BY <1>1, <1>3, <1>5 DEF AbstractLedger!GiveUp, Seen, Snapshots
  <2> QED
    BY <2>1 DEF AbstractLedger!Next
<1>6. CASE Looks(r)
  <2>1. S = {l \in DOMAIN positions : AbstractLedger!CanSell(req[r], l)}
        /\ req[r].type = "WITHDRAW" /\ Seen[r] = {}
    BY <1>2, <1>3, <1>6 DEF Looks, IsWithdraw
  <2>2. AbstractLedger!Look(r)
    BY <1>1, <1>3, <2>1 DEF AbstractLedger!Look, Seen, Snapshots
  <2> QED
    BY <2>2 DEF AbstractLedger!Next
<1> QED
  BY <1>2, <1>4, <1>5, <1>6 DEF OnlySees

(* A COMMIT is a deposit or a withdrawal. *)
LEMMA CommitIsOrder ==
    ASSUME WalletInv, NEW s \in Request, Commits(s)
    PROVE  AbstractLedger!Next
<1>1. /\ pc[s] = "commit" /\ CommitTx(s) /\ req' = req
      /\ Seen' = [Seen EXCEPT ![s] = {}]
  BY SeenMoves DEF Commits
<1>2. PICK q : q = req[s]
  OBVIOUS
<1>3. CASE IsDeposit(s)
  <2>1. LotsSeen(s) = {}
    BY <1>3, NotReading, OneUseCase DEF WalletInv, TypeInv
  <2>2. Seen' = Seen
    BY <1>1, <2>1 DEF Seen
  <2>3. PICK now \in Times : AbstractLedger!Deposit(s, now)
    BY <1>1, <1>2, <1>3, <2>2, CommitIsDeposit
  <2> QED
    BY <2>3 DEF AbstractLedger!Next
<1>4. CASE IsWithdraw(s)
  <2>1. PICK sigma : sigma = LotsSold(mem[s])
    OBVIOUS
  <2>2. AbstractLedger!Withdraw(s, sigma) /\ Range(sigma) \subseteq Seen[s]
    BY <1>1, <1>2, <1>4, <2>1, CommitIsWithdraw
  <2>3. sigma \in AbstractLedger!SetToSeqs(Range(sigma))
    BY <1>1, <1>4, <2>1, LotsSoldOnce, LedgerSequences
  <2>4. Range(sigma) \in SUBSET [r \in Request |-> LotsSeen(r)][s]
    BY <2>2 DEF Seen
  <2> QED
    BY <2>2, <2>3, <2>4 DEF AbstractLedger!Next
<1> QED
  BY <1>3, <1>4, OneUseCase DEF WalletInv, TypeInv

(***************************************************************************)
(* The wallet implements the ledger: seen through the committed lots and   *)
(* the recorded snapshots, a history of interleaved, failing, crashing and *)
(* retried invocations is a sequence of orders, each executed at most once *)
(* and in one step on the lots as they are then.  A withdrawal sells from  *)
(* the oldest of all the lots there were at its SELECT, deposited ones     *)
(* too, and stops only when it sold enough or has none of them left.       *)
(***************************************************************************)
THEOREM WalletImplementsLedger == Spec => RefinesLedger
<1>1. Init => AbstractLedger!Init
  <2> SUFFICES ASSUME Init PROVE AbstractLedger!Init
    OBVIOUS
  <2>1. /\ positions \in SeedTables /\ commands = EmptyTable
        /\ req \in [Request -> Inputs] /\ pc = [r \in Request |-> "idle"]
    BY DEF Init, InvocationInit
  <2>2. Snapshots = EmptyTable
    BY <2>1 DEF Snapshots, EmptyTable
  <2>3. \A r \in Request : LotsSeen(r) = {}
    BY <2>1, NotReading DEF Reading
  <2>4. Seen = [r \in Request |-> {}]
    BY <2>3 DEF Seen
  <2> QED
    BY <2>1, <2>2, <2>4, LedgerOperators DEF AbstractLedger!Init, Snapshots, Seen
<1>2. WalletInv /\ [Next]_vars => [AbstractLedger!Next]_(AbstractLedger!ledger)
  <2> SUFFICES ASSUME WalletInv, [Next]_vars
               PROVE  [AbstractLedger!Next]_(AbstractLedger!ledger)
    OBVIOUS
  <2>1. CASE UNCHANGED vars \/ \E r \in Request : Reap(r)
    <3>1. UNCHANGED <<positions, commands, req, pc, mem>>
      BY <2>1 DEF vars, Reap, RollbackTx, invocation
    <3>2. Snapshots' = Snapshots /\ Seen' = Seen
      BY <3>1 DEF Snapshots, Seen, LotsSeen, IsWithdraw
    <3> QED
      BY <3>1, <3>2 DEF AbstractLedger!ledger, Snapshots, Seen
  <2>2. ASSUME NEW r \in Request,
               \/ ReceiveRequest(r) \/ Step(r) \/ StatementFails(r) \/ CommitFails(r)
               \/ Crash(r) \/ DeadlockVictim(r)
        PROVE  [AbstractLedger!Next]_(AbstractLedger!ledger)
    BY <2>2, SeesOrCommits, OnlySeesIsLook, CommitIsOrder
  <2> QED
    BY <2>1, <2>2 DEF Next, Quiescent
<1> QED
  BY <1>1, <1>2, WalletInvariant, PTL DEF Spec, RefinesLedger, AbstractLedger!Spec
=============================================================================
