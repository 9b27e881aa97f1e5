---------------------------- MODULE ReadsProofs -----------------------------
(***************************************************************************)
(* Proofs about Reads and Paging: a client that follows the cursor is      *)
(* given no mined transaction twice, however the chain grows while it      *)
(* reads, and the two ways to the balance of an address agree.             *)
(***************************************************************************)
EXTENDS Paging, StoreProofs, FiniteSetTheorems

\* A leaf may take the solver longer than it is given by default.
USE SMTT(20), Zenon

\* A row of History: a transaction, or the bundle that spent a coin.
Spenders ==
    UNION {{Write[b].spends[o].source : o \in DOMAIN Write[b].spends} : b \in BlockHash}
HistoryRow == [id : Txid \cup Spenders, height : Height]

WalkTypeOK ==
    /\ before \in Int
    /\ pending \in Seq(Txid) /\ page \in Seq(Txid) /\ listed \in Seq(Txid)
    /\ refs \in Seq(HistoryRow)

\* What was listed is mined, no row twice, from the top of the chain down.
ListedDown ==
    /\ \A i \in DOMAIN listed : listed[i] \in DOMAIN txs
    /\ \A i, j \in DOMAIN listed : i < j =>
          listed[i] # listed[j] /\ txs[listed[i]] >= txs[listed[j]]

\* So is what is still to be read of the page; a row of a transaction has its height.
RefsDown ==
    /\ \A i \in DOMAIN refs : refs[i].id \in Txid =>
          refs[i].id \in DOMAIN txs /\ txs[refs[i].id] = refs[i].height
    /\ \A i, j \in DOMAIN refs : i < j =>
          refs[i] # refs[j] /\ refs[i].height >= refs[j].height

\* The page goes on below what was listed.
RefsBelow ==
    \A i \in DOMAIN listed, j \in DOMAIN refs :
        listed[i] # refs[j].id /\ txs[listed[i]] >= refs[j].height

\* The cursor is the last row that was listed, if there is one.
CursorAtEnd ==
    /\ walk = "none" => cursor = NULL
    /\ walk \in {"none", "start", "history", "pending", "pending_rows"} /\ cursor = NULL =>
          listed = <<>>
    /\ walk \in {"start", "cursor", "history"} /\ cursor # NULL /\ listed # <<>> =>
          cursor = listed[Len(listed)]
    /\ walk = "cursor" => cursor # NULL
    /\ walk = "history" /\ listed # <<>> => before < txs[listed[Len(listed)]]
    /\ walk = "rows" /\ page # <<>> /\ listed # <<>> =>
          page[Len(page)] = listed[Len(listed)]
    /\ walk \in {"pending", "pending_rows"} => cursor = NULL
    /\ walk \notin {"pending", "pending_rows", "rows"} => refs = <<>>
    /\ walk \notin {"pending_rows", "rows"} => page = <<>>

PagesDown == ListedDown /\ RefsDown /\ RefsBelow /\ CursorAtEnd

PagingInv == WalkTypeOK /\ PagesDown

-----------------------------------------------------------------------------
\* A row of an address's history is at the height of the transaction that it names, and
\* the row of a bundle names none.
LEMMA HistoryRowsAtHeight ==
    ASSUME Consensus, BundlesApart, LinkedRows, NEW a, NEW x \in HistoryRows(a)
    PROVE  /\ x \in HistoryRow
           /\ x.id \in Txid => x.id \in DOMAIN txs /\ txs[x.id] = x.height
<1>1. /\ DOMAIN txs \subseteq Txid /\ DOMAIN spent \subseteq DOMAIN outputs
      /\ \A o \in DOMAIN outputs : outputs[o].height \in Height
      /\ \A o \in DOMAIN spent : spent[o].height \in Height
  BY DEF LinkedRows, TypeOK
<1>2. ASSUME NEW o \in DOMAIN outputs, o.kind = 0,
             x = [id |-> o.source, height |-> outputs[o].height]
      PROVE  /\ x \in HistoryRow
             /\ x.id \in Txid => x.id \in DOMAIN txs /\ txs[x.id] = x.height
  BY <1>1, <1>2, CoinsAtTheirTx DEF HistoryRow
<1>3. ASSUME NEW o \in DOMAIN spent,
             x = [id |-> spent[o].source, height |-> spent[o].height]
      PROVE  /\ x \in HistoryRow
             /\ x.id \in Txid => x.id \in DOMAIN txs /\ txs[x.id] = x.height
  <2>1. PICK h \in DOMAIN blocks : IsSpendAt(o, h)
    BY <1>3 DEF LinkedRows, Rows, SpentSound
  <2>2. /\ blocks[h] \in BlockHash /\ o \in DOMAIN Write[blocks[h]].spends
        /\ spent[o].source = Write[blocks[h]].spends[o].source
        /\ spent[o].kind = Write[blocks[h]].spends[o].kind
    BY <2>1 DEF LinkedRows, TypeOK, IsSpendAt, Held
  <2>3. spent[o].source \in Spenders
    BY <2>2 DEF Spenders
  <2>4. x \in HistoryRow
    BY <1>1, <1>3, <2>3 DEF HistoryRow
  <2>5. CASE spent[o].kind = 0
    BY <1>3, <2>4, <2>5, CoinsAtTheirTx
  <2>6. CASE spent[o].kind # 0
    BY <1>3, <2>2, <2>4, <2>6 DEF BundlesApart
  <2> QED BY <2>5, <2>6
<1> QED BY <1>1, <1>2, <1>3 DEF HistoryRows, Mine, SpentOf

\* An address has finitely many coins, and its history as many rows at most twice.
LEMMA HistoryFinite ==
    ASSUME LinkedRows, NEW a, NEW n
    PROVE  IsFiniteSet({x \in HistoryRows(a) : x.height <= n})
<1> DEFINE made == {c \in Mine(a) : c.kind = 0}
           took == SpentOf(Mine(a))
           f == [o \in made |-> [id |-> o.source, height |-> outputs[o].height]]
           g == [o \in took |-> [id |-> spent[o].source, height |-> spent[o].height]]
           F == {[id |-> o.source, height |-> outputs[o].height] : o \in made}
           G == {[id |-> spent[o].source, height |-> spent[o].height] : o \in took}
<1>1. made \subseteq OutPoint /\ took \subseteq OutPoint
  BY DEF LinkedRows, TypeOK, Mine, SpentOf
<1>2. IsFiniteSet(made) /\ IsFiniteSet(took)
  BY <1>1, FS_Subset, ReadsAssumption
<1>3. f \in Surjection(made, F) /\ g \in Surjection(took, G)
  BY Zenon DEF Surjection
<1>4. IsFiniteSet(F) /\ IsFiniteSet(G)
  BY <1>2, <1>3, FS_Surjection
<1>5. IsFiniteSet(F \cup G)
  BY <1>4, FS_Union, Zenon
<1>6. HistoryRows(a) = F \cup G
  BY DEF HistoryRows
<1>7. {x \in HistoryRows(a) : x.height <= n} \in SUBSET (F \cup G)
  BY <1>6
<1> QED BY <1>5, <1>7, FS_Subset

\* What History may return: rows of the address up to the height, no row twice, from
\* the highest down.
LEMMA HistoryDown ==
    ASSUME Consensus, BundlesApart, LinkedRows, NEW a, NEW n \in Int,
           NEW s \in History(a, n, PageSize)
    PROVE  /\ s \in Seq(HistoryRow)
           /\ \A i \in DOMAIN s : s[i] \in HistoryRows(a) /\ s[i].height <= n
           /\ \A i, j \in DOMAIN s : i < j => s[i] # s[j] /\ s[i].height >= s[j].height
<1> DEFINE R == {x \in HistoryRows(a) : x.height <= n}
           m == Cardinality(R)
<1>1. m \in Nat
  BY HistoryFinite, FS_CardinalityType, Zenon
<1>2. PICK p : /\ p \in OrderBy(R, Above)
               /\ s = SubSeq(p, 1, Min({PageSize, Len(p)}))
  BY Zenon DEF History
<1>3. /\ p \in [1..m -> R]
      /\ \A i, j \in 1..m : i # j => p[i] # p[j]
      /\ \A i, j \in 1..m : i < j => ~Above(p[j], p[i])
  BY <1>2 DEF OrderBy, Injection, IsInjective
<1>4. R \subseteq HistoryRow
  BY HistoryRowsAtHeight
<1>5. p \in Seq(HistoryRow) /\ Len(p) = m
  BY <1>1, <1>3, <1>4
<1> DEFINE k == Min({PageSize, Len(p)})
<1>6. k \in 0..m
  BY <1>1, <1>5, MinOfTwo, PagingAssumption
<1> HIDE DEF k, m
<1>7. /\ s \in Seq(HistoryRow) /\ DOMAIN s = 1..k
      /\ \A i \in 1..k : s[i] = p[i]
  <2>1. s = SubSeq(p, 1, k)
    BY <1>2 DEF k
  <2>2. k \in Int /\ \A i \in 1..k : i \in 1..m /\ p[i] \in HistoryRow
    BY <1>1, <1>3, <1>4, <1>6
  <2>3. /\ s \in Seq(HistoryRow) /\ Len(s) = IF 1 <= k THEN k - 1 + 1 ELSE 0
        /\ \A i \in 1..(k - 1 + 1) : s[i] = p[1 + i - 1]
    BY <2>1, <2>2
  <2>4. Len(s) = k /\ \A i \in 1..k : s[i] = p[i]
    BY <1>1, <1>6, <2>2, <2>3
  <2> QED BY <2>3, <2>4
<1>8. ASSUME NEW i \in 1..m, NEW j \in 1..m, i < j PROVE p[i].height >= p[j].height
  <2>1. p[i].height \in Int /\ p[j].height \in Int
    BY <1>3, <1>4 DEF HistoryRow, Height
  <2>2. ~Above(p[j], p[i])
    BY <1>3, <1>8
  <2> QED BY <2>1, <2>2 DEF Above
<1>9. \A i \in 1..k : i \in 1..m
  BY <1>1, <1>6
<1>10. \A i \in 1..m : p[i] \in R
  BY <1>3
<1> QED BY <1>3, <1>7, <1>8, <1>9, <1>10

\* What MempoolTxidsFor may return: a list of txids.
LEMMA PendingListed ==
    ASSUME LinkedRows, NEW a, NEW s \in MempoolTxidsFor(a)
    PROVE  s \in Seq(Txid)
<1> DEFINE R == {t \in DOMAIN mempool_txs :
                    \/ \E o \in MempoolMine(a) : o.source = t
                    \/ \E o \in MempoolSpends(a) : mempool_spends[o] = t}
           m == Cardinality(R)
<1>1. R \subseteq Txid
  BY DEF LinkedRows, TypeOK
<1>2. m \in Nat
  BY <1>1, FS_Subset, FS_CardinalityType, ReadsAssumption
<1>3. s \in [1..m -> R]
  BY DEF MempoolTxidsFor, OrderBy, Injection
<1> HIDE DEF R, m
<1> QED BY <1>1, <1>2, <1>3

-----------------------------------------------------------------------------
\* What a walk runs beside are the store calls of LinkedSpec.
LEMMA PagingIsLinked == [PagingNext]_pagingVars => [LinkedNext]_storeVars
<1> SUFFICES ASSUME [PagingNext]_pagingVars PROVE LinkedNext \/ UNCHANGED storeVars
  OBVIOUS
<1>1. CASE WalkStep
  BY <1>1 DEF WalkStep, ReadStart, ReadCursor, ReadHistory, ReadPendingTxids, ReadPendingRow,
              ReadHistoryRow, TakePage
<1>2. CASE \E a \in Addresses : StartWalk(a)
  BY <1>2 DEF StartWalk
<1>3. CASE Grows
  BY <1>3 DEF Grows, LinkedNext
<1>4. CASE \E h \in Height : RollbackHeld(h)
  BY <1>4 DEF LinkedNext
<1>5. CASE UNCHANGED pagingVars
  BY <1>5 DEF pagingVars
<1> QED BY <1>1, <1>2, <1>3, <1>4, <1>5 DEF PagingNext

\* A block that comes while a walk runs leaves what was listed where it is.
LEMMA WalkBesideGrowth ==
    ASSUME LinkedRows, PagingInv, Grows, UNCHANGED walkVars
    PROVE  PagingInv'
<1>1. /\ DOMAIN txs \subseteq DOMAIN txs'
      /\ \A t \in DOMAIN txs : txs'[t] = txs[t]
  BY GrowsKeeps
<1>2. UNCHANGED <<walk, cursor, before, pending, refs, page, listed>>
  BY DEF walkVars
<1>3. WalkTypeOK'
  BY <1>2 DEF PagingInv, WalkTypeOK
<1>4. ListedDown'
  BY <1>1, <1>2 DEF PagingInv, PagesDown, ListedDown
<1>5. RefsDown'
  BY <1>1, <1>2 DEF PagingInv, PagesDown, RefsDown
<1>6. RefsBelow'
  BY <1>1, <1>2 DEF PagingInv, PagesDown, ListedDown, RefsBelow
<1>7. CursorAtEnd'
  <2>1. listed # <<>> => txs'[listed[Len(listed)]] = txs[listed[Len(listed)]]
    <3>1. listed # <<>> => Len(listed) \in DOMAIN listed
      BY DEF PagingInv, WalkTypeOK
    <3> QED BY <1>1, <3>1 DEF PagingInv, PagesDown, ListedDown
  <2> QED BY <1>2, <2>1 DEF PagingInv, PagesDown, CursorAtEnd
<1> QED BY <1>3, <1>4, <1>5, <1>6, <1>7 DEF PagingInv, PagesDown

\* Before a walk there is nothing that a rollback could take away.
LEMMA WalkBeforeRollback ==
    ASSUME PagingInv, walk = "none", UNCHANGED walkVars
    PROVE  PagingInv'
<1>1. UNCHANGED <<walk, cursor, before, pending, refs, page, listed>>
  BY DEF walkVars
<1>2. listed = <<>> /\ refs = <<>> /\ page = <<>> /\ cursor = NULL
  BY DEF PagingInv, PagesDown, CursorAtEnd
<1>3. WalkTypeOK'
  BY <1>1 DEF PagingInv, WalkTypeOK
<1>4. ListedDown' /\ RefsDown' /\ RefsBelow'
  BY <1>1, <1>2 DEF ListedDown, RefsDown, RefsBelow
<1>5. CursorAtEnd'
  BY <1>1, <1>2 DEF CursorAtEnd
<1> QED BY <1>3, <1>4, <1>5 DEF PagingInv, PagesDown

\* The steps that read no row and list none.
LEMMA WalkAround ==
    ASSUME LinkedRows, PagingInv,
           (\E a : StartWalk(a)) \/ ReadStart \/ ReadCursor \/ TakePage
    PROVE  PagingInv'
<1>1. UNCHANGED <<txs, pending, refs, listed>>
  BY DEF StartWalk, ReadStart, ReadCursor, TakePage, storeVars, chainVars
<1>2. /\ WalkTypeOK /\ ListedDown /\ RefsDown /\ RefsBelow /\ CursorAtEnd
      /\ tip.height \in Int /\ \A t \in DOMAIN txs : txs[t] \in Int
  BY DEF PagingInv, PagesDown, LinkedRows, TypeOK, Height
<1>3. ListedDown' /\ RefsDown' /\ RefsBelow'
  BY <1>1, <1>2 DEF ListedDown, RefsDown, RefsBelow
<1>4. before' \in Int
  BY <1>2 DEF StartWalk, ReadStart, ReadCursor, TakePage, below, WalkTypeOK
<1>5. page' \in Seq(Txid)
  BY <1>2 DEF StartWalk, ReadStart, ReadCursor, TakePage, WalkTypeOK
<1>6. WalkTypeOK'
  BY <1>1, <1>2, <1>4, <1>5 DEF WalkTypeOK
<1>7. CASE \E a : StartWalk(a)
  <2>1. walk = "none" /\ walk' = "start" /\ UNCHANGED <<cursor, page>>
    BY <1>7 DEF StartWalk
  <2>2. CursorAtEnd'
    BY <1>1, <1>2, <2>1 DEF CursorAtEnd
  <2> QED BY <1>3, <1>6, <2>2 DEF PagingInv, PagesDown
<1>8. CASE ReadStart
  <2>1. /\ walk = "start" /\ walk' = IF cursor = NULL THEN "history" ELSE "cursor"
        /\ UNCHANGED <<cursor, page>>
    BY <1>8 DEF ReadStart
  <2>2. CursorAtEnd'
    BY <1>1, <1>2, <2>1 DEF CursorAtEnd
  <2> QED BY <1>3, <1>6, <2>2 DEF PagingInv, PagesDown
<1>9. CASE ReadCursor
  <2>1. walk = "cursor" /\ UNCHANGED <<cursor, page>>
    BY <1>9 DEF ReadCursor
  <2>2. CASE walk' = "done"
    <3>1. CursorAtEnd'
      BY <1>1, <1>2, <2>1, <2>2 DEF CursorAtEnd
    <3> QED BY <1>3, <1>6, <3>1 DEF PagingInv, PagesDown
  <2>3. CASE walk' # "done"
    <3>1. walk' = "history" /\ cursor \in DOMAIN txs /\ before' = txs[cursor] - 1
      BY <1>9, <2>3 DEF ReadCursor, below
    <3>2. cursor # NULL /\ (listed # <<>> => cursor = listed[Len(listed)])
      BY <1>2, <2>1 DEF CursorAtEnd
    <3>3. listed # <<>> => before' < txs[listed[Len(listed)]]
      BY <1>2, <3>1, <3>2
    <3>4. refs = <<>> /\ page = <<>>
      BY <1>2, <2>1 DEF CursorAtEnd
    <3>5. CursorAtEnd'
      BY <1>1, <2>1, <3>1, <3>2, <3>3, <3>4 DEF CursorAtEnd
    <3> QED BY <1>3, <1>6, <3>5 DEF PagingInv, PagesDown
  <2> QED BY <2>2, <2>3
<1>10. CASE TakePage
  <2>1. walk = "rows" /\ refs = <<>> /\ page' = <<>>
    BY <1>10 DEF TakePage
  <2>2. CASE page = <<>>
    <3>1. walk' = "done" /\ cursor' = cursor
      BY <1>10, <2>2 DEF TakePage
    <3>2. CursorAtEnd'
      BY <1>1, <2>1, <3>1 DEF CursorAtEnd
    <3> QED BY <1>3, <1>6, <3>2 DEF PagingInv, PagesDown
  <2>3. CASE page # <<>>
    <3>1. walk' = "start" /\ cursor' = page[Len(page)]
      BY <1>10, <2>3 DEF TakePage
    <3>2. cursor' # NULL
      <4>1. page[Len(page)] \in Txid
        BY <1>2, <2>3 DEF WalkTypeOK
      <4> QED BY <3>1, <4>1, PagingAssumption
    <3>3. listed # <<>> => cursor' = listed[Len(listed)]
      BY <1>2, <2>1, <2>3, <3>1 DEF CursorAtEnd
    <3>4. CursorAtEnd'
      BY <1>1, <2>1, <3>1, <3>2, <3>3 DEF CursorAtEnd
    <3> QED BY <1>3, <1>6, <3>4 DEF PagingInv, PagesDown
  <2> QED BY <2>2, <2>3
<1> QED BY <1>7, <1>8, <1>9, <1>10

\* The page that History gives begins below the last row that was listed.
LEMMA WalkReadHistory ==
    ASSUME Consensus, BundlesApart, LinkedRows, PagingInv, ReadHistory
    PROVE  PagingInv'
<1>1. UNCHANGED <<txs, pending, listed, page, cursor, before>>
  BY DEF ReadHistory, storeVars, chainVars
<1>2. /\ WalkTypeOK /\ ListedDown /\ CursorAtEnd
      /\ \A t \in DOMAIN txs : txs[t] \in Int
  BY DEF PagingInv, PagesDown, LinkedRows, TypeOK, Height
<1>3. /\ walk = "history" /\ walk' = IF cursor = NULL THEN "pending" ELSE "rows"
      /\ refs' \in History(address, before, PageSize)
  BY DEF ReadHistory
<1>4. /\ refs' \in Seq(HistoryRow)
      /\ \A i \in DOMAIN refs' : refs'[i] \in HistoryRows(address) /\ refs'[i].height <= before
      /\ \A i, j \in DOMAIN refs' : i < j =>
            refs'[i] # refs'[j] /\ refs'[i].height >= refs'[j].height
  BY <1>2, <1>3, HistoryDown DEF WalkTypeOK
<1>5. WalkTypeOK' /\ ListedDown'
  BY <1>1, <1>2, <1>4 DEF WalkTypeOK, ListedDown
<1>6. \A i \in DOMAIN refs' :
          /\ refs'[i].height \in Int
          /\ refs'[i].id \in Txid =>
                 refs'[i].id \in DOMAIN txs /\ txs[refs'[i].id] = refs'[i].height
  BY <1>4, HistoryRowsAtHeight DEF HistoryRow, Height
<1>7. RefsDown'
  BY <1>1, <1>4, <1>6 DEF RefsDown
<1>8. ASSUME NEW i \in DOMAIN listed, NEW j \in DOMAIN refs'
      PROVE  listed[i] # refs'[j].id /\ txs[listed[i]] >= refs'[j].height
  <2> DEFINE n == Len(listed)
  <2>1. n \in Nat /\ DOMAIN listed = 1..n /\ listed # <<>> /\ n \in DOMAIN listed
    BY <1>2, <1>8 DEF WalkTypeOK
  <2>2. before < txs[listed[n]] /\ before \in Int
    BY <1>2, <1>3, <2>1 DEF CursorAtEnd, WalkTypeOK
  <2>3. /\ listed[i] \in DOMAIN txs /\ listed[n] \in DOMAIN txs
        /\ txs[listed[i]] >= txs[listed[n]]
    BY <1>2, <2>1 DEF ListedDown
  <2>4. txs[listed[i]] \in Int /\ txs[listed[n]] \in Int
    BY <1>2, <2>3
  <2>5. refs'[j].height <= before /\ refs'[j].height \in Int
    BY <1>4, <1>6
  <2>6. refs'[j].height < txs[listed[i]]
    BY <2>2, <2>3, <2>4, <2>5
  <2>7. listed[i] \in Txid
    BY <1>2 DEF WalkTypeOK
  <2> QED BY <1>6, <2>4, <2>5, <2>6, <2>7
<1>9. RefsBelow'
  BY <1>1, <1>8 DEF RefsBelow
<1>10. CursorAtEnd'
  BY <1>1, <1>2, <1>3 DEF CursorAtEnd
<1> QED BY <1>5, <1>7, <1>9, <1>10 DEF PagingInv, PagesDown

\* The unconfirmed rows come before the first mined one.
LEMMA WalkPending ==
    ASSUME LinkedRows, PagingInv, ReadPendingTxids \/ ReadPendingRow
    PROVE  PagingInv'
<1>1. UNCHANGED <<txs, refs, listed, cursor, before>>
  BY DEF ReadPendingTxids, ReadPendingRow, storeVars, chainVars
<1>2. WalkTypeOK /\ ListedDown /\ RefsDown /\ RefsBelow /\ CursorAtEnd
  BY DEF PagingInv, PagesDown
<1>3. ListedDown' /\ RefsDown' /\ RefsBelow'
  BY <1>1, <1>2 DEF ListedDown, RefsDown, RefsBelow
<1>4. CASE ReadPendingTxids
  <2>1. /\ walk = "pending" /\ walk' = "pending_rows" /\ UNCHANGED page
        /\ pending' \in MempoolTxidsFor(address)
    BY <1>4 DEF ReadPendingTxids
  <2>2. WalkTypeOK'
    BY <1>1, <1>2, <2>1, PendingListed DEF WalkTypeOK
  <2>3. CursorAtEnd'
    BY <1>1, <1>2, <2>1 DEF CursorAtEnd
  <2> QED BY <1>3, <2>2, <2>3 DEF PagingInv, PagesDown
<1>5. CASE ReadPendingRow
  <2>1. walk = "pending_rows" /\ walk' \in {"rows", "pending_rows"}
    BY <1>5 DEF ReadPendingRow
  <2>2. listed = <<>> /\ cursor = NULL
    BY <1>2, <2>1 DEF CursorAtEnd
  <2>3. pending' \in Seq(Txid) /\ page' \in Seq(Txid)
    <3>1. CASE pending = <<>>
      BY <1>2, <1>5, <3>1 DEF ReadPendingRow, WalkTypeOK
    <3>2. CASE pending # <<>>
      <4>1. Head(pending) \in Txid /\ Tail(pending) \in Seq(Txid)
        BY <1>2, <3>2 DEF WalkTypeOK
      <4>2. Append(page, Head(pending)) \in Seq(Txid)
        BY <1>2, <4>1 DEF WalkTypeOK
      <4>3. pending' = Tail(pending) /\ page' \in {page, Append(page, Head(pending))}
        BY <1>5, <3>2 DEF ReadPendingRow
      <4> QED BY <1>2, <4>1, <4>2, <4>3, Zenon DEF WalkTypeOK
    <3> QED BY <3>1, <3>2
  <2>4. WalkTypeOK'
    BY <1>1, <1>2, <2>3 DEF WalkTypeOK
  <2>5. CursorAtEnd'
    BY <1>1, <1>2, <2>1, <2>2 DEF CursorAtEnd
  <2> QED BY <1>3, <2>4, <2>5 DEF PagingInv, PagesDown
<1> QED BY <1>4, <1>5

\* The next row of the page is new, and the ones after it stay below it.
LEMMA WalkReadRow ==
    ASSUME LinkedRows, PagingInv, ReadHistoryRow
    PROVE  PagingInv'
<1>1. /\ walk = "rows" /\ refs # <<>> /\ refs' = Tail(refs)
      /\ UNCHANGED <<txs, pending, walk, cursor, before>>
  BY DEF ReadHistoryRow, storeVars, chainVars
<1>2. /\ WalkTypeOK /\ ListedDown /\ RefsDown /\ RefsBelow /\ CursorAtEnd
      /\ \A t \in DOMAIN txs : t \in Txid /\ txs[t] \in Int
  BY DEF PagingInv, PagesDown, LinkedRows, TypeOK, Height
<1> DEFINE n == Len(refs)
           x == refs[1]
<1>3. /\ n \in Nat \ {0} /\ DOMAIN refs = 1..n /\ Head(refs) = x
      /\ refs' \in Seq(HistoryRow) /\ DOMAIN refs' = 1..(n - 1)
      /\ \A i \in 1..(n - 1) : refs'[i] = refs[i + 1]
      /\ \A i \in 1..n : refs[i] \in HistoryRow
  <2>1. n \in Nat \ {0} /\ DOMAIN refs = 1..n /\ Head(refs) = x
    BY <1>1, <1>2 DEF WalkTypeOK
  <2>2. /\ refs' \in Seq(HistoryRow) /\ Len(refs') = n - 1
        /\ \A i \in 1..(n - 1) : refs'[i] = refs[i + 1]
    BY <1>1, <1>2 DEF WalkTypeOK
  <2> QED BY <1>2, <2>1, <2>2 DEF WalkTypeOK
<1>4. 1 \in DOMAIN refs /\ \A i \in 1..(n - 1) : i + 1 \in DOMAIN refs /\ 1 < i + 1
  BY <1>3
<1> HIDE DEF n, x
<1>5. RefsDown'
  <2>1. ASSUME NEW i \in DOMAIN refs', refs'[i].id \in Txid
        PROVE  refs'[i].id \in DOMAIN txs /\ txs[refs'[i].id] = refs'[i].height
    <3>1. refs'[i] = refs[i + 1] /\ i + 1 \in DOMAIN refs
      BY <1>3, <1>4, <2>1
    <3> QED BY <1>2, <2>1, <3>1 DEF RefsDown
  <2>2. \A i, j \in DOMAIN refs' : i < j =>
            refs'[i] # refs'[j] /\ refs'[i].height >= refs'[j].height
    <3> SUFFICES ASSUME NEW i \in 1..(n - 1), NEW j \in 1..(n - 1), i < j
                 PROVE  refs'[i] # refs'[j] /\ refs'[i].height >= refs'[j].height
      BY <1>3
    <3>1. i + 1 < j + 1
      BY <1>3
    <3>2. /\ refs'[i] = refs[i + 1] /\ i + 1 \in DOMAIN refs
          /\ refs'[j] = refs[j + 1] /\ j + 1 \in DOMAIN refs
      BY <1>3, <1>4
    <3>3. refs[i + 1] # refs[j + 1] /\ refs[i + 1].height >= refs[j + 1].height
      BY <1>2, <3>1, <3>2 DEF RefsDown
    <3> QED BY <3>2, <3>3
  <2> QED BY <1>1, <2>1, <2>2 DEF RefsDown
<1>6. CASE Head(refs).id \notin DOMAIN txs
  <2>1. UNCHANGED <<page, listed>>
    BY <1>6 DEF ReadHistoryRow
  <2>2. WalkTypeOK' /\ ListedDown'
    BY <1>1, <1>2, <1>3, <2>1 DEF WalkTypeOK, ListedDown
  <2>3. RefsBelow'
    BY <1>1, <1>2, <1>3, <1>4, <2>1 DEF RefsBelow
  <2>4. CursorAtEnd'
    BY <1>1, <1>2, <2>1 DEF CursorAtEnd
  <2> QED BY <1>5, <2>2, <2>3, <2>4 DEF PagingInv, PagesDown
<1>7. CASE Head(refs).id \in DOMAIN txs
  <2> DEFINE t == x.id
             m == Len(listed)
  <2>1. page' = Append(page, t) /\ listed' = Append(listed, t) /\ t \in DOMAIN txs
    BY <1>3, <1>7 DEF ReadHistoryRow
  <2>2. t \in Txid /\ txs[t] = x.height /\ x.height \in Int
    BY <1>2, <1>4, <2>1 DEF RefsDown, x
  <2>3. /\ m \in Nat /\ DOMAIN listed = 1..m
        /\ listed' \in Seq(Txid) /\ DOMAIN listed' = 1..(m + 1) /\ Len(listed') = m + 1
        /\ \A i \in 1..m : listed'[i] = listed[i]
        /\ listed'[m + 1] = t
    BY <1>2, <2>1, <2>2 DEF WalkTypeOK
  <2>4. page' \in Seq(Txid) /\ page'[Len(page')] = t
    BY <1>2, <2>1, <2>2 DEF WalkTypeOK
  <2> HIDE DEF t, m
  <2>5. \A i \in 1..m : listed[i] # t /\ txs[listed[i]] >= txs[t] /\ listed[i] \in DOMAIN txs
    BY <1>2, <1>4, <2>2, <2>3, Zenon DEF RefsBelow, ListedDown, x, t
  <2>6. \A i \in 1..(n - 1) : refs'[i].id # t /\ txs[t] >= refs'[i].height
    <3> SUFFICES ASSUME NEW i \in 1..(n - 1)
                 PROVE  refs'[i].id # t /\ txs[t] >= refs'[i].height
      OBVIOUS
    <3>1. refs'[i] # x /\ x.height >= refs'[i].height
      <4>1. refs'[i] = refs[i + 1] /\ 1 \in DOMAIN refs /\ i + 1 \in DOMAIN refs /\ 1 < i + 1
        BY <1>3, <1>4
      <4>2. refs[1] # refs[i + 1] /\ refs[1].height >= refs[i + 1].height
        BY <1>2, <4>1 DEF RefsDown
      <4> QED BY <4>1, <4>2 DEF x
    <3>2. refs'[i] \in HistoryRow /\ x \in HistoryRow
      BY <1>3, <1>4 DEF x
    <3>3. ASSUME refs'[i].id = t PROVE FALSE
      <4>1. refs'[i].height = txs[t]
        BY <1>2, <1>3, <1>4, <2>2, <3>3, Zenon DEF RefsDown
      <4>2. refs'[i] = x
        BY <2>2, <3>2, <3>3, <4>1 DEF HistoryRow, t
      <4> QED BY <3>1, <4>2
    <3> QED BY <2>2, <3>1, <3>3
  <2>7. WalkTypeOK'
    BY <1>1, <1>2, <1>3, <2>3, <2>4 DEF WalkTypeOK
  <2>8. ListedDown'
    <3>1. \A i \in 1..(m + 1) : i \in 1..m \/ i = m + 1
      BY <2>3
    <3>2. \A i \in DOMAIN listed' : listed'[i] \in DOMAIN txs
      BY <2>1, <2>3, <2>5, <3>1 DEF t
    <3>3. ASSUME NEW i \in 1..(m + 1), NEW j \in 1..(m + 1), i < j
          PROVE  listed'[i] # listed'[j] /\ txs[listed'[i]] >= txs[listed'[j]]
      <4>1. i \in 1..m
        BY <2>3, <3>3
      <4>2. CASE j \in 1..m
        BY <1>2, <2>3, <3>3, <4>1, <4>2 DEF ListedDown
      <4>3. CASE j = m + 1
        BY <2>3, <2>5, <4>1, <4>3
      <4> QED BY <3>1, <4>2, <4>3
    <3> QED BY <1>1, <2>3, <3>2, <3>3 DEF ListedDown
  <2>9. RefsBelow'
    <3> SUFFICES ASSUME NEW i \in 1..(m + 1), NEW j \in 1..(n - 1)
                 PROVE  listed'[i] # refs'[j].id /\ txs[listed'[i]] >= refs'[j].height
      BY <1>1, <1>3, <2>3 DEF RefsBelow
    <3>1. CASE i \in 1..m
      BY <1>2, <1>3, <1>4, <2>3, <3>1, Zenon DEF RefsBelow
    <3>2. CASE i = m + 1
      BY <2>3, <2>6, <3>2
    <3> QED BY <2>3, <3>1, <3>2
  <2>10. CursorAtEnd'
    BY <1>1, <2>3, <2>4 DEF CursorAtEnd
  <2> QED BY <1>5, <2>7, <2>8, <2>9, <2>10 DEF PagingInv, PagesDown
<1> QED BY <1>6, <1>7

-----------------------------------------------------------------------------
\* The walk keeps to the way down.
LEMMA PagingInvStep ==
    ASSUME Consensus, BundlesApart
    PROVE  LinkedRows /\ PagingInv /\ [PagingNext]_pagingVars => PagingInv'
<1> SUFFICES ASSUME LinkedRows, PagingInv, [PagingNext]_pagingVars PROVE PagingInv'
  OBVIOUS
<1>1. CASE Grows /\ UNCHANGED walkVars
  BY <1>1, WalkBesideGrowth
<1>2. CASE walk = "none" /\ (\E h \in Height : RollbackHeld(h)) /\ UNCHANGED walkVars
  BY <1>2, WalkBeforeRollback
<1>3. CASE \E a \in Addresses : StartWalk(a)
  BY <1>3, WalkAround
<1>4. CASE WalkStep
  BY <1>4, WalkAround, WalkReadHistory, WalkPending, WalkReadRow DEF WalkStep
<1>5. CASE UNCHANGED pagingVars
  <2>1. UNCHANGED <<txs, walk, cursor, before, pending, refs, page, listed>>
    BY <1>5 DEF pagingVars, walkVars, storeVars, chainVars
  <2>2. WalkTypeOK' /\ ListedDown' /\ RefsDown' /\ RefsBelow'
    BY <2>1 DEF PagingInv, PagesDown, WalkTypeOK, ListedDown, RefsDown, RefsBelow
  <2>3. CursorAtEnd'
    BY <2>1 DEF PagingInv, PagesDown, CursorAtEnd
  <2> QED BY <2>2, <2>3 DEF PagingInv, PagesDown
<1> QED BY <1>1, <1>2, <1>3, <1>4, <1>5 DEF PagingNext

\* A walk leaves the store to the syncers: beside it the store runs as LinkedSpec.
THEOREM PagingImplementsLinked == PagingSpec => LinkedSpec
<1>1. PagingInit => StoreInit
  BY DEF PagingInit
<1> QED BY <1>1, PagingIsLinked, PTL DEF PagingSpec, LinkedSpec

\* The pages of addressTxs together hold no mined transaction twice, for every chain,
\* every page size and every way the chain grows between the queries of a walk.
THEOREM PagingNoRowTwice ==
    ASSUME Consensus, BundlesApart
    PROVE  PagingSpec => []NoRowTwice
<1>1. PagingInit => LinkedRows /\ PagingInv
  <2> SUFFICES ASSUME PagingInit PROVE LinkedRows /\ PagingInv
    OBVIOUS
  <2>1. LinkedRows
    BY LinkedInit DEF PagingInit
  <2>2. PagingInv
    BY DEF PagingInit, PagingInv, PagesDown, WalkTypeOK, ListedDown, RefsDown, RefsBelow,
           CursorAtEnd
  <2> QED BY <2>1, <2>2
<1>2. LinkedRows /\ PagingInv /\ [PagingNext]_pagingVars => LinkedRows' /\ PagingInv'
  BY PagingIsLinked, LinkedStep, PagingInvStep
<1>3. PagingInv => NoRowTwice
  <2> SUFFICES ASSUME PagingInv, NEW i \in DOMAIN listed, NEW j \in DOMAIN listed, i # j
               PROVE  listed[i] # listed[j]
    BY DEF NoRowTwice
  <2>1. i \in Int /\ j \in Int
    BY DEF PagingInv, WalkTypeOK
  <2> QED BY <2>1 DEF PagingInv, PagesDown, ListedDown
<1> QED BY <1>1, <1>2, <1>3, PTL DEF PagingSpec

-----------------------------------------------------------------------------
(***************************************************************************)
(* The balances.  ValueSum folds over a set by taking one coin after       *)
(* another; the lemmas show that the order does not matter.                *)
(***************************************************************************)
Pick(s) == CHOOSE o \in s : TRUE

\* g adds up the values of each set of coins in F, coin by coin.
SumsUp(g, F) ==
    g = [s \in F |-> IF s = {} THEN 0 ELSE Value[Pick(s)] + g[s \ {Pick(s)}]]

UpTo(n) == {s \in SUBSET OutPoint : Cardinality(s) <= n}

\* Pick gives a member.
LEMMA PickIsOne == ASSUME NEW s, s # {} PROVE Pick(s) \in s
BY DEF Pick

\* The cardinality of a set of coins, and of the set without one of them.
LEMMA CoinCount ==
    ASSUME NEW s \in SUBSET OutPoint
    PROVE  /\ IsFiniteSet(s) /\ Cardinality(s) \in Nat
           /\ Cardinality(s) = 0 <=> s = {}
           /\ \A o \in s : Cardinality(s \ {o}) = Cardinality(s) - 1
<1>1. IsFiniteSet(s)
  BY FS_Subset, ReadsAssumption
<1> QED BY <1>1, FS_CardinalityType, FS_EmptySet, FS_RemoveElement

\* There are sums of the sets of up to n coins, for each n.
LEMMA SumsUpTo == \A n \in Nat : \E g : SumsUp(g, UpTo(n))
<1> DEFINE B == {n \in Nat : ~\E g : SumsUp(g, UpTo(n))}
<1> SUFFICES ASSUME B # {} PROVE FALSE
  OBVIOUS
<1>1. PICK n \in B : \A m \in B : n <= m
  <2>1. B \in SUBSET Nat
    OBVIOUS
  <2> HIDE DEF B
  <2> QED BY <2>1, LeastOne
<1>2. CASE n = 0
  <2> DEFINE g == [s \in UpTo(0) |-> 0]
  <2>1. \A s \in UpTo(0) : s = {}
    BY CoinCount DEF UpTo
  <2>2. SumsUp(g, UpTo(0))
    BY <2>1 DEF SumsUp
  <2> QED BY <1>2, <2>2
<1>3. CASE n # 0
  <2>1. n - 1 \in Nat /\ n \in Nat
    BY <1>3
  <2>2. n - 1 \notin B
    <3>1. ~(n <= n - 1)
      BY <2>1
    <3> HIDE DEF B
    <3> QED BY <1>1, <3>1
  <2>3. PICK f : SumsUp(f, UpTo(n - 1))
    BY <2>1, <2>2
  <2> DEFINE g == [s \in UpTo(n) |-> IF s \in UpTo(n - 1) THEN f[s]
                                    ELSE Value[Pick(s)] + f[s \ {Pick(s)}]]
  <2>4. UpTo(n - 1) \subseteq UpTo(n)
    BY <2>1, CoinCount DEF UpTo
  <2>5. ASSUME NEW s \in UpTo(n), s # {}
        PROVE  s \ {Pick(s)} \in UpTo(n - 1)
    <3>1. s \in SUBSET OutPoint /\ Cardinality(s) <= n
      BY <2>5 DEF UpTo
    <3>2. Cardinality(s \ {Pick(s)}) = Cardinality(s) - 1 /\ Cardinality(s) \in Nat
      BY <2>5, <3>1, PickIsOne, CoinCount
    <3>3. s \ {Pick(s)} \in SUBSET OutPoint
      BY <3>1
    <3> QED BY <2>1, <3>1, <3>2, <3>3 DEF UpTo
  <2>6. \A s \in UpTo(n - 1) :
            f[s] = IF s = {} THEN 0 ELSE Value[Pick(s)] + f[s \ {Pick(s)}]
    BY <2>3, Zenon DEF SumsUp
  <2>7. {} \in UpTo(n - 1)
    BY <2>1, CoinCount DEF UpTo
  <2>8. ASSUME NEW s \in UpTo(n)
        PROVE  g[s] = IF s = {} THEN 0 ELSE Value[Pick(s)] + g[s \ {Pick(s)}]
    <3>1. CASE s = {}
      BY <2>4, <2>6, <2>7, <3>1
    <3>2. CASE s # {}
      <4>1. s \ {Pick(s)} \in UpTo(n - 1)
        BY <2>5, <3>2
      <4>2. g[s \ {Pick(s)}] = f[s \ {Pick(s)}]
        BY <2>4, <4>1
      <4>3. g[s] = Value[Pick(s)] + f[s \ {Pick(s)}]
        BY <2>6, <3>2
      <4> QED BY <3>2, <4>2, <4>3
    <3> QED BY <3>1, <3>2
  <2>9. SumsUp(g, UpTo(n))
    <3>1. g = [s \in UpTo(n) |-> g[s]]
      OBVIOUS
    <3> HIDE DEF g
    <3> QED BY <2>8, <3>1, Zenon DEF SumsUp
  <2> QED BY <1>1, <2>9
<1> QED BY <1>2, <1>3

\* A set of coins that has a bad member of the family has a least one.
LEMMA LeastSet ==
    ASSUME NEW F \in SUBSET SUBSET OutPoint, F # {}
    PROVE  \E s \in F : \A r \in F : Cardinality(s) <= Cardinality(r)
<1> DEFINE T == {Cardinality(s) : s \in F}
<1>1. T \in SUBSET Nat /\ T # {}
  BY CoinCount
<1>2. PICK n \in T : \A m \in T : n <= m
  <2> HIDE DEF T
  <2> QED BY <1>1, LeastOne
<1> QED BY <1>2

\* ValueSum takes the coins of a set one after another.
LEMMA ValueSumSteps ==
    /\ ValueSum({}) = 0
    /\ \A S \in SUBSET OutPoint : S # {} =>
          ValueSum(S) = Value[Pick(S)] + ValueSum(S \ {Pick(S)})
<1>1. ASSUME NEW S PROVE ValueSum(S) = (CHOOSE g : SumsUp(g, SUBSET S))[S]
  BY DEF ValueSum, MapThenSumSet, MapThenFoldSet, SumsUp, Pick
<1> DEFINE N == Cardinality(OutPoint)
<1>2. N \in Nat /\ UpTo(N) = SUBSET OutPoint
  <2>1. N \in Nat /\ \A s \in SUBSET OutPoint : Cardinality(s) <= N
    BY FS_CardinalityType, FS_Subset, ReadsAssumption
  <2> QED BY <2>1 DEF UpTo
<1>3. PICK G : SumsUp(G, SUBSET OutPoint)
  BY <1>2, SumsUpTo, Zenon
<1>4. \A s \in SUBSET OutPoint :
          G[s] = IF s = {} THEN 0 ELSE Value[Pick(s)] + G[s \ {Pick(s)}]
  BY <1>3, Zenon DEF SumsUp
<1>5. ASSUME NEW S \in SUBSET OutPoint
      PROVE  ValueSum(S) = G[S]
  <2> DEFINE h == [s \in SUBSET S |-> G[s]]
             g == CHOOSE f : SumsUp(f, SUBSET S)
  <2>1. SumsUp(h, SUBSET S)
    <3>1. ASSUME NEW s \in SUBSET S
          PROVE  h[s] = IF s = {} THEN 0 ELSE Value[Pick(s)] + h[s \ {Pick(s)}]
      <4>1. s \in SUBSET OutPoint /\ s \ {Pick(s)} \in SUBSET S
        OBVIOUS
      <4> QED BY <1>4, <4>1
    <3>2. h = [s \in SUBSET S |-> h[s]]
      OBVIOUS
    <3> HIDE DEF h
    <3> QED BY <3>1, <3>2, Zenon DEF SumsUp
  <2>2. SumsUp(g, SUBSET S)
    BY <2>1, Zenon
  <2> HIDE DEF g, h
  <2>3. \A s \in SUBSET S :
            g[s] = IF s = {} THEN 0 ELSE Value[Pick(s)] + g[s \ {Pick(s)}]
    BY <2>2, Zenon DEF SumsUp
  <2> DEFINE F == {s \in SUBSET S : g[s] # G[s]}
  <2>4. ASSUME F # {} PROVE FALSE
    <3>1. PICK s \in F : \A r \in F : Cardinality(s) <= Cardinality(r)
      <4>1. F \in SUBSET SUBSET OutPoint
        BY <1>5
      <4> HIDE DEF F
      <4> QED BY <2>4, <4>1, LeastSet
    <3>2. s \in SUBSET S /\ s \in SUBSET OutPoint /\ g[s] # G[s]
      BY <1>5
    <3>3. s # {}
      BY <1>4, <2>3, <3>2, Zenon
    <3> DEFINE r == s \ {Pick(s)}
    <3>4. r \in SUBSET S /\ ~(Cardinality(s) <= Cardinality(r))
      <4>1. Cardinality(r) = Cardinality(s) - 1 /\ Cardinality(s) \in Nat
        BY <3>2, <3>3, PickIsOne, CoinCount
      <4>2. r \in SUBSET S
        BY <3>2
      <4> QED BY <4>1, <4>2
    <3> HIDE DEF r
    <3>5. g[r] = G[r]
      BY <3>1, <3>4
    <3> QED BY <1>4, <2>3, <3>2, <3>3, <3>5 DEF r
  <2>5. g[S] = G[S]
    BY <2>4
  <2> QED BY <1>1, <2>5 DEF g
<1>6. ValueSum({}) = 0
  BY <1>4, <1>5
<1>7. ASSUME NEW S \in SUBSET OutPoint, S # {}
      PROVE  ValueSum(S) = Value[Pick(S)] + ValueSum(S \ {Pick(S)})
  <2>1. S \ {Pick(S)} \in SUBSET OutPoint
    BY <1>7
  <2> QED BY <1>4, <1>5, <1>7, <2>1
<1> QED BY <1>6, <1>7

\* A sum of values is a number.
LEMMA ValueSumType ==
    ASSUME NEW S \in SUBSET OutPoint
    PROVE  ValueSum(S) \in Nat
<1> DEFINE F == {s \in SUBSET OutPoint : ValueSum(s) \notin Nat}
<1> SUFFICES ASSUME F # {} PROVE FALSE
  OBVIOUS
<1>1. PICK s \in F : \A r \in F : Cardinality(s) <= Cardinality(r)
  <2>1. F \in SUBSET SUBSET OutPoint
    OBVIOUS
  <2> HIDE DEF F
  <2> QED BY <2>1, LeastSet
<1>2. s \in SUBSET OutPoint /\ ValueSum(s) \notin Nat
  OBVIOUS
<1>3. s # {}
  BY <1>2, ValueSumSteps
<1> DEFINE r == s \ {Pick(s)}
<1>4. Cardinality(r) = Cardinality(s) - 1 /\ Cardinality(s) \in Nat /\ Pick(s) \in s
  BY <1>2, <1>3, PickIsOne, CoinCount
<1>5. r \in SUBSET OutPoint /\ ~(Cardinality(s) <= Cardinality(r))
  BY <1>2, <1>4
<1>6. ValueSum(s) = Value[Pick(s)] + ValueSum(r)
  BY <1>2, <1>3, ValueSumSteps
<1>7. Value[Pick(s)] \in Nat
  BY <1>2, <1>4, ReadsAssumption
<1> HIDE DEF r
<1>8. ValueSum(r) \in Nat
  BY <1>1, <1>5
<1> QED BY <1>2, <1>6, <1>7, <1>8

\* Any coin of the set may be the one that is taken off.
LEMMA ValueSumRemove ==
    ASSUME NEW S \in SUBSET OutPoint, NEW o \in S
    PROVE  ValueSum(S) = Value[o] + ValueSum(S \ {o})
<1> DEFINE F == {s \in SUBSET OutPoint :
                    \E x \in s : ValueSum(s) # Value[x] + ValueSum(s \ {x})}
<1> SUFFICES ASSUME F # {} PROVE FALSE
  BY Zenon
<1>1. PICK s \in F : \A r \in F : Cardinality(s) <= Cardinality(r)
  <2>1. F \in SUBSET SUBSET OutPoint
    OBVIOUS
  <2> HIDE DEF F
  <2> QED BY <2>1, LeastSet
<1>2. PICK x \in s : ValueSum(s) # Value[x] + ValueSum(s \ {x})
  OBVIOUS
<1> DEFINE y == Pick(s)
<1>3. s \in SUBSET OutPoint /\ s # {} /\ y \in s /\ x \in s
  BY <1>2, PickIsOne
<1>4. ASSUME NEW z \in s, NEW w \in s \ {z}
      PROVE  ValueSum(s \ {z}) = Value[w] + ValueSum((s \ {z}) \ {w})
  <2>1. s \ {z} \in SUBSET OutPoint
    BY <1>3
  <2>2. Cardinality(s \ {z}) = Cardinality(s) - 1 /\ Cardinality(s) \in Nat
    BY <1>3, CoinCount
  <2>3. ~(Cardinality(s) <= Cardinality(s \ {z}))
    BY <2>2
  <2>4. s \ {z} \notin F
    <3> HIDE DEF F
    <3> QED BY <1>1, <2>3
  <2> QED BY <1>4, <2>1, <2>4, Zenon
<1>5. ValueSum(s) = Value[y] + ValueSum(s \ {y})
  BY <1>3, ValueSumSteps
<1> HIDE DEF y
<1>6. x # y
  BY <1>2, <1>5
<1>7. /\ ValueSum(s \ {y}) = Value[x] + ValueSum((s \ {y}) \ {x})
      /\ ValueSum(s \ {x}) = Value[y] + ValueSum((s \ {x}) \ {y})
  BY <1>3, <1>4, <1>6
<1>8. (s \ {y}) \ {x} = (s \ {x}) \ {y}
  OBVIOUS
<1>9. Value[x] \in Nat /\ Value[y] \in Nat /\ ValueSum((s \ {x}) \ {y}) \in Nat
  <2>1. (s \ {x}) \ {y} \in SUBSET OutPoint
    BY <1>3
  <2>2. x \in OutPoint /\ y \in OutPoint
    BY <1>3
  <2>3. ValueSum((s \ {x}) \ {y}) \in Nat
    <3> HIDE DEF F
    <3> QED BY <2>1, ValueSumType
  <2> QED BY <2>2, <2>3, ReadsAssumption
<1>10. ValueSum((s \ {y}) \ {x}) = ValueSum((s \ {x}) \ {y})
  BY <1>8
<1>11. \A i, j, k \in Nat : i + (j + k) = j + (i + k)
  OBVIOUS
<1>12. ValueSum(s) = Value[y] + (Value[x] + ValueSum((s \ {x}) \ {y}))
  BY <1>5, <1>7, <1>10
<1>13. Value[x] + ValueSum(s \ {x}) = Value[x] + (Value[y] + ValueSum((s \ {x}) \ {y}))
  BY <1>7
<1> QED BY <1>2, <1>9, <1>11, <1>12, <1>13

\* The sums of two sets without a coin in common add up.
LEMMA ValueSumUnion ==
    ASSUME NEW S \in SUBSET OutPoint, NEW T \in SUBSET OutPoint, S \cap T = {}
    PROVE  ValueSum(S \cup T) = ValueSum(S) + ValueSum(T)
<1> DEFINE F == {s \in SUBSET OutPoint :
                    s \cap T = {} /\ ValueSum(s \cup T) # ValueSum(s) + ValueSum(T)}
<1> SUFFICES ASSUME F # {} PROVE FALSE
  OBVIOUS
<1>1. PICK s \in F : \A r \in F : Cardinality(s) <= Cardinality(r)
  <2>1. F \in SUBSET SUBSET OutPoint
    OBVIOUS
  <2> HIDE DEF F
  <2> QED BY <2>1, LeastSet
<1>2. /\ s \in SUBSET OutPoint /\ s \cap T = {}
      /\ ValueSum(s \cup T) # ValueSum(s) + ValueSum(T)
  OBVIOUS
<1>3. ValueSum(T) \in Nat
  BY ValueSumType
<1>4. s # {}
  <2>1. ASSUME s = {} PROVE FALSE
    <3>1. s \cup T = T
      BY <2>1
    <3> QED BY <1>2, <1>3, <2>1, <3>1, ValueSumSteps
  <2> QED BY <2>1
<1>5. PICK x : x \in s
  BY <1>4
<1> DEFINE r == s \ {x}
<1>6. r \in SUBSET OutPoint /\ r \cap T = {} /\ (s \cup T) \ {x} = r \cup T
  BY <1>2, <1>5
<1>7. ValueSum(s) = Value[x] + ValueSum(r)
  BY <1>2, <1>5, ValueSumRemove
<1>8. ValueSum(s \cup T) = Value[x] + ValueSum(r \cup T)
  BY <1>2, <1>5, <1>6, ValueSumRemove
<1>9. ~(Cardinality(s) <= Cardinality(r))
  <2>1. Cardinality(r) = Cardinality(s) - 1 /\ Cardinality(s) \in Nat
    BY <1>2, <1>5, CoinCount
  <2> QED BY <2>1
<1> HIDE DEF r
<1>10. ValueSum(r \cup T) = ValueSum(r) + ValueSum(T)
  BY <1>1, <1>6, <1>9
<1>11. Value[x] \in Nat /\ ValueSum(r) \in Nat
  BY <1>2, <1>5, <1>6, ValueSumType, ReadsAssumption
<1> QED BY <1>2, <1>3, <1>7, <1>8, <1>10, <1>11

\* What Stats and MempoolStats sum up and what UTXOs and MempoolUTXOs list of one
\* address are made of the same four sets of coins.
LEMMA BalancesFromRows == LinkedRows => BalancesAgree
<1> SUFFICES ASSUME LinkedRows, SnapshotAhead, NEW a \in Addresses
             PROVE  (Stats(a).funded - Stats(a).spent)
                        + (MempoolStats(a).funded - MempoolStats(a).spent)
                      = ValueSum(Holdings(a))
  BY DEF BalancesAgree
<1> DEFINE M == Mine(a)
           S == SpentOf(Mine(a))
           U == UTXOs(a)
           P == DOMAIN mempool_spends
           Q == MempoolMine(a)
<1>1. M \in SUBSET OutPoint /\ S \in SUBSET OutPoint /\ U \in SUBSET OutPoint
      /\ Q \in SUBSET OutPoint
  BY DEF LinkedRows, TypeOK, Mine, SpentOf, UTXOs, MempoolMine
<1>2. M = S \cup U /\ S \cap U = {}
  BY DEF LinkedRows, TypeOK, Rows, OutputsExact, Mine, SpentOf, UTXOs
<1>3. U \cap P = M \cap P
  BY <1>2 DEF SpentOf, SnapshotAhead
<1>4. MempoolSpends(a) \cap M = M \cap P /\ MempoolSpends(a) \cap Q = Q \cap P
  BY DEF MempoolSpends
<1>5. Holdings(a) = (U \ P) \cup (Q \ P) /\ (U \ P) \cap (Q \ P) = {}
  BY DEF Holdings, MempoolSpentOutpoints, MempoolUTXOs, UTXOs, Mine, MempoolMine,
         SnapshotAhead
<1>6. /\ Stats(a).funded = ValueSum(M) /\ Stats(a).spent = ValueSum(S)
      /\ MempoolStats(a).funded = ValueSum(Q)
      /\ MempoolStats(a).spent = ValueSum(M \cap P) + ValueSum(Q \cap P)
  BY <1>4, Zenon DEF Stats, MempoolStats
<1> HIDE DEF M, S, U, P, Q
<1>7. ValueSum(M) = ValueSum(S) + ValueSum(U)
  BY <1>1, <1>2, ValueSumUnion
<1>8. ASSUME NEW T \in SUBSET OutPoint
      PROVE  /\ ValueSum(T) = ValueSum(T \ P) + ValueSum(T \cap P)
             /\ ValueSum(T \ P) \in Nat /\ ValueSum(T \cap P) \in Nat
  <2>1. /\ T \ P \in SUBSET OutPoint /\ T \cap P \in SUBSET OutPoint
        /\ (T \ P) \cap (T \cap P) = {} /\ (T \ P) \cup (T \cap P) = T
    OBVIOUS
  <2>2. ValueSum((T \ P) \cup (T \cap P)) = ValueSum(T \ P) + ValueSum(T \cap P)
    BY <2>1, ValueSumUnion
  <2> QED BY <2>1, <2>2, ValueSumType
<1>9. /\ ValueSum(U) = ValueSum(U \ P) + ValueSum(M \cap P)
      /\ ValueSum(Q) = ValueSum(Q \ P) + ValueSum(Q \cap P)
  BY <1>1, <1>3, <1>8
<1>10. ValueSum(Holdings(a)) = ValueSum(U \ P) + ValueSum(Q \ P)
  <2>1. U \ P \in SUBSET OutPoint /\ Q \ P \in SUBSET OutPoint
    BY <1>1
  <2> QED BY <1>5, <2>1, ValueSumUnion
<1>11. /\ ValueSum(S) \in Nat /\ ValueSum(U \ P) \in Nat /\ ValueSum(M \cap P) \in Nat
       /\ ValueSum(Q \ P) \in Nat /\ ValueSum(Q \cap P) \in Nat
  BY <1>1, <1>8, ValueSumType
<1>12. \A s, u, m, q, p \in Nat :
          ((s + (u + m)) - s) + ((q + p) - (m + p)) = u + q
  OBVIOUS
<1> QED BY <1>6, <1>7, <1>9, <1>10, <1>11, <1>12

\* /address and /address/utxo give every address the same balance while the snapshot
\* is ahead of the chain, for every set of coins and every history of the index: Stats
\* and MempoolStats count by rows, UTXOs and MempoolUTXOs join and leave out.
THEOREM LinkedBalancesAgree == LinkedSpec => []BalancesAgree
BY LinkedInit, LinkedStep, BalancesFromRows, PTL DEF LinkedSpec
=============================================================================
