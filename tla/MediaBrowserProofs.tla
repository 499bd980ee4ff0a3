------------------------- MODULE MediaBrowserProofs -------------------------
(* The browser opens on the message that was tapped, for rooms of any       *)
(* length: what the loops make of the room's messages, row by row, and     *)
(* what a tap finds there.                                                  *)
EXTENDS MediaBrowser, SequenceTheorems, WellFoundedInduction, TLAPS

-----------------------------------------------------------------------------
(* The loops *)

(* What the loop holds after k turns, for f[k] *)
Loop(f, items, kinds, n) ==
  f = [k \in 0 .. n |-> IF k = 0 THEN Nothing
                        ELSE Turn(f[k - 1], items[k], kinds)]

(* The loop gets to every turn: the first one it could not get to would     *)
(* follow one it did.                                                      *)
LEMMA LoopRuns ==
  ASSUME NEW items, NEW kinds, NEW n \in Nat
  PROVE  \E f : Loop(f, items, kinds, n)
<1> DEFINE stuck == {m \in Nat : ~\E f : Loop(f, items, kinds, m)}
<1> SUFFICES ASSUME stuck # {} PROVE FALSE
  OBVIOUS
<1>1. stuck \in SUBSET Nat
  OBVIOUS
<1>2. PICK m \in stuck : \A l \in stuck : <<l, m>> \notin OpToRel(<, Nat)
  <2> HIDE DEF stuck
  <2> QED
    BY <1>1, WFMin, NatLessThanWellFounded, Zenon
<1>3. \A l \in Nat : l < m => \E f : Loop(f, items, kinds, l)
  BY <1>2 DEF OpToRel
<1>4. CASE m = 0
  <2> DEFINE f == [k \in 0 .. 0 |-> Nothing]
  <2>1. f = [k \in 0 .. 0 |-> IF k = 0 THEN Nothing
                              ELSE Turn(f[k - 1], items[k], kinds)]
    OBVIOUS
  <2> QED
    BY <1>2, <1>4, <2>1 DEF Loop
<1>5. CASE m # 0
  <2>1. m \in Nat /\ m - 1 \in Nat /\ m - 1 < m
    BY <1>5
  <2>2. PICK f : Loop(f, items, kinds, m - 1)
    BY <1>3, <2>1
  <2> DEFINE g == [k \in 0 .. m |-> IF k = m THEN Turn(f[m - 1], items[m], kinds)
                                    ELSE f[k]]
  <2>3. \A k \in 0 .. m - 1 :
          f[k] = IF k = 0 THEN Nothing ELSE Turn(f[k - 1], items[k], kinds)
    BY <2>2, Zenon DEF Loop
  <2>4. \A k \in 0 .. m - 1 : g[k] = f[k]
    BY <2>1
  <2>5. g[m] = Turn(g[m - 1], items[m], kinds)
    BY <2>1, <2>4
  <2>6. \A k \in 0 .. m :
          g[k] = IF k = 0 THEN Nothing ELSE Turn(g[k - 1], items[k], kinds)
    <3> TAKE k \in 0 .. m
    <3>1. CASE k = m
      BY <1>5, <2>5, <3>1
    <3>2. CASE k = 0
      BY <2>1, <2>3, <2>4, <3>2
    <3>3. CASE k # m /\ k # 0
      <4>1. k \in 0 .. m - 1 /\ k - 1 \in 0 .. m - 1
        BY <2>1, <3>3
      <4> QED
        BY <2>3, <2>4, <4>1, Zenon
    <3> QED
      BY <3>1, <3>2, <3>3
  <2>7. DOMAIN g = 0 .. m
    OBVIOUS
  <2>8. g = [k \in 0 .. m |-> g[k]]
    OBVIOUS
  <2> HIDE DEF g
  <2>9. g = [k \in 0 .. m |-> IF k = 0 THEN Nothing
                              ELSE Turn(g[k - 1], items[k], kinds)]
    BY <2>6, <2>8
  <2> QED
    BY <1>2, <2>9, Zenon DEF Loop
<1> QED
  BY <1>4, <1>5

LEMMA BrowserDataIs ==
  ASSUME NEW items, NEW kinds, Len(items) \in Nat
  PROVE  \E f : /\ BrowserData(items, kinds) = f[Len(items)]
                /\ f[0] = Nothing
                /\ \A k \in 1 .. Len(items) : f[k] = Turn(f[k - 1], items[k], kinds)
<1> DEFINE n == Len(items)
           made == CHOOSE f : f = [k \in 0 .. n |-> IF k = 0 THEN Nothing
                                                   ELSE Turn(f[k - 1], items[k], kinds)]
<1>1. \E f : f = [k \in 0 .. n |-> IF k = 0 THEN Nothing
                                   ELSE Turn(f[k - 1], items[k], kinds)]
  <2>1. PICK f : Loop(f, items, kinds, n)
    BY LoopRuns
  <2>2. f = [k \in 0 .. n |-> IF k = 0 THEN Nothing
                              ELSE Turn(f[k - 1], items[k], kinds)]
    BY <2>1, Zenon DEF Loop
  <2> QED
    BY <2>2
<1>2. made = [k \in 0 .. n |-> IF k = 0 THEN Nothing
                               ELSE Turn(made[k - 1], items[k], kinds)]
  BY <1>1, Zenon
<1>3. BrowserData(items, kinds) = made[n]
  BY Zenon DEF BrowserData
<1> HIDE DEF made
<1>4. \A k \in 0 .. n : made[k] = IF k = 0 THEN Nothing
                                  ELSE Turn(made[k - 1], items[k], kinds)
  BY <1>2, Zenon
<1>5. made[0] = Nothing
  BY <1>4
<1>6. \A k \in 1 .. n : made[k] = Turn(made[k - 1], items[k], kinds)
  BY <1>4
<1> QED
  BY <1>3, <1>5, <1>6

(* After k turns: a page has come of every row of the kind, and the index   *)
(* of the row points to it.                                                *)
Found(made, items, kinds, k) ==
  /\ made.pages \in Seq(Nat)
  /\ made.indexs \in Seq(Nat) /\ Len(made.indexs) = k
  /\ \A row \in 1 .. k : items[row].msgType \in kinds =>
       /\ made.indexs[row] \in 1 .. Len(made.pages)
       /\ made.pages[made.indexs[row]] = items[row].stamp

(* A turn finds the page of its row and loses none *)
LEMMA TurnFinds ==
  ASSUME NEW items \in Seq(Message), NEW kinds, NEW k \in Nat,
         k + 1 \in 1 .. Len(items), NEW made, Found(made, items, kinds, k)
  PROVE  Found(Turn(made, items[k + 1], kinds), items, kinds, k + 1)
<1> DEFINE model == items[k + 1]
           pages == IF model.msgType \in kinds THEN Append(made.pages, model.stamp)
                                               ELSE made.pages
           next  == Turn(made, model, kinds)
           n     == Len(made.pages)
<1>1. model.stamp \in Nat
  <2>1. model \in Message
    OBVIOUS
  <2> QED
    BY <2>1 DEF Message
<1>2. n \in Nat /\ made.pages \in Seq(Nat) /\ made.indexs \in Seq(Nat)
      /\ Len(made.indexs) = k
  BY DEF Found
<1>3. /\ pages \in Seq(Nat) /\ Len(pages) \in Nat /\ Len(pages) >= n
      /\ \A p \in 1 .. n : pages[p] = made.pages[p]
      /\ model.msgType \in kinds => Len(pages) = n + 1 /\ pages[n + 1] = model.stamp
  <2>1. CASE model.msgType \in kinds
    <3>1. pages = Append(made.pages, model.stamp)
      BY <2>1
    <3> HIDE DEF model, pages
    <3> QED
      BY <1>1, <1>2, <3>1, AppendProperties
  <2>2. CASE model.msgType \notin kinds
    BY <1>2, <2>2
  <2> QED
    BY <2>1, <2>2
<1>4. next.pages = pages /\ next.indexs = Append(made.indexs, Len(pages))
  BY DEF Turn
<1> HIDE DEF pages, next, n
<1>5. /\ next.indexs \in Seq(Nat) /\ Len(next.indexs) = k + 1
      /\ next.indexs[k + 1] = Len(pages)
      /\ \A row \in 1 .. k : next.indexs[row] = made.indexs[row]
  BY <1>2, <1>3, <1>4, AppendProperties
<1>6. ASSUME NEW row \in 1 .. k + 1, items[row].msgType \in kinds
      PROVE  /\ next.indexs[row] \in 1 .. Len(next.pages)
             /\ next.pages[next.indexs[row]] = items[row].stamp
  <2>1. CASE row = k + 1
    <3>1. next.indexs[row] = n + 1 /\ Len(next.pages) = n + 1
      BY <1>3, <1>4, <1>5, <1>6, <2>1
    <3> QED
      BY <1>2, <1>3, <1>4, <1>6, <2>1, <3>1
  <2>2. CASE row \in 1 .. k
    <3>1. /\ made.indexs[row] \in 1 .. n
          /\ made.pages[made.indexs[row]] = items[row].stamp
      BY <1>6, <2>2 DEF Found, n
    <3>2. next.indexs[row] = made.indexs[row]
      BY <1>5, <2>2
    <3>3. made.indexs[row] \in 1 .. Len(pages)
      BY <1>2, <1>3, <3>1
    <3>4. pages[made.indexs[row]] = items[row].stamp
      BY <1>3, <3>1
    <3> QED
      BY <1>4, <3>2, <3>3, <3>4
  <2> QED
    BY <2>1, <2>2
<1>7. Found(next, items, kinds, k + 1)
  BY <1>3, <1>4, <1>5, <1>6 DEF Found
<1> QED
  BY <1>7 DEF next

(* The loops find the page of every row of the kind *)
LEMMA BrowserDataFinds ==
  ASSUME NEW items \in Seq(Message), NEW kinds
  PROVE  Found(BrowserData(items, kinds), items, kinds, Len(items))
<1> DEFINE n == Len(items)
<1>1. n \in Nat
  OBVIOUS
<1>2. PICK f : /\ BrowserData(items, kinds) = f[n]
               /\ f[0] = Nothing
               /\ \A k \in 1 .. n : f[k] = Turn(f[k - 1], items[k], kinds)
  BY <1>1, BrowserDataIs
<1> DEFINE lost == {k \in 0 .. n : ~Found(f[k], items, kinds, k)}
<1>3. SUFFICES ASSUME lost # {} PROVE FALSE
  BY <1>1, <1>2
<1>4. lost \in SUBSET Nat
  BY <1>1
<1>5. PICK m \in lost : \A l \in lost : <<l, m>> \notin OpToRel(<, Nat)
  <2> HIDE DEF lost
  <2> QED
    BY <1>3, <1>4, WFMin, NatLessThanWellFounded, Zenon
<1>6. m \in 0 .. n /\ ~Found(f[m], items, kinds, m)
  OBVIOUS
<1>7. \A l \in 0 .. n : l < m => Found(f[l], items, kinds, l)
  <2> SUFFICES ASSUME NEW l \in 0 .. n, l < m, ~Found(f[l], items, kinds, l)
               PROVE  FALSE
    OBVIOUS
  <2>1. l \in lost /\ l \in Nat /\ m \in Nat
    BY <1>1
  <2>2. <<l, m>> \in OpToRel(<, Nat)
    BY <2>1 DEF OpToRel
  <2> QED
    BY <1>5, <2>1, <2>2
<1>8. CASE m = 0
  <2>1. /\ f[0].pages = <<>> /\ f[0].indexs = <<>>
        /\ <<>> \in Seq(Nat)
    BY <1>2 DEF Nothing
  <2>2. Found(f[0], items, kinds, 0)
    BY <2>1 DEF Found
  <2> QED
    BY <1>6, <1>8, <2>2
<1>9. CASE m # 0
  <2> DEFINE k == m - 1
  <2>1. k \in Nat /\ k \in 0 .. n /\ k < m /\ k + 1 = m /\ k + 1 \in 1 .. n
    BY <1>1, <1>6, <1>9
  <2>2. Found(f[k], items, kinds, k)
    BY <1>7, <2>1
  <2>3. f[m] = Turn(f[k], items[m], kinds)
    BY <1>2, <2>1
  <2> HIDE DEF k
  <2>4. Found(Turn(f[k], items[k + 1], kinds), items, kinds, k + 1)
    BY <2>1, <2>2, TurnFinds
  <2> QED
    BY <1>6, <2>1, <2>3, <2>4
<1> QED
  BY <1>8, <1>9

-----------------------------------------------------------------------------
(* Taps *)

BrowserInv == TypeOK /\ OpensOnTheTapped

LEMMA BrowserInitially == Init => BrowserInv
<1> SUFFICES ASSUME Init PROVE BrowserInv
  OBVIOUS
<1>1. dataSource \in Seq(Message) /\ Len(dataSource) = 0
  BY EmptySeq DEF Init
<1>2. TypeOK
  BY <1>1, MediaBrowserAssumption DEF Init, TypeOK
<1>3. OpensOnTheTapped
  BY DEF Init, OpensOnTheTapped, Closed
<1> QED
  BY <1>2, <1>3 DEF BrowserInv

LEMMA tapKeeps ==
  ASSUME BrowserInv, NEW row \in DOMAIN dataSource, NEW kinds, tap(row, kinds)
  PROVE  BrowserInv'
<1> DEFINE data == BrowserData(dataSource, kinds)
<1>1. dataSource \in Seq(Message) /\ row \in 1 .. Len(dataSource)
  BY DEF BrowserInv, TypeOK
<1>2. Found(data, dataSource, kinds, Len(dataSource))
  BY <1>1, BrowserDataFinds
<1>3. /\ dataSource[row].msgType \in kinds
      /\ browser'.pages = data.pages
      /\ browser'.currentPage = data.indexs[row] - 1
      /\ browser'.tapped = dataSource[row].stamp
      /\ UNCHANGED <<dataSource, shown, stamps>>
  BY Zenon DEF tap
<1> HIDE DEF data
<1>4. /\ data.indexs[row] \in 1 .. Len(data.pages) /\ Len(data.pages) \in Nat
      /\ data.pages[data.indexs[row]] = dataSource[row].stamp
  <2>1. data.pages \in Seq(Nat)
    BY <1>2 DEF Found
  <2>2. /\ data.indexs[row] \in 1 .. Len(data.pages)
        /\ data.pages[data.indexs[row]] = dataSource[row].stamp
    BY <1>1, <1>2, <1>3, Zenon DEF Found
  <2> QED
    BY <2>1, <2>2
<1>5. browser'.currentPage \in 0 .. Len(browser'.pages) - 1
  BY <1>3, <1>4
<1>6. browser'.pages[browser'.currentPage + 1] = browser'.tapped
  <2>1. (data.indexs[row] - 1) + 1 = data.indexs[row]
    BY <1>4
  <2> QED
    BY <1>3, <1>4, <2>1
<1> QED
  BY <1>3, <1>5, <1>6 DEF BrowserInv, TypeOK, OpensOnTheTapped

LEMMA closeKeeps ==
  ASSUME BrowserInv, close
  PROVE  BrowserInv'
BY DEF BrowserInv, TypeOK, OpensOnTheTapped, close, Closed

LEMMA reloadChatDataKeeps ==
  ASSUME BrowserInv, NEW msgType \in {"text"} \cup Images \cup Videos,
         reloadChatData(msgType)
  PROVE  BrowserInv'
<1> DEFINE model == [msgType |-> msgType, stamp |-> stamps']
<1>1. /\ stamps \in 0 .. MaxItems /\ stamps < MaxItems /\ stamps' = stamps + 1
      /\ dataSource \in Seq(Message) /\ dataSource' = Append(dataSource, model)
      /\ shown \in 0 .. Len(dataSource)
      /\ UNCHANGED <<shown, browser>>
  BY DEF BrowserInv, TypeOK, reloadChatData
<1>2. stamps' \in 0 .. MaxItems /\ stamps' \in Nat
  BY <1>1, MediaBrowserAssumption
<1>3. model \in Message
  BY <1>2 DEF Message
<1> HIDE DEF model
<1>4. dataSource' \in Seq(Message) /\ Len(dataSource') = Len(dataSource) + 1
  BY <1>1, <1>3, AppendProperties
<1>5. shown' \in 0 .. Len(dataSource')
  BY <1>1, <1>4
<1> QED
  BY <1>1, <1>2, <1>4, <1>5 DEF BrowserInv, TypeOK, OpensOnTheTapped

LEMMA reloadTableKeeps ==
  ASSUME BrowserInv, reloadTable
  PROVE  BrowserInv'
BY DEF BrowserInv, TypeOK, OpensOnTheTapped, reloadTable

LEMMA didMenuDeleteKeeps ==
  ASSUME BrowserInv, NEW row \in DOMAIN dataSource, didMenuDelete(row)
  PROVE  BrowserInv'
<1> DEFINE n == Len(dataSource)
           before == SubSeq(dataSource, 1, row - 1)
           after  == SubSeq(dataSource, row + 1, n)
<1>1. /\ dataSource \in Seq(Message) /\ n \in Nat /\ row \in 1 .. n
      /\ browser = Closed /\ browser' = Closed /\ shown = n /\ shown' = n - 1
      /\ stamps' = stamps
      /\ dataSource' = before \o after
  BY DEF BrowserInv, TypeOK, didMenuDelete, RemoveAt
<1>2. /\ before \in Seq(Message) /\ Len(before) = row - 1
      /\ after \in Seq(Message) /\ Len(after) = n - row
  BY <1>1
<1> HIDE DEF before, after
<1>3. dataSource' \in Seq(Message) /\ Len(dataSource') = n - 1
  BY <1>1, <1>2, ConcatProperties
<1>4. shown' \in 0 .. Len(dataSource')
  BY <1>1, <1>3
<1> QED
  BY <1>1, <1>3, <1>4 DEF BrowserInv, TypeOK, OpensOnTheTapped, Closed

LEMMA BrowserStep ==
  ASSUME BrowserInv, [Next]_vars
  PROVE  BrowserInv'
<1>1. CASE \E row \in DOMAIN dataSource : tap(row, Images) \/ tap(row, Videos)
  BY <1>1, tapKeeps
<1>2. CASE \E row \in DOMAIN dataSource : didMenuDelete(row)
  BY <1>2, didMenuDeleteKeeps
<1>3. CASE \E msgType \in {"text"} \cup Images \cup Videos : reloadChatData(msgType)
  BY <1>3, reloadChatDataKeeps
<1>4. CASE reloadTable
  BY <1>4, reloadTableKeeps
<1>5. CASE close
  BY <1>5, closeKeeps
<1>6. CASE UNCHANGED vars
  BY <1>6 DEF vars, BrowserInv, TypeOK, OpensOnTheTapped
<1> QED
  BY <1>1, <1>2, <1>3, <1>4, <1>5, <1>6 DEF Next

LEMMA BrowserAlways == Spec => []BrowserInv
BY BrowserInitially, BrowserStep, PTL DEF Spec

(* An open browser opens on one of its pages: no index is 0, so currentPage *)
(* is never -1, however far the room has grown past the table.             *)
THEOREM BrowserOpensOnAPage == Spec => []TypeOK
<1>1. BrowserInv => TypeOK
  BY DEF BrowserInv
<1> QED
  BY <1>1, BrowserAlways, PTL

(* and the page is the message that was tapped *)
THEOREM BrowserOpensOnTheTapped == Spec => []OpensOnTheTapped
<1>1. BrowserInv => OpensOnTheTapped
  BY DEF BrowserInv
<1> QED
  BY <1>1, BrowserAlways, PTL

=============================================================================
