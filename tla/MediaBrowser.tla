---------------------------- MODULE MediaBrowser ----------------------------
(***************************************************************************)
(* Opening the image and video browser of a chat room: the view model turns *)
(* the room's messages into the browser's pages, and the row of the tapped *)
(* cell into the page to open.                                             *)
(*                                                                         *)
(* The row is counted in what the table shows and looked up in what the    *)
(* view model holds, which has grown by the messages whose reload is still *)
(* on the main queue.  A message is its type and a stamp; pages are the    *)
(* messages they come from, numbered from 0 as in the code.                *)
(***************************************************************************)
EXTENDS Integers, Sequences, SequencesExt

CONSTANT MaxItems   \* bound: messages ever put into the room

ASSUME MediaBrowserAssumption == MaxItems \in Nat

VARIABLES
  dataSource,   \* viewModel.dataSource: the room's messages
  shown,        \* how many of them the table shows, a prefix
  stamps,       \* messages ever put into the room
  browser       \* the browser over the room: its pages, its page, the tap

vars == <<dataSource, shown, stamps, browser>>

Images == {"image"}
Videos == {"netVideo", "localVideo"}

Message == [msgType: {"text"} \cup Images \cup Videos, stamp: Nat]

Closed == [pages |-> <<>>, currentPage |-> 0, tapped |-> 0]

-----------------------------------------------------------------------------
Nothing == [pages |-> <<>>, indexs |-> <<>>]

(* Mutant: the index is noted before the page is counted *)
TurnNotedFirst(made, model, kinds) ==
  [pages  |-> IF model.msgType \in kinds THEN Append(made.pages, model.stamp)
                                         ELSE made.pages,
   indexs |-> Append(made.indexs, Len(made.pages))]

(* One turn of the loops of makeBrowserImagesData and makeBrowserVideosData: *)
(* a page per message of the kind, and for every row the pages up to it.   *)
Turn(made, model, kinds) ==
  LET pages == IF model.msgType \in kinds THEN Append(made.pages, model.stamp)
                                          ELSE made.pages
  IN  [pages |-> pages, indexs |-> Append(made.indexs, Len(pages))]

BrowserData(items, kinds) ==
  LET made[k \in 0 .. Len(items)] ==
        IF k = 0 THEN Nothing ELSE Turn(made[k - 1], items[k], kinds)
  IN  made[Len(items)]

(* didTapPictureAt, didTapVideoAt, browserWithData *)
tap(row, kinds) ==
  /\ browser = Closed
  /\ row <= shown /\ dataSource[row].msgType \in kinds
  /\ LET data == BrowserData(dataSource, kinds)
     IN  browser' = [pages       |-> data.pages,
                     currentPage |-> data.indexs[row] - 1,
                     tapped      |-> dataSource[row].stamp]
  /\ UNCHANGED <<dataSource, shown, stamps>>

close ==
  /\ browser # Closed /\ browser' = Closed
  /\ UNCHANGED <<dataSource, shown, stamps>>

-----------------------------------------------------------------------------
(* The room, as far as its rows go *)

reloadChatData(msgType) ==
  /\ stamps < MaxItems /\ stamps' = stamps + 1
  /\ dataSource' = Append(dataSource, [msgType |-> msgType, stamp |-> stamps'])
  /\ UNCHANGED <<shown, browser>>

reloadTable ==
  /\ shown < Len(dataSource) /\ shown' = Len(dataSource)
  /\ UNCHANGED <<dataSource, stamps, browser>>

(* 删除, once the writes are done: the rows are read again and shown *)
didMenuDelete(row) ==
  /\ browser = Closed /\ shown = Len(dataSource)
  /\ dataSource' = RemoveAt(dataSource, row)
  /\ shown' = shown - 1
  /\ UNCHANGED <<stamps, browser>>

Init ==
  dataSource = <<>> /\ shown = 0 /\ stamps = 0 /\ browser = Closed

Next ==
  \/ \E row \in DOMAIN dataSource : tap(row, Images) \/ tap(row, Videos)
  \/ \E row \in DOMAIN dataSource : didMenuDelete(row)
  \/ \E msgType \in {"text"} \cup Images \cup Videos : reloadChatData(msgType)
  \/ reloadTable \/ close

Spec == Init /\ [][Next]_vars

-----------------------------------------------------------------------------
(* Properties *)

(* Types; an open browser opens on one of its pages.  BrowserData counts    *)
(* pages from 1 and currentPage from 0, so an index of 0 would be -1.      *)
TypeOK ==
  /\ dataSource \in Seq(Message)
  /\ shown \in 0 .. Len(dataSource)
  /\ stamps \in 0 .. MaxItems
  /\ browser # Closed => browser.currentPage \in 0 .. Len(browser.pages) - 1

(* The browser opens on the message that was tapped, among images and       *)
(* videos that have come and gone, and while more are on their way.        *)
OpensOnTheTapped ==
  browser.currentPage + 1 \in DOMAIN browser.pages =>
    browser.pages[browser.currentPage + 1] = browser.tapped

=============================================================================
