------------------------------ MODULE Composer ------------------------------
(***************************************************************************)
(* The composer of one tab: the draft of every chat in localStorage, the      *)
(* staged attachment, the edit buffer and the action sheet of the open chat,   *)
(* what was submitted and became of it, and the reload of an updated app that  *)
(* waits for it (ChatView, MessageActions, routes/chat, useDraft,              *)
(* useComposeAttachment, useChatSend, useChatAmendments, useSWUpdate).         *)
(*                                                                         *)
(* A text or a file is the chat for which it was typed or picked.  The chat   *)
(* page is mounted when a chat is opened from the list and kept when the       *)
(* browser's history jumps from one chat to another: the route is the same.    *)
(***************************************************************************)
EXTENDS Naturals, Sequences, FiniteSets

CONSTANTS
  Chats,
  NoChat,           \* the list of chats, no text, no file
  MaxSubmissions,   \* bound: messages and amendments submitted
  MaxPages,         \* bound: mounts of the chat page
  StrayMoves        \* may the user do what the code loses or misdirects? see Tidy

ASSUME ComposerAssumption ==
  /\ NoChat \notin Chats
  /\ {MaxSubmissions, MaxPages} \subseteq Nat
  /\ StrayMoves \in BOOLEAN

VARIABLES
  cChat,     \* the chat on screen
  cDraft,    \* localStorage: the draft of every chat
  cBox,      \* the page's state: the composer's text, the tray, the edit, the sheet
  cSub,      \* what was submitted, in order, its page and its fate
  cPage,     \* which mount of the page is the present one
  cHeld,     \* the app's chatSending, which holds back the reload
  cUpdate,   \* needRefresh
  cOnline

cVars == <<cChat, cDraft, cBox, cSub, cPage, cHeld, cUpdate, cOnline>>

Submissions == DOMAIN cSub
SubKinds    == {"text", "media", "edit", "delete"}
InFlight(i) == cSub[i].fate = "flight"

\* `from` are the chats its text and file were made for; `msg` what it amends.
Submission == [kind : SubKinds, to : Chats, msg : Nat, from : SUBSET Chats, page : Nat,
               fate : {"flight", "sent", "alert", "dropped", "cut"}]

PageBoxes    == [input : Chats \cup {NoChat}, tray : Chats \cup {NoChat},
             edit : [msg : Nat, filled : BOOLEAN], sheet : [msg : Nat, confirming : BOOLEAN]]
NoSheet  == [msg |-> 0, confirming |-> FALSE]
NoEdit   == [msg |-> 0, filled |-> FALSE]
EmptyBox == [input |-> NoChat, tray |-> NoChat, edit |-> NoEdit, sheet |-> NoSheet]

ComposerTypeOK ==
  /\ cChat \in Chats \cup {NoChat}
  /\ cDraft \in [Chats -> Chats \cup {NoChat}]
  /\ cBox \in PageBoxes
  /\ {cBox.edit.msg, cBox.sheet.msg} \subseteq Submissions \cup {0}
  /\ cChat = NoChat => cBox = EmptyBox
  /\ cSub \in Seq(Submission)
  /\ cPage \in 0..MaxPages
  /\ cHeld \in BOOLEAN /\ cUpdate \in BOOLEAN /\ cOnline \in BOOLEAN

ComposerInit ==
  /\ cChat = NoChat /\ cDraft = [c \in Chats |-> NoChat] /\ cBox = EmptyBox
  /\ cSub = <<>> /\ cPage = 0
  /\ cHeld = FALSE /\ cUpdate = FALSE /\ cOnline = TRUE

\* `sending` and `busy` of the present page: its own requests only.
Running(kinds) == \E i \in Submissions : InFlight(i) /\ cSub[i].kind \in kinds /\ cSub[i].page = cPage
Sending == Running({"text", "media"})
Busy    == Running({"edit", "delete"})

Editing        == cBox.edit.msg # 0
SheetShows     == cBox.sheet.msg # 0 /\ cSub[cBox.sheet.msg].to = cChat
InputsDisabled == Sending \/ ~cOnline
Box(b)         == cBox' = b
OnlyBox        == UNCHANGED <<cChat, cDraft, cSub, cPage, cHeld, cUpdate, cOnline>>

\* What the user is assumed not to do unless StrayMoves.
Tidy(P) == StrayMoves \/ P

-----------------------------------------------------------------------------
(* The page.                                                               *)

\* A slip: the text on screen is kept when the chat changes.
StillTyped(c) == cBox.input

\* useDraft: the text of the chat that is shown comes from localStorage.
LoadDraft(c) == cDraft[c]

\* Mounting reports `sending` of the new page to the app; a send of an earlier page
\* that still runs is none of it.
OpenFromList(c) ==
  /\ cChat = NoChat /\ cPage < MaxPages
  /\ Tidy(\A i \in Submissions : ~InFlight(i))
  /\ cChat' = c /\ cPage' = cPage + 1
  /\ Box([EmptyBox EXCEPT !.input = LoadDraft(c)])
  /\ cHeld' = FALSE
  /\ UNCHANGED <<cDraft, cSub, cUpdate, cOnline>>

\* The page is unmounted: nothing resets the app's chatSending.
LeaveChat ==
  /\ cChat # NoChat
  /\ cChat' = NoChat /\ Box(EmptyBox)
  /\ UNCHANGED <<cDraft, cSub, cPage, cHeld, cUpdate, cOnline>>

\* Only the text follows the chat: the tray, the edit and the sheet stay.
JumpToChat(c) ==
  /\ cChat \notin {NoChat, c}
  /\ Tidy(cBox.tray = NoChat /\ cBox.edit = NoEdit /\ cBox.sheet = NoSheet)
  /\ cChat' = c /\ Box([cBox EXCEPT !.input = LoadDraft(c)])
  /\ UNCHANGED <<cDraft, cSub, cPage, cHeld, cUpdate, cOnline>>

-----------------------------------------------------------------------------
(* Composing.                                                              *)

\* useDraft.setValue: '' removes the stored draft.
SetInput(text) ==
  /\ Box([cBox EXCEPT !.input = text])
  /\ cDraft' = [cDraft EXCEPT ![cChat] = text]

\* What is typed continues the text on screen.
Type ==
  /\ cChat # NoChat /\ ~Editing
  /\ SetInput(IF cBox.input = NoChat THEN cChat ELSE cBox.input)
  /\ UNCHANGED <<cChat, cSub, cPage, cHeld, cUpdate, cOnline>>

Erase ==
  /\ cChat # NoChat /\ ~Editing
  /\ SetInput(NoChat)
  /\ UNCHANGED <<cChat, cSub, cPage, cHeld, cUpdate, cOnline>>

\* From the picker, by paste or by drop; the last one replaces the others.
Attach ==
  /\ cChat # NoChat /\ ~Editing
  /\ Box([cBox EXCEPT !.tray = cChat])
  /\ OnlyBox

RemoveAttachment ==
  /\ cBox.tray # NoChat /\ ~Editing
  /\ Box([cBox EXCEPT !.tray = NoChat])
  /\ OnlyBox

-----------------------------------------------------------------------------
(* Submitting.                                                             *)

Submitted(kind, target, from, fate) ==
  Append(cSub, [kind |-> kind, to |-> cChat, msg |-> target, from |-> from,
                page |-> cPage, fate |-> fate])

\* The text and the file leave the composer at once, whatever becomes of the send.
\* The file wins; the text is then its caption.
SubmitMessage ==
  /\ cChat # NoChat /\ ~Editing /\ ~InputsDisabled
  /\ cBox.input # NoChat \/ cBox.tray # NoChat
  /\ Len(cSub) < MaxSubmissions
  /\ cSub' = Submitted(IF cBox.tray # NoChat THEN "media" ELSE "text", 0,
                       {cBox.input, cBox.tray} \ {NoChat}, "flight")
  /\ Box([cBox EXCEPT !.input = NoChat, !.tray = NoChat])
  /\ cDraft' = [cDraft EXCEPT ![cChat] = NoChat]
  /\ cHeld' = TRUE
  /\ UNCHANGED <<cChat, cPage, cUpdate, cOnline>>

\* amend: returns without a word while another amendment runs, or offline.
Amended(kind, target) ==
  Submitted(kind, target, {cSub[target].to}, IF Busy \/ ~cOnline THEN "dropped" ELSE "flight")

CommitEdit ==
  /\ Editing /\ cBox.edit.filled /\ ~InputsDisabled
  /\ Tidy(~Busy)
  /\ Len(cSub) < MaxSubmissions
  /\ cSub' = Amended("edit", cBox.edit.msg)
  /\ Box([cBox EXCEPT !.edit = NoEdit])
  /\ UNCHANGED <<cChat, cDraft, cPage, cHeld, cUpdate, cOnline>>

ConfirmDelete ==
  /\ SheetShows /\ cBox.sheet.confirming
  /\ Tidy(~Busy /\ cOnline)
  /\ Len(cSub) < MaxSubmissions
  /\ cSub' = Amended("delete", cBox.sheet.msg)
  /\ Box([cBox EXCEPT !.sheet = NoSheet])
  /\ UNCHANGED <<cChat, cDraft, cPage, cHeld, cUpdate, cOnline>>

-----------------------------------------------------------------------------
(* The action sheet of an own message, and its edit.                       *)

\* The bubbles of the chat on screen that are the user's and not deleted.
Amendable ==
  {i \in Submissions : /\ cSub[i].kind \in {"text", "media"} /\ cSub[i].fate = "sent"
                       /\ cSub[i].to = cChat
                       /\ \A j \in Submissions : cSub[j].kind = "delete" /\ cSub[j].msg = i
                                                   => cSub[j].fate # "sent"}
\* The confirm step of a sheet that a jump took off the screen is still there.
OpenActions(i) ==
  /\ ~SheetShows /\ i \in Amendable
  /\ Box([cBox EXCEPT !.sheet.msg = i])
  /\ OnlyBox

AskDelete ==
  /\ SheetShows
  /\ \E ask \in BOOLEAN : Box([cBox EXCEPT !.sheet.confirming = ask])
  /\ OnlyBox

CloseActions ==
  /\ SheetShows
  /\ Box([cBox EXCEPT !.sheet = NoSheet])
  /\ OnlyBox

\* The buffer starts as the message's text; the draft is kept beside it.
StartEdit ==
  /\ SheetShows /\ ~cBox.sheet.confirming
  /\ Box([cBox EXCEPT !.edit = [msg |-> cBox.sheet.msg, filled |-> TRUE], !.sheet = NoSheet])
  /\ OnlyBox

TypeEdit ==
  /\ Editing
  /\ \E filled \in BOOLEAN : Box([cBox EXCEPT !.edit.filled = filled])
  /\ OnlyBox

CancelEdit ==
  /\ Editing
  /\ Box([cBox EXCEPT !.edit = NoEdit])
  /\ OnlyBox

-----------------------------------------------------------------------------
(* What becomes of it.                                                     *)

\* The end of sendText, sendMedia or amend: `finally` clears the flag of its own
\* page, and the effect of a page that is still mounted tells the app.
Ends(i, fate) ==
  /\ InFlight(i)
  /\ cSub' = [cSub EXCEPT ![i].fate = fate]
  /\ cHeld' = (cHeld /\ ~(cChat # NoChat /\ cSub[i].page = cPage /\ cSub[i].kind \in {"text", "media"}))
  /\ UNCHANGED <<cChat, cDraft, cBox, cPage, cUpdate, cOnline>>

\* A message that is gone, too large, for nobody, or refused: an alert says so.
Land(i) == Ends(i, "sent")
Fail(i) == Ends(i, "alert")

Connection ==
  /\ cOnline' = ~cOnline
  /\ UNCHANGED <<cChat, cDraft, cBox, cSub, cPage, cHeld, cUpdate>>

-----------------------------------------------------------------------------
(* The update of the app.                                                  *)

\* A new service worker waits, or the user dismisses the toast.
UpdateWaits ==
  /\ cUpdate' = ~cUpdate
  /\ UNCHANGED <<cChat, cDraft, cBox, cSub, cPage, cHeld, cOnline>>

\* A slip: the drafts alone hold back the reload.
DraftsOnly == \A c \in Chats : cDraft[c] = NoChat

\* The effect waits for the sends and the drafts; the toast, which a lost connection
\* hides, for the sends only.
MayReload == ~cHeld /\ (cOnline \/ \A c \in Chats : cDraft[c] = NoChat)

\* The page starts again at its address, and what was in flight is cut.
Reload ==
  /\ cUpdate /\ cPage < MaxPages
  /\ MayReload
  /\ Tidy(\A i \in Submissions : InFlight(i) => cSub[i].kind \in {"text", "media"})
  /\ cUpdate' = FALSE /\ cHeld' = FALSE
  /\ cPage' = IF cChat = NoChat THEN cPage ELSE cPage + 1
  /\ Box(IF cChat = NoChat THEN EmptyBox ELSE [EmptyBox EXCEPT !.input = LoadDraft(cChat)])
  /\ cSub' = [i \in Submissions |-> IF InFlight(i) THEN [cSub[i] EXCEPT !.fate = "cut"] ELSE cSub[i]]
  /\ UNCHANGED <<cChat, cDraft, cOnline>>

ComposerNext ==
  \/ \E c \in Chats : OpenFromList(c) \/ JumpToChat(c)
  \/ LeaveChat
  \/ Type \/ Erase \/ Attach \/ RemoveAttachment
  \/ SubmitMessage \/ CommitEdit \/ ConfirmDelete
  \/ \E i \in Submissions : OpenActions(i) \/ Land(i) \/ Fail(i)
  \/ AskDelete \/ CloseActions
  \/ StartEdit \/ TypeEdit \/ CancelEdit
  \/ Connection \/ UpdateWaits \/ Reload

ComposerSpec == ComposerInit /\ [][ComposerNext]_cVars

-----------------------------------------------------------------------------
(* Whatever jumps, reloads and lost connections come between, what the user   *)
(* submits goes to the chat it was composed for, and it arrives or an alert    *)
(* says that it did not: no early return swallows it and no reload cuts it.    *)
SentAsComposed == \A i \in Submissions :
  cSub[i].from = {cSub[i].to} /\ cSub[i].fate \in {"flight", "sent", "alert"}

-----------------------------------------------------------------------------
(* What makes it so, without stray moves: the page holds nothing of another   *)
(* chat, and the app knows of the one send that may be in flight.            *)
HereComposed ==
  /\ \A c \in Chats : cDraft[c] \in {NoChat, c}
  /\ {cBox.input, cBox.tray} \subseteq {NoChat, cChat}
  /\ \A i \in {cBox.edit.msg, cBox.sheet.msg} \ {0} : cSub[i].to = cChat

SendIsHeld == \A i \in Submissions : InFlight(i) =>
  /\ cSub[i].page = cPage
  /\ cSub[i].kind \in {"text", "media"} =>
       /\ cHeld
       /\ \A j \in Submissions : InFlight(j) /\ cSub[j].kind \in {"text", "media"} => j = i

ComposerInv ==
  /\ ComposerTypeOK
  /\ HereComposed
  /\ SendIsHeld
  /\ SentAsComposed
=============================================================================
