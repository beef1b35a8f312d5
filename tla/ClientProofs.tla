---------------------------- MODULE ClientProofs -----------------------------
(***************************************************************************)
(* Proofs about the parts of Client other than the Megolm sessions.          *)
(***************************************************************************)
EXTENDS Client, SessionsProofs, OrderLemmas, SequenceTheorems, FiniteSetTheorems, TLAPS


-----------------------------------------------------------------------------
(* The composer.                                                            *)

\* A box that holds nothing of another chat than the one on screen.
BoxIsHere(b) ==
  /\ b \in PageBoxes
  /\ {b.input, b.tray} \subseteq {NoChat, cChat}
  /\ \A i \in {b.edit.msg, b.sheet.msg} \ {0} : i \in Submissions /\ cSub[i].to = cChat

LEMMA TheBoxIsHere == ComposerInv => BoxIsHere(cBox)
BY DEF ComposerInv, ComposerTypeOK, HereComposed, BoxIsHere, PageBoxes

LEMMA EmptyIsHere == BoxIsHere(EmptyBox)
BY DEF BoxIsHere, EmptyBox, NoEdit, NoSheet, PageBoxes

\* The text that comes with a chat is that chat's.
LEMMA DraftIsHere ==
  ASSUME ComposerInv, NEW c \in Chats
  PROVE  LoadDraft(c) \in {NoChat, c}
BY DEF LoadDraft, ComposerInv, HereComposed

LEMMA SubmissionsAreTyped ==
  ASSUME ComposerInv
  PROVE  /\ Submissions = 1 .. Len(cSub) /\ Len(cSub) \in Nat
         /\ \A i \in Submissions : cSub[i] \in Submission
BY LenProperties DEF ComposerInv, ComposerTypeOK, Submissions

\* A submission leaves the others as they are.
LEMMA AppendSubmission ==
  ASSUME ComposerInv, NEW s \in Submission, cSub' = Append(cSub, s)
  PROVE  /\ cSub' \in Seq(Submission)
         /\ Submissions' = Submissions \cup {Len(cSub) + 1} /\ Len(cSub) + 1 \notin Submissions
         /\ cSub'[Len(cSub) + 1] = s
         /\ \A i \in Submissions : cSub'[i] = cSub[i]
<1>1. cSub \in Seq(Submission)
  BY DEF ComposerInv, ComposerTypeOK
<1>2. /\ cSub' \in Seq(Submission) /\ Len(cSub') = Len(cSub) + 1
      /\ \A i \in 1 .. Len(cSub) : cSub'[i] = cSub[i]
      /\ cSub'[Len(cSub) + 1] = s
  BY <1>1, AppendProperties
<1>3. /\ Submissions = 1 .. Len(cSub) /\ Submissions' = 1 .. Len(cSub') /\ Len(cSub) \in Nat
  BY <1>1, <1>2, LenProperties DEF Submissions
<1>. QED  BY <1>2, <1>3

LEMMA ComposerInvInit == ComposerInit => ComposerInv
<1>. SUFFICES ASSUME ComposerInit PROVE ComposerInv
  OBVIOUS
<1>. USE DEF ComposerInit
<1>1. Submissions = {} /\ cSub \in Seq(Submission)
  BY EmptySeq DEF Submissions
<1>2. cBox \in PageBoxes /\ cBox.edit.msg = 0 /\ cBox.sheet.msg = 0 /\ cBox.input = NoChat /\ cBox.tray = NoChat
  BY DEF EmptyBox, NoEdit, NoSheet, PageBoxes
<1>3. ComposerTypeOK
  <2>1. MaxPages \in Nat
    BY ComposerAssumption
  <2>2. cPage \in 0 .. MaxPages /\ cDraft \in [Chats -> Chats \cup {NoChat}]
    BY <2>1
  <2>3. {cBox.edit.msg, cBox.sheet.msg} \subseteq Submissions \cup {0}
    BY <1>2
  <2>. QED  BY <1>1, <1>2, <2>2, <2>3 DEF ComposerTypeOK
<1>4. HereComposed /\ SendIsHeld /\ SentAsComposed
  BY <1>1, <1>2 DEF HereComposed, SendIsHeld, SentAsComposed
<1>. QED  BY <1>3, <1>4 DEF ComposerInv

-----------------------------------------------------------------------------
(* What changes on the page only.                                          *)

LEMMA BoxKeeps ==
  ASSUME ComposerInv, cChat # NoChat, BoxIsHere(cBox'), OnlyBox
  PROVE  ComposerInv'
<1>. USE DEF ComposerInv
<1>1. UNCHANGED <<cChat, cDraft, cSub, cPage, cHeld, cUpdate, cOnline>>
  BY DEF OnlyBox
<1>2. ComposerTypeOK'
  <2>1. cBox' \in PageBoxes /\ {cBox'.edit.msg, cBox'.sheet.msg} \subseteq Submissions \cup {0}
    BY DEF BoxIsHere
  <2>. QED  BY <1>1, <2>1 DEF ComposerTypeOK, Submissions
<1>3. HereComposed'
  BY <1>1 DEF HereComposed, BoxIsHere
<1>4. SendIsHeld' /\ SentAsComposed'
  BY <1>1 DEF SendIsHeld, SentAsComposed, Submissions, InFlight
<1>. QED  BY <1>2, <1>3, <1>4

LEMMA AttachKeeps == ASSUME ComposerInv, Attach \/ RemoveAttachment PROVE ComposerInv'
<1>1. PICK f \in {NoChat, cChat} : cBox' = [cBox EXCEPT !.tray = f]
  BY DEF Attach, RemoveAttachment, Box
<1>2. cChat \in Chats /\ OnlyBox
  BY DEF Attach, RemoveAttachment, ComposerInv, ComposerTypeOK, EmptyBox
<1>3. BoxIsHere(cBox')
  BY <1>1, <1>2, TheBoxIsHere DEF BoxIsHere, PageBoxes
<1>. QED  BY <1>2, <1>3, BoxKeeps, ComposerAssumption

LEMMA SheetKeeps ==
  ASSUME ComposerInv, AskDelete \/ CloseActions \/ \E i \in Submissions : OpenActions(i)
  PROVE  ComposerInv'
<1>. DEFINE Sheets == [msg : Nat, confirming : BOOLEAN]
            Fits(s) == s \in Sheets /\ (s.msg # 0 => s.msg \in Submissions /\ cSub[s.msg].to = cChat)
<1>1. \E s : Fits(s) /\ cBox' = [cBox EXCEPT !.sheet = s]
  <2>1. Fits(cBox.sheet)
    BY TheBoxIsHere DEF BoxIsHere, PageBoxes
  <2>2. CASE AskDelete
    <3>1. PICK ask \in BOOLEAN : cBox' = [cBox EXCEPT !.sheet.confirming = ask]
      BY <2>2 DEF AskDelete, Box
    <3>2. Fits([cBox.sheet EXCEPT !.confirming = ask])
      BY <2>1
    <3>. HIDE DEF Fits
    <3>. QED  BY <3>1, <3>2
  <2>3. CASE CloseActions
    <3>1. Fits(NoSheet)
      BY DEF NoSheet
    <3>. HIDE DEF Fits
    <3>. QED  BY <2>3, <3>1 DEF CloseActions, Box
  <2>4. ASSUME NEW i \in Submissions, OpenActions(i)
        PROVE  \E s : Fits(s) /\ cBox' = [cBox EXCEPT !.sheet = s]
    <3>1. cBox' = [cBox EXCEPT !.sheet.msg = i] /\ cSub[i].to = cChat
      BY <2>4 DEF OpenActions, Box, Amendable
    <3>2. Fits([cBox.sheet EXCEPT !.msg = i])
      BY <2>1, <3>1, SubmissionsAreTyped
    <3>. HIDE DEF Fits
    <3>. QED  BY <3>1, <3>2
  <2>. HIDE DEF Fits
  <2>. QED  BY <2>2, <2>3, <2>4
<1>2. BoxIsHere(cBox')
  BY <1>1, TheBoxIsHere DEF BoxIsHere, PageBoxes
<1>3. cChat # NoChat
  <2>1. CASE SheetShows
    BY <2>1 DEF SheetShows, ComposerInv, ComposerTypeOK, EmptyBox, NoSheet
  <2>2. ASSUME NEW i \in Submissions, OpenActions(i) PROVE cChat # NoChat
    BY <2>2, SubmissionsAreTyped, ComposerAssumption DEF OpenActions, Amendable, Submission
  <2>. QED  BY <2>1, <2>2 DEF AskDelete, CloseActions
<1>4. OnlyBox
  BY DEF AskDelete, CloseActions, OpenActions
<1>. QED  BY <1>2, <1>3, <1>4, BoxKeeps

LEMMA EditKeeps == ASSUME ComposerInv, StartEdit \/ TypeEdit \/ CancelEdit PROVE ComposerInv'
<1>1. /\ cChat # NoChat /\ OnlyBox
  BY DEF StartEdit, TypeEdit, CancelEdit, SheetShows, Editing, ComposerInv, ComposerTypeOK,
         EmptyBox, NoSheet, NoEdit
<1>2. BoxIsHere(cBox)
  BY TheBoxIsHere
<1>3. BoxIsHere(cBox')
  <2>1. CASE StartEdit
    <3>1. cBox' = [cBox EXCEPT !.edit = [msg |-> cBox.sheet.msg, filled |-> TRUE], !.sheet = NoSheet]
      BY <2>1 DEF StartEdit, Box
    <3>. QED  BY <1>2, <3>1 DEF BoxIsHere, PageBoxes, NoSheet
  <2>2. CASE TypeEdit
    <3>1. PICK filled \in BOOLEAN : cBox' = [cBox EXCEPT !.edit.filled = filled]
      BY <2>2 DEF TypeEdit, Box
    <3>2. cBox' = [cBox EXCEPT !.edit = [cBox.edit EXCEPT !.filled = filled]]
      BY <3>1
    <3>. QED  BY <1>2, <3>2 DEF BoxIsHere, PageBoxes
  <2>3. CASE CancelEdit
    <3>1. cBox' = [cBox EXCEPT !.edit = NoEdit]
      BY <2>3 DEF CancelEdit, Box
    <3>. QED  BY <1>2, <3>1 DEF BoxIsHere, PageBoxes, NoEdit
  <2>. QED  BY <2>1, <2>2, <2>3
<1>. QED  BY <1>1, <1>3, BoxKeeps

-----------------------------------------------------------------------------
(* Opening, leaving and changing the chat, typing, and the reload: what was   *)
(* submitted stays as it is.                                                *)

LEMMA PageKeeps ==
  ASSUME ComposerInv, UNCHANGED cSub,
         cChat' \in Chats \cup {NoChat}, cPage' \in 0 .. MaxPages,
         cHeld' \in BOOLEAN, cUpdate' \in BOOLEAN, cOnline' \in BOOLEAN,
         cDraft' \in [Chats -> Chats \cup {NoChat}],
         \A c \in Chats : cDraft'[c] \in {NoChat, c},
         BoxIsHere(cBox)', cChat' = NoChat => cBox' = EmptyBox, SendIsHeld'
  PROVE  ComposerInv'
<1>. USE DEF ComposerInv
<1>1. /\ cBox' \in PageBoxes /\ {cBox'.edit.msg, cBox'.sheet.msg} \subseteq Submissions' \cup {0}
      /\ HereComposed'
  BY DEF BoxIsHere, HereComposed
<1>2. ComposerTypeOK'
  BY <1>1 DEF ComposerTypeOK
<1>3. SentAsComposed'
  BY DEF SentAsComposed, Submissions
<1>. QED  BY <1>1, <1>2, <1>3

LEMMA ChatKeeps ==
  ASSUME ComposerInv, StrayMoves = FALSE,
         LeaveChat \/ \E c \in Chats : OpenFromList(c) \/ JumpToChat(c)
  PROVE  ComposerInv'
<1>. USE DEF ComposerInv
<1>1. /\ UNCHANGED <<cDraft, cSub, cUpdate, cOnline>>
      /\ \A c \in Chats : cDraft[c] \in {NoChat, c}
      /\ cDraft \in [Chats -> Chats \cup {NoChat}] /\ cUpdate \in BOOLEAN /\ cOnline \in BOOLEAN
      /\ cPage \in 0 .. MaxPages /\ cHeld \in BOOLEAN /\ MaxPages \in Nat
  BY ComposerAssumption DEF LeaveChat, OpenFromList, JumpToChat, HereComposed, ComposerTypeOK
<1>2. CASE LeaveChat
  <2>1. /\ cChat' = NoChat /\ cBox' = EmptyBox /\ UNCHANGED <<cPage, cHeld>>
    BY <1>2 DEF LeaveChat, Box
  <2>2. BoxIsHere(cBox)'
    BY <2>1 DEF BoxIsHere, EmptyBox, NoEdit, NoSheet, PageBoxes
  <2>3. SendIsHeld'
    BY <1>1, <2>1 DEF SendIsHeld, Submissions, InFlight
  <2>. QED  BY <1>1, <2>1, <2>2, <2>3, PageKeeps
<1>3. ASSUME NEW c \in Chats, OpenFromList(c) PROVE ComposerInv'
  <2>1. /\ cChat' = c /\ cPage' = cPage + 1 /\ cPage < MaxPages /\ cHeld' = FALSE
        /\ cBox' = [EmptyBox EXCEPT !.input = LoadDraft(c)]
        /\ \A i \in Submissions : ~InFlight(i)
    BY <1>3 DEF OpenFromList, Box, Tidy
  <2>2. BoxIsHere(cBox)'
    BY <2>1, DraftIsHere DEF BoxIsHere, EmptyBox, NoEdit, NoSheet, PageBoxes
  <2>3. SendIsHeld'
    BY <1>1, <2>1 DEF SendIsHeld, Submissions, InFlight
  <2>4. cPage' \in 0 .. MaxPages /\ cChat' # NoChat
    BY <1>1, <2>1, ComposerAssumption
  <2>. QED  BY <1>1, <2>1, <2>2, <2>3, <2>4, PageKeeps
<1>4. ASSUME NEW c \in Chats, JumpToChat(c) PROVE ComposerInv'
  <2>1. /\ cChat' = c /\ UNCHANGED <<cPage, cHeld>>
        /\ cBox' = [cBox EXCEPT !.input = LoadDraft(c)]
        /\ cBox.tray = NoChat /\ cBox.edit = NoEdit /\ cBox.sheet = NoSheet
    BY <1>4 DEF JumpToChat, Box, Tidy
  <2>2. BoxIsHere(cBox)'
    BY <2>1, DraftIsHere, TheBoxIsHere DEF BoxIsHere, NoEdit, NoSheet, PageBoxes
  <2>3. SendIsHeld'
    BY <1>1, <2>1 DEF SendIsHeld, Submissions, InFlight
  <2>. QED  BY <1>1, <2>1, <2>2, <2>3, PageKeeps, ComposerAssumption
<1>. QED  BY <1>2, <1>3, <1>4

LEMMA TypingKeeps == ASSUME ComposerInv, Type \/ Erase PROVE ComposerInv'
<1>. USE DEF ComposerInv
<1>1. /\ cChat \in Chats
      /\ UNCHANGED <<cChat, cSub, cPage, cHeld, cUpdate, cOnline>>
  BY DEF Type, Erase, ComposerTypeOK
<1>2. PICK text \in {NoChat, cChat} : /\ cBox' = [cBox EXCEPT !.input = text]
                                      /\ cDraft' = [cDraft EXCEPT ![cChat] = text]
  <2>1. cBox.input \in {NoChat, cChat}
    BY DEF HereComposed
  <2>. QED  BY <2>1 DEF Type, Erase, SetInput, Box
<1>3. BoxIsHere(cBox)'
  BY <1>1, <1>2, TheBoxIsHere DEF BoxIsHere, PageBoxes, Submissions
<1>4. /\ cDraft' \in [Chats -> Chats \cup {NoChat}]
      /\ \A c \in Chats : cDraft'[c] \in {NoChat, c}
  BY <1>1, <1>2 DEF ComposerTypeOK, HereComposed
<1>5. SendIsHeld'
  BY <1>1 DEF SendIsHeld, Submissions, InFlight
<1>6. /\ cPage \in 0 .. MaxPages /\ cHeld \in BOOLEAN /\ cUpdate \in BOOLEAN /\ cOnline \in BOOLEAN
  BY DEF ComposerTypeOK
<1>. QED  BY <1>1, <1>3, <1>4, <1>5, <1>6, PageKeeps, ComposerAssumption

LEMMA ToggleKeeps == ASSUME ComposerInv, Connection \/ UpdateWaits PROVE ComposerInv'
<1>. USE DEF ComposerInv
<1>1. UNCHANGED <<cChat, cDraft, cBox, cSub, cPage, cHeld>>
  BY DEF Connection, UpdateWaits
<1>2. cOnline' \in BOOLEAN /\ cUpdate' \in BOOLEAN
  BY DEF Connection, UpdateWaits, ComposerTypeOK
<1>3. ComposerTypeOK'
  BY <1>1, <1>2 DEF ComposerTypeOK, Submissions
<1>4. HereComposed' /\ SendIsHeld' /\ SentAsComposed'
  BY <1>1 DEF HereComposed, SendIsHeld, SentAsComposed, Submissions, InFlight
<1>. QED  BY <1>3, <1>4

\* The app reloads only when it knows of no send, and then there is none to be cut.
LEMMA ReloadKeeps == ASSUME ComposerInv, StrayMoves = FALSE, Reload PROVE ComposerInv'
<1>. USE DEF ComposerInv
<1>1. \A i \in Submissions : ~InFlight(i)
  <2>. SUFFICES ASSUME NEW i \in Submissions, InFlight(i) PROVE FALSE
    OBVIOUS
  <2>1. cSub[i].kind \in {"text", "media"} /\ ~cHeld
    BY DEF Reload, Tidy, MayReload
  <2>. QED  BY <2>1 DEF SendIsHeld
<1>2. cSub' = cSub
  <2>1. cSub' = [i \in Submissions |-> cSub[i]]
    BY <1>1 DEF Reload
  <2>2. cSub \in [1 .. Len(cSub) -> Submission]
    BY LenProperties DEF ComposerTypeOK
  <2>. QED  BY <2>1, <2>2, SubmissionsAreTyped
<1>3. /\ UNCHANGED <<cChat, cDraft, cOnline>> /\ cUpdate' = FALSE /\ cHeld' = FALSE
      /\ cPage' = IF cChat = NoChat THEN cPage ELSE cPage + 1
      /\ cPage < MaxPages
      /\ cBox' = IF cChat = NoChat THEN EmptyBox ELSE [EmptyBox EXCEPT !.input = LoadDraft(cChat)]
  BY DEF Reload, Box
<1>4. cPage' \in 0 .. MaxPages
  BY <1>3, ComposerAssumption DEF ComposerTypeOK
<1>5. BoxIsHere(cBox)'
  <2>1. cChat # NoChat => LoadDraft(cChat) \in {NoChat, cChat}
    BY DraftIsHere DEF ComposerTypeOK
  <2>. QED  BY <1>3, <2>1 DEF BoxIsHere, EmptyBox, NoEdit, NoSheet, PageBoxes, ComposerTypeOK
<1>6. SendIsHeld'
  BY <1>1, <1>2 DEF SendIsHeld, Submissions, InFlight
<1>7. /\ cChat \in Chats \cup {NoChat} /\ cDraft \in [Chats -> Chats \cup {NoChat}]
      /\ cOnline \in BOOLEAN /\ \A c \in Chats : cDraft[c] \in {NoChat, c}
  BY DEF ComposerTypeOK, HereComposed
<1>. QED  BY <1>2, <1>3, <1>4, <1>5, <1>6, <1>7, PageKeeps

-----------------------------------------------------------------------------
(* What is submitted, and what becomes of it.                              *)

\* Nothing is lost when a submission is for the chat on screen, composed there, and no
\* other message is in flight.
LEMMA SubmittedKeeps ==
  ASSUME ComposerInv, NEW s \in Submission, cSub' = Append(cSub, s),
         s.to = cChat, s.from = {cChat}, s.page = cPage, s.fate = "flight",
         s.kind \in {"text", "media"} =>
           cHeld' /\ \A i \in Submissions : InFlight(i) => cSub[i].kind \notin {"text", "media"},
         UNCHANGED <<cChat, cPage, cUpdate, cOnline>>, cHeld' \in {cHeld, TRUE},
         cDraft' \in [Chats -> Chats \cup {NoChat}],
         \A c \in Chats : cDraft'[c] \in {NoChat, c},
         BoxIsHere(cBox')
  PROVE  ComposerInv'
<1>. USE DEF ComposerInv
<1>. DEFINE n == Len(cSub) + 1
<1>1. /\ cSub' \in Seq(Submission)
      /\ Submissions' = Submissions \cup {n} /\ n \notin Submissions
      /\ cSub'[n] = s
      /\ \A i \in Submissions : cSub'[i] = cSub[i]
  BY AppendSubmission
<1>. HIDE DEF n
<1>2. cChat # NoChat
  BY ComposerAssumption DEF Submission
<1>3. ComposerTypeOK'
  <2>1. cHeld' \in BOOLEAN
    BY DEF ComposerTypeOK
  <2>2. cBox' \in PageBoxes /\ {cBox'.edit.msg, cBox'.sheet.msg} \subseteq Submissions' \cup {0}
    BY <1>1 DEF BoxIsHere
  <2>. QED  BY <1>1, <1>2, <2>1, <2>2 DEF ComposerTypeOK
<1>4. HereComposed'
  BY <1>1 DEF HereComposed, BoxIsHere
<1>5. SendIsHeld'
  <2>1. \A i \in Submissions : /\ InFlight(i)' <=> InFlight(i)
                               /\ cSub'[i].kind = cSub[i].kind /\ cSub'[i].page = cSub[i].page
    BY <1>1 DEF InFlight
  <2>2. \A i \in Submissions : InFlight(i) =>
          cSub[i].page = cPage /\ (cSub[i].kind \in {"text", "media"} => cHeld')
    <3>1. cHeld => cHeld'
      BY DEF ComposerTypeOK
    <3>. QED  BY <3>1 DEF SendIsHeld
  <2>3. ASSUME NEW i \in Submissions', InFlight(i)', cSub'[i].kind \in {"text", "media"},
               NEW j \in Submissions', InFlight(j)', cSub'[j].kind \in {"text", "media"}
        PROVE  j = i
    <3>1. CASE s.kind \in {"text", "media"}
      <4>1. \A k \in Submissions : ~(InFlight(k)' /\ cSub'[k].kind \in {"text", "media"})
        BY <2>1, <3>1
      <4>. QED  BY <1>1, <2>3, <4>1
    <3>2. CASE s.kind \notin {"text", "media"}
      <4>1. i \in Submissions /\ j \in Submissions
        BY <1>1, <2>3, <3>2
      <4>2. InFlight(i) /\ cSub[i].kind \in {"text", "media"} /\ InFlight(j) /\ cSub[j].kind \in {"text", "media"}
        BY <2>1, <2>3, <4>1
      <4>. QED  BY <4>1, <4>2 DEF SendIsHeld
    <3>. QED  BY <3>1, <3>2
  <2>4. \A i \in Submissions' : InFlight(i)' =>
          cSub'[i].page = cPage /\ (cSub'[i].kind \in {"text", "media"} => cHeld')
    BY <1>1, <2>1, <2>2
  <2>. QED  BY <2>3, <2>4 DEF SendIsHeld
<1>6. SentAsComposed'
  BY <1>1 DEF SentAsComposed
<1>. QED  BY <1>3, <1>4, <1>5, <1>6

LEMMA MessageKeeps == ASSUME ComposerInv, SubmitMessage PROVE ComposerInv'
<1>. USE DEF ComposerInv
<1>. DEFINE from == {cBox.input, cBox.tray} \ {NoChat}
<1>1. PICK kind \in {"text", "media"} :
        cSub' = Append(cSub, [kind |-> kind, to |-> cChat, msg |-> 0, from |-> from,
                              page |-> cPage, fate |-> "flight"])
  BY DEF SubmitMessage, Submitted
<1>2. /\ cChat \in Chats /\ from = {cChat} /\ cHeld' = TRUE
      /\ cBox' = [cBox EXCEPT !.input = NoChat, !.tray = NoChat]
      /\ cDraft' = [cDraft EXCEPT ![cChat] = NoChat]
      /\ UNCHANGED <<cChat, cPage, cUpdate, cOnline>>
  BY DEF SubmitMessage, Box, ComposerTypeOK, HereComposed
<1>. DEFINE s == [kind |-> kind, to |-> cChat, msg |-> 0, from |-> from,
                  page |-> cPage, fate |-> "flight"]
<1>3. /\ s \in Submission /\ s.to = cChat /\ s.from = {cChat} /\ s.page = cPage
      /\ s.fate = "flight"
  <2>1. cPage \in Nat
    BY ComposerAssumption DEF ComposerTypeOK
  <2>. QED  BY <1>2, <2>1 DEF Submission, SubKinds
<1>. HIDE DEF s
<1>4. \A i \in Submissions : InFlight(i) => cSub[i].kind \notin {"text", "media"}
  BY DEF SubmitMessage, InputsDisabled, Sending, Running, SendIsHeld
<1>5. BoxIsHere(cBox')
  BY <1>2, TheBoxIsHere DEF BoxIsHere, PageBoxes
<1>6. /\ cDraft' \in [Chats -> Chats \cup {NoChat}]
      /\ \A c \in Chats : cDraft'[c] \in {NoChat, c}
  BY <1>2 DEF ComposerTypeOK, HereComposed
<1>7. cSub' = Append(cSub, s)
  BY <1>1 DEF s
<1>. QED  BY <1>2, <1>3, <1>4, <1>5, <1>6, <1>7, SubmittedKeeps

\* An amendment is for the message it was opened on, in the chat on screen.
LEMMA AmendKeeps ==
  ASSUME ComposerInv, StrayMoves = FALSE, CommitEdit \/ ConfirmDelete
  PROVE  ComposerInv'
<1>. USE DEF ComposerInv
<1>1. /\ ~Busy /\ cOnline
      /\ UNCHANGED <<cChat, cDraft, cPage, cHeld, cUpdate, cOnline>>
  BY DEF CommitEdit, ConfirmDelete, InputsDisabled, Tidy
<1>2. PICK kind \in {"edit", "delete"}, target \in {cBox.edit.msg, cBox.sheet.msg} \ {0} :
        cSub' = Amended(kind, target)
  BY DEF CommitEdit, ConfirmDelete, Editing, SheetShows
<1>3. /\ target \in Submissions /\ cSub[target].to = cChat /\ target \in Nat /\ cChat \in Chats
  BY <1>2, SubmissionsAreTyped, TheBoxIsHere DEF BoxIsHere, Submission
<1>. DEFINE s == [kind |-> kind, to |-> cChat, msg |-> target, from |-> {cChat},
                  page |-> cPage, fate |-> "flight"]
<1>4. cSub' = Append(cSub, s)
  BY <1>1, <1>2, <1>3 DEF Amended, Submitted
<1>5. /\ s \in Submission /\ s.to = cChat /\ s.from = {cChat} /\ s.page = cPage
      /\ s.fate = "flight" /\ s.kind \notin {"text", "media"}
  <2>1. cPage \in Nat
    BY ComposerAssumption DEF ComposerTypeOK
  <2>. QED  BY <1>2, <1>3, <2>1 DEF Submission, SubKinds
<1>. HIDE DEF s
<1>6. BoxIsHere(cBox')
  <2>1. cBox' = [cBox EXCEPT !.edit = NoEdit] \/ cBox' = [cBox EXCEPT !.sheet = NoSheet]
    BY DEF CommitEdit, ConfirmDelete, Box
  <2>2. BoxIsHere(cBox)
    BY TheBoxIsHere
  <2>3. CASE cBox' = [cBox EXCEPT !.edit = NoEdit]
    BY <2>2, <2>3 DEF BoxIsHere, PageBoxes, NoEdit
  <2>4. CASE cBox' = [cBox EXCEPT !.sheet = NoSheet]
    BY <2>2, <2>4 DEF BoxIsHere, PageBoxes, NoSheet
  <2>. QED  BY <2>1, <2>3, <2>4
<1>7. /\ cDraft \in [Chats -> Chats \cup {NoChat}]
      /\ \A c \in Chats : cDraft[c] \in {NoChat, c}
  BY DEF ComposerTypeOK, HereComposed
<1>. QED  BY <1>1, <1>4, <1>5, <1>6, <1>7, SubmittedKeeps

\* A send that ends releases the app: no other message was in flight.
LEMMA EndKeeps ==
  ASSUME ComposerInv, NEW i \in Submissions, Land(i) \/ Fail(i)
  PROVE  ComposerInv'
<1>. USE DEF ComposerInv
<1>1. PICK fate \in {"sent", "alert"} : Ends(i, fate)
  BY DEF Land, Fail
<1>. DEFINE s == [cSub[i] EXCEPT !.fate = fate]
<1>2. /\ InFlight(i) /\ cSub[i] \in Submission /\ cSub \in Seq(Submission)
      /\ cSub' = [cSub EXCEPT ![i] = s]
      /\ cHeld' = (cHeld /\ ~(cChat # NoChat /\ cSub[i].page = cPage /\ cSub[i].kind \in {"text", "media"}))
      /\ UNCHANGED <<cChat, cDraft, cBox, cPage, cUpdate, cOnline>>
  BY <1>1, SubmissionsAreTyped DEF Ends, ComposerTypeOK
<1>3. /\ s \in Submission /\ s.fate = fate /\ s.to = cSub[i].to /\ s.from = cSub[i].from
  BY <1>2 DEF Submission
<1>. HIDE DEF s
<1>4. /\ cSub' \in Seq(Submission) /\ Submissions' = Submissions
      /\ \A j \in Submissions : cSub'[j] = IF j = i THEN s ELSE cSub[j]
  <2>1. i \in 1 .. Len(cSub) /\ Submissions = 1 .. Len(cSub)
    BY SubmissionsAreTyped
  <2>2. /\ cSub' \in Seq(Submission) /\ Len(cSub') = Len(cSub)
        /\ \A j \in 1 .. Len(cSub) : cSub'[j] = IF j = i THEN s ELSE cSub[j]
    BY <1>2, <1>3, <2>1, ExceptSeq
  <2>3. Submissions' = 1 .. Len(cSub')
    BY <2>2, LenProperties DEF Submissions
  <2>. QED  BY <2>1, <2>2, <2>3
<1>5. ComposerTypeOK'
  <2>1. cHeld' \in BOOLEAN
    BY <1>2
  <2>. QED  BY <1>2, <1>4, <2>1 DEF ComposerTypeOK
<1>6. HereComposed'
  <2>1. \A j \in Submissions : cSub'[j].to = cSub[j].to
    BY <1>3, <1>4
  <2>2. {cBox.edit.msg, cBox.sheet.msg} \ {0} \subseteq Submissions
    BY DEF ComposerTypeOK
  <2>. QED  BY <1>2, <2>1, <2>2 DEF HereComposed
<1>7. SendIsHeld'
  <2>1. ~InFlight(i)' /\ \A j \in Submissions : InFlight(j)' => InFlight(j) /\ cSub'[j] = cSub[j] /\ j # i
    BY <1>1, <1>3, <1>4 DEF InFlight
  <2>2. \A j \in Submissions : InFlight(j)' /\ cSub'[j].kind \in {"text", "media"} =>
          cSub[i].kind \notin {"text", "media"}
    BY <1>2, <2>1 DEF SendIsHeld
  <2>3. \A j \in Submissions : InFlight(j)' /\ cSub'[j].kind \in {"text", "media"} => cHeld'
    BY <1>2, <2>1, <2>2 DEF SendIsHeld
  <2>. QED  BY <1>2, <1>4, <2>1, <2>3 DEF SendIsHeld
<1>8. SentAsComposed'
  BY <1>1, <1>3, <1>4 DEF SentAsComposed
<1>. QED  BY <1>5, <1>6, <1>7, <1>8

-----------------------------------------------------------------------------
LEMMA ComposerStep ==
  ASSUME StrayMoves = FALSE
  PROVE  ComposerInv /\ [ComposerNext]_cVars => ComposerInv'
<1>. SUFFICES ASSUME ComposerInv, [ComposerNext]_cVars PROVE ComposerInv'
  OBVIOUS
<1>1. CASE LeaveChat \/ \E c \in Chats : OpenFromList(c) \/ JumpToChat(c)
  BY <1>1, ChatKeeps
<1>2. CASE Type \/ Erase
  BY <1>2, TypingKeeps
<1>3. CASE Attach \/ RemoveAttachment
  BY <1>3, AttachKeeps
<1>4. CASE SubmitMessage
  BY <1>4, MessageKeeps
<1>5. CASE CommitEdit \/ ConfirmDelete
  BY <1>5, AmendKeeps
<1>6. CASE AskDelete \/ CloseActions \/ \E i \in Submissions : OpenActions(i)
  BY <1>6, SheetKeeps
<1>7. ASSUME NEW i \in Submissions, Land(i) \/ Fail(i) PROVE ComposerInv'
  BY <1>7, EndKeeps
<1>8. CASE StartEdit \/ TypeEdit \/ CancelEdit
  BY <1>8, EditKeeps
<1>9. CASE Connection \/ UpdateWaits
  BY <1>9, ToggleKeeps
<1>10. CASE Reload
  BY <1>10, ReloadKeeps
<1>11. CASE UNCHANGED cVars
  BY <1>11 DEF cVars, ComposerInv, ComposerTypeOK, HereComposed, SendIsHeld, SentAsComposed,
              Submissions, InFlight
<1>. QED  BY <1>1, <1>2, <1>3, <1>4, <1>5, <1>6, <1>7, <1>8, <1>9, <1>10, <1>11 DEF ComposerNext

(* Without the stray moves, what the user submits goes to the chat it was     *)
(* composed for and is sent or answered with an alert, for any number of      *)
(* chats, pages, reloads and submissions.                                   *)
THEOREM ComposedIsSent ==
  ASSUME StrayMoves = FALSE
  PROVE  ComposerSpec => []SentAsComposed
<1>1. ComposerInv /\ [ComposerNext]_cVars => ComposerInv'
  BY ComposerStep
<1>2. ComposerInv => SentAsComposed
  BY DEF ComposerInv
<1>. QED  BY ComposerInvInit, <1>1, <1>2, PTL DEF ComposerSpec

-----------------------------------------------------------------------------
(* The browser's storage.                                                   *)

TabRecords == [pc : {"closed", "queued", "keys", "out", "owner", "wipe", "local",
                     "sharing", "backup", "in", "teardown", "wipeout"},
               user : Anyone, open : BOOLEAN]

(* A tab moves, and the others stay as they are.                           *)
LEMMA TabMoves ==
  ASSUME StoreTypeOK, NEW t \in BrowserTabs, NEW q \in TabRecords, oTab' = [oTab EXCEPT ![t] = q],
         oOwner' \in Anyone, oKeys' \in [KeyNames -> Anyone], oData' \subseteq LocalUsers,
         oSync' \in [BrowserTabs -> Anyone], \A x \in BrowserTabs : x # t => oSync'[x] = oSync[x],
         q.pc = "closed" => q = ClosedTab /\ oSync'[t] = Nobody
  PROVE  StoreTypeOK' /\ oTab'[t] = q /\ \A x \in BrowserTabs : x # t => oTab'[x] = oTab[x]
<1>1. /\ oTab' \in [BrowserTabs -> TabRecords]
      /\ oTab'[t] = q
      /\ \A x \in BrowserTabs : x # t => oTab'[x] = oTab[x]
  BY DEF StoreTypeOK, TabRecords
<1>. QED  BY <1>1 DEF StoreTypeOK, TabRecords

(* A tab goes on: at another step, for another account, with its connection *)
(* or without.                                                             *)
Going == {"queued", "keys", "out", "owner", "wipe", "local",
          "sharing", "backup", "in", "teardown", "wipeout"}

LEMMA TabGoesOn ==
  ASSUME StoreTypeOK, NEW t \in BrowserTabs, NEW q \in TabRecords, q.pc \in Going,
         oTab' = [oTab EXCEPT ![t] = q],
         oOwner' \in Anyone, oKeys' \in [KeyNames -> Anyone], oData' \subseteq LocalUsers, UNCHANGED oSync
  PROVE  StoreTypeOK'
<1>1. oSync' \in [BrowserTabs -> Anyone] /\ q.pc # "closed"
  BY DEF StoreTypeOK, Going
<1>. QED  BY <1>1, TabMoves

LEMMA TabIsTyped ==
  ASSUME StoreInv, NEW t \in BrowserTabs
  PROVE  oTab[t] \in TabRecords /\ oOwner \in Anyone /\ Nobody \in Anyone
         /\ (SigningIn(t) \/ oTab[t].pc \in {"queued", "keys", "in"} => oTab[t].user \in Anyone)
BY DEF StoreInv, StoreTypeOK, SessionsHoldOpen, TabRecords, Anyone

LEMMA StoreInvInit == ASSUME StoreInit PROVE StoreInv
BY DEF StoreInit, StoreInv, StoreTypeOK, SessionsHoldOpen, SigningIn, ClosedTab, Anyone, KeyNames

LEMMA TabStartTabKeeps ==
  ASSUME StoreInv, NarrowRaces = FALSE, NEW t \in BrowserTabs, StartTab(t)
  PROVE  StoreInv'
<1>1. StoreTypeOK'
  <2>. DEFINE q == [oTab[t] EXCEPT !.pc = "out"]
              p == [pc |-> IF Deleting = {} THEN "keys" ELSE "queued", user |-> oOwner, open |-> Deleting = {}]
  <2>1. oTab' = [oTab EXCEPT ![t] = q] \/ oTab' = [oTab EXCEPT ![t] = p]
    BY DEF StartTab
  <2>2. q \in TabRecords /\ q.pc \in Going
    BY TabIsTyped DEF TabRecords, Going
  <2>3. p \in TabRecords /\ p.pc \in Going
    BY TabIsTyped DEF TabRecords, Going
  <2>. HIDE DEF q, p
  <2>. QED  BY <2>1, <2>2, <2>3, TabGoesOn DEF StartTab, StoreInv, StoreTypeOK
<1>2. SessionsHoldOpen'
  <2>1. oTab[t] \in TabRecords /\ \A x \in BrowserTabs : x # t => oTab'[x] = oTab[x]
    BY TabIsTyped DEF StartTab
  <2>2. CASE oOwner = Nobody
    BY <2>1, <2>2 DEF StartTab, StoreInv, StoreTypeOK, SessionsHoldOpen, SigningIn
  <2>3. CASE oOwner # Nobody
    <3>1. /\ oTab'[t].pc = IF Deleting = {} THEN "keys" ELSE "queued"
          /\ oTab'[t].user = oOwner /\ oTab'[t].open = (Deleting = {})
      BY <2>3 DEF StartTab, StoreInv, StoreTypeOK
    <3>. QED  BY <2>1, <2>3, <3>1 DEF StoreInv, StoreTypeOK, SessionsHoldOpen, SigningIn, Anyone
  <2>. QED  BY <2>2, <2>3
<1>3. \A x, y \in BrowserTabs : SigningIn(x)' /\ SigningIn(y)' => x = y
  BY StoreAssumption DEF StartTab, StoreInv, StoreTypeOK, SessionsHoldOpen, SigningIn, HasItAlone, TabGoes, Opened, CanOpen, Deleting, Leftover, Wiped, ClosedTab, KeyNames, Anyone, OwnerChanged
<1>4. oOwner' # Nobody => HasItAlone(oOwner)'
  BY StoreAssumption DEF StartTab, StoreInv, StoreTypeOK, SessionsHoldOpen, SigningIn, HasItAlone, TabGoes, Opened, CanOpen, Deleting, Leftover, Wiped, ClosedTab, KeyNames, Anyone, OwnerChanged
<1>5. \A x \in BrowserTabs : oTab'[x].pc \in {"local", "sharing", "backup"} => HasItAlone(oTab[x].user)'
  BY StoreAssumption DEF StartTab, StoreInv, StoreTypeOK, SessionsHoldOpen, SigningIn, HasItAlone, TabGoes, Opened, CanOpen, Deleting, Leftover, Wiped, ClosedTab, KeyNames, Anyone, OwnerChanged
<1>6. \A x \in BrowserTabs : oTab'[x].pc \in {"sharing", "backup"} => oOwner' \in {oTab'[x].user, Nobody}
  BY StoreAssumption DEF StartTab, StoreInv, StoreTypeOK, SessionsHoldOpen, SigningIn, HasItAlone, TabGoes, Opened, CanOpen, Deleting, Leftover, Wiped, ClosedTab, KeyNames, Anyone, OwnerChanged
<1>. QED  BY <1>1, <1>2, <1>3, <1>4, <1>5, <1>6 DEF StoreInv

LEMMA TabOpenAtLastKeeps ==
  ASSUME StoreInv, NarrowRaces = FALSE, NEW t \in BrowserTabs, OpenAtLast(t)
  PROVE  StoreInv'
<1>1. StoreTypeOK'
  <2>. DEFINE q == [pc |-> "keys", user |-> oTab[t].user, open |-> TRUE]
  <2>1. oTab' = [oTab EXCEPT ![t] = q]
    BY DEF OpenAtLast, Opened
  <2>2. q \in TabRecords /\ q.pc \in Going
    BY TabIsTyped DEF TabRecords, Going, Anyone
  <2>. HIDE DEF q
  <2>. QED  BY <2>1, <2>2, TabGoesOn DEF OpenAtLast, StoreInv, StoreTypeOK, Anyone
<1>2. SessionsHoldOpen'
  BY StoreAssumption DEF OpenAtLast, StoreInv, StoreTypeOK, SessionsHoldOpen, SigningIn, HasItAlone, TabGoes, Opened, CanOpen, Deleting, Leftover, Wiped, ClosedTab, KeyNames, Anyone, OwnerChanged
<1>3. \A x, y \in BrowserTabs : SigningIn(x)' /\ SigningIn(y)' => x = y
  BY StoreAssumption DEF OpenAtLast, StoreInv, StoreTypeOK, SessionsHoldOpen, SigningIn, HasItAlone, TabGoes, Opened, CanOpen, Deleting, Leftover, Wiped, ClosedTab, KeyNames, Anyone, OwnerChanged
<1>4. oOwner' # Nobody => HasItAlone(oOwner)'
  BY StoreAssumption DEF OpenAtLast, StoreInv, StoreTypeOK, SessionsHoldOpen, SigningIn, HasItAlone, TabGoes, Opened, CanOpen, Deleting, Leftover, Wiped, ClosedTab, KeyNames, Anyone, OwnerChanged
<1>5. \A x \in BrowserTabs : oTab'[x].pc \in {"local", "sharing", "backup"} => HasItAlone(oTab[x].user)'
  BY StoreAssumption DEF OpenAtLast, StoreInv, StoreTypeOK, SessionsHoldOpen, SigningIn, HasItAlone, TabGoes, Opened, CanOpen, Deleting, Leftover, Wiped, ClosedTab, KeyNames, Anyone, OwnerChanged
<1>6. \A x \in BrowserTabs : oTab'[x].pc \in {"sharing", "backup"} => oOwner' \in {oTab'[x].user, Nobody}
  BY StoreAssumption DEF OpenAtLast, StoreInv, StoreTypeOK, SessionsHoldOpen, SigningIn, HasItAlone, TabGoes, Opened, CanOpen, Deleting, Leftover, Wiped, ClosedTab, KeyNames, Anyone, OwnerChanged
<1>. QED  BY <1>1, <1>2, <1>3, <1>4, <1>5, <1>6 DEF StoreInv

LEMMA TabLoadKeysKeeps ==
  ASSUME StoreInv, NarrowRaces = FALSE, NEW t \in BrowserTabs, LoadKeys(t)
  PROVE  StoreInv'
<1>1. StoreTypeOK'
  <2>. DEFINE q == IF Nobody \in {oKeys[k] : k \in KeyNames} THEN [pc |-> "out", user |-> Nobody, open |-> TRUE] ELSE [oTab[t] EXCEPT !.pc = "in"]
  <2>1. oTab' = [oTab EXCEPT ![t] = q]
    BY DEF LoadKeys, Opened, TabGoes
  <2>2. q \in TabRecords /\ q.pc \in Going
    BY TabIsTyped DEF TabRecords, Going, Anyone
  <2>. HIDE DEF q
  <2>. QED  BY <2>1, <2>2, TabGoesOn DEF LoadKeys, StoreInv, StoreTypeOK, Anyone
<1>2. SessionsHoldOpen'
  BY StoreAssumption DEF LoadKeys, StoreInv, StoreTypeOK, SessionsHoldOpen, SigningIn, HasItAlone, TabGoes, Opened, CanOpen, Deleting, Leftover, Wiped, ClosedTab, KeyNames, Anyone, OwnerChanged
<1>3. \A x, y \in BrowserTabs : SigningIn(x)' /\ SigningIn(y)' => x = y
  BY StoreAssumption DEF LoadKeys, StoreInv, StoreTypeOK, SessionsHoldOpen, SigningIn, HasItAlone, TabGoes, Opened, CanOpen, Deleting, Leftover, Wiped, ClosedTab, KeyNames, Anyone, OwnerChanged
<1>4. oOwner' # Nobody => HasItAlone(oOwner)'
  BY StoreAssumption DEF LoadKeys, StoreInv, StoreTypeOK, SessionsHoldOpen, SigningIn, HasItAlone, TabGoes, Opened, CanOpen, Deleting, Leftover, Wiped, ClosedTab, KeyNames, Anyone, OwnerChanged
<1>5. \A x \in BrowserTabs : oTab'[x].pc \in {"local", "sharing", "backup"} => HasItAlone(oTab[x].user)'
  BY StoreAssumption DEF LoadKeys, StoreInv, StoreTypeOK, SessionsHoldOpen, SigningIn, HasItAlone, TabGoes, Opened, CanOpen, Deleting, Leftover, Wiped, ClosedTab, KeyNames, Anyone, OwnerChanged
<1>6. \A x \in BrowserTabs : oTab'[x].pc \in {"sharing", "backup"} => oOwner' \in {oTab'[x].user, Nobody}
  BY StoreAssumption DEF LoadKeys, StoreInv, StoreTypeOK, SessionsHoldOpen, SigningIn, HasItAlone, TabGoes, Opened, CanOpen, Deleting, Leftover, Wiped, ClosedTab, KeyNames, Anyone, OwnerChanged
<1>. QED  BY <1>1, <1>2, <1>3, <1>4, <1>5, <1>6 DEF StoreInv

LEMMA TabCloseTabKeeps ==
  ASSUME StoreInv, NarrowRaces = FALSE, NEW t \in BrowserTabs, CloseTab(t)
  PROVE  StoreInv'
<1>1. StoreTypeOK'
  <2>1. ClosedTab \in TabRecords
    BY DEF ClosedTab, TabRecords, Anyone
  <2>2. oSync' \in [BrowserTabs -> Anyone] /\ oSync'[t] = Nobody /\ \A x \in BrowserTabs : x # t => oSync'[x] = oSync[x]
    BY DEF CloseTab, StoreInv, StoreTypeOK, Anyone
  <2>. QED  BY <2>1, <2>2, TabMoves DEF CloseTab, StoreInv, StoreTypeOK, ClosedTab
<1>2. SessionsHoldOpen'
  BY StoreAssumption DEF CloseTab, StoreInv, StoreTypeOK, SessionsHoldOpen, SigningIn, HasItAlone, TabGoes, Opened, CanOpen, Deleting, Leftover, Wiped, ClosedTab, KeyNames, Anyone, OwnerChanged
<1>3. \A x, y \in BrowserTabs : SigningIn(x)' /\ SigningIn(y)' => x = y
  BY StoreAssumption DEF CloseTab, StoreInv, StoreTypeOK, SessionsHoldOpen, SigningIn, HasItAlone, TabGoes, Opened, CanOpen, Deleting, Leftover, Wiped, ClosedTab, KeyNames, Anyone, OwnerChanged
<1>4. oOwner' # Nobody => HasItAlone(oOwner)'
  BY StoreAssumption DEF CloseTab, StoreInv, StoreTypeOK, SessionsHoldOpen, SigningIn, HasItAlone, TabGoes, Opened, CanOpen, Deleting, Leftover, Wiped, ClosedTab, KeyNames, Anyone, OwnerChanged
<1>5. \A x \in BrowserTabs : oTab'[x].pc \in {"local", "sharing", "backup"} => HasItAlone(oTab[x].user)'
  BY StoreAssumption DEF CloseTab, StoreInv, StoreTypeOK, SessionsHoldOpen, SigningIn, HasItAlone, TabGoes, Opened, CanOpen, Deleting, Leftover, Wiped, ClosedTab, KeyNames, Anyone, OwnerChanged
<1>6. \A x \in BrowserTabs : oTab'[x].pc \in {"sharing", "backup"} => oOwner' \in {oTab'[x].user, Nobody}
  BY StoreAssumption DEF CloseTab, StoreInv, StoreTypeOK, SessionsHoldOpen, SigningIn, HasItAlone, TabGoes, Opened, CanOpen, Deleting, Leftover, Wiped, ClosedTab, KeyNames, Anyone, OwnerChanged
<1>. QED  BY <1>1, <1>2, <1>3, <1>4, <1>5, <1>6 DEF StoreInv

LEMMA TabSubmitKeeps ==
  ASSUME StoreInv, NarrowRaces = FALSE, NEW t \in BrowserTabs, NEW u \in LocalUsers, SubmitLogin(t, u)
  PROVE  StoreInv'
<1>1. StoreTypeOK'
  <2>. DEFINE q == [oTab[t] EXCEPT !.pc = "owner", !.user = u]
  <2>1. oTab' = [oTab EXCEPT ![t] = q]
    BY DEF SubmitLogin
  <2>2. q \in TabRecords /\ q.pc \in Going
    BY TabIsTyped DEF TabRecords, Going, Anyone
  <2>. HIDE DEF q
  <2>. QED  BY <2>1, <2>2, TabGoesOn DEF SubmitLogin, StoreInv, StoreTypeOK, Anyone
<1>2. SessionsHoldOpen'
  BY StoreAssumption DEF SubmitLogin, StoreInv, StoreTypeOK, SessionsHoldOpen, SigningIn, HasItAlone, TabGoes, Opened, CanOpen, Deleting, Leftover, Wiped, ClosedTab, KeyNames, Anyone, OwnerChanged
<1>3. \A x, y \in BrowserTabs : SigningIn(x)' /\ SigningIn(y)' => x = y
  BY StoreAssumption DEF SubmitLogin, StoreInv, StoreTypeOK, SessionsHoldOpen, SigningIn, HasItAlone, TabGoes, Opened, CanOpen, Deleting, Leftover, Wiped, ClosedTab, KeyNames, Anyone, OwnerChanged
<1>4. oOwner' # Nobody => HasItAlone(oOwner)'
  BY StoreAssumption DEF SubmitLogin, StoreInv, StoreTypeOK, SessionsHoldOpen, SigningIn, HasItAlone, TabGoes, Opened, CanOpen, Deleting, Leftover, Wiped, ClosedTab, KeyNames, Anyone, OwnerChanged
<1>5. \A x \in BrowserTabs : oTab'[x].pc \in {"local", "sharing", "backup"} => HasItAlone(oTab[x].user)'
  BY StoreAssumption DEF SubmitLogin, StoreInv, StoreTypeOK, SessionsHoldOpen, SigningIn, HasItAlone, TabGoes, Opened, CanOpen, Deleting, Leftover, Wiped, ClosedTab, KeyNames, Anyone, OwnerChanged
<1>6. \A x \in BrowserTabs : oTab'[x].pc \in {"sharing", "backup"} => oOwner' \in {oTab'[x].user, Nobody}
  BY StoreAssumption DEF SubmitLogin, StoreInv, StoreTypeOK, SessionsHoldOpen, SigningIn, HasItAlone, TabGoes, Opened, CanOpen, Deleting, Leftover, Wiped, ClosedTab, KeyNames, Anyone, OwnerChanged
<1>. QED  BY <1>1, <1>2, <1>3, <1>4, <1>5, <1>6 DEF StoreInv

LEMMA TabSaveRotatedKeeps ==
  ASSUME StoreInv, NarrowRaces = FALSE, NEW t \in BrowserTabs, SaveRotated(t)
  PROVE  StoreInv'
<1>1. StoreTypeOK'
  <2>. DEFINE q == [oTab[t] EXCEPT !.pc = "owner"]
  <2>1. oTab' = [oTab EXCEPT ![t] = q]
    BY DEF SaveRotated, TabGoes
  <2>2. q \in TabRecords /\ q.pc \in Going
    BY TabIsTyped DEF TabRecords, Going, Anyone
  <2>. HIDE DEF q
  <2>. QED  BY <2>1, <2>2, TabGoesOn DEF SaveRotated, StoreInv, StoreTypeOK, Anyone
<1>2. SessionsHoldOpen'
  BY StoreAssumption DEF SaveRotated, StoreInv, StoreTypeOK, SessionsHoldOpen, SigningIn, HasItAlone, TabGoes, Opened, CanOpen, Deleting, Leftover, Wiped, ClosedTab, KeyNames, Anyone, OwnerChanged
<1>3. \A x, y \in BrowserTabs : SigningIn(x)' /\ SigningIn(y)' => x = y
  BY StoreAssumption DEF SaveRotated, StoreInv, StoreTypeOK, SessionsHoldOpen, SigningIn, HasItAlone, TabGoes, Opened, CanOpen, Deleting, Leftover, Wiped, ClosedTab, KeyNames, Anyone, OwnerChanged
<1>4. oOwner' # Nobody => HasItAlone(oOwner)'
  BY StoreAssumption DEF SaveRotated, StoreInv, StoreTypeOK, SessionsHoldOpen, SigningIn, HasItAlone, TabGoes, Opened, CanOpen, Deleting, Leftover, Wiped, ClosedTab, KeyNames, Anyone, OwnerChanged
<1>5. \A x \in BrowserTabs : oTab'[x].pc \in {"local", "sharing", "backup"} => HasItAlone(oTab[x].user)'
  BY StoreAssumption DEF SaveRotated, StoreInv, StoreTypeOK, SessionsHoldOpen, SigningIn, HasItAlone, TabGoes, Opened, CanOpen, Deleting, Leftover, Wiped, ClosedTab, KeyNames, Anyone, OwnerChanged
<1>6. \A x \in BrowserTabs : oTab'[x].pc \in {"sharing", "backup"} => oOwner' \in {oTab'[x].user, Nobody}
  BY StoreAssumption DEF SaveRotated, StoreInv, StoreTypeOK, SessionsHoldOpen, SigningIn, HasItAlone, TabGoes, Opened, CanOpen, Deleting, Leftover, Wiped, ClosedTab, KeyNames, Anyone, OwnerChanged
<1>. QED  BY <1>1, <1>2, <1>3, <1>4, <1>5, <1>6 DEF StoreInv

LEMMA TabCheckOwnerKeeps ==
  ASSUME StoreInv, NarrowRaces = FALSE, NEW t \in BrowserTabs, CheckOwner(t)
  PROVE  StoreInv'
<1>1. StoreTypeOK'
  <2>. DEFINE q == IF OwnerChanged(oTab[t].user) THEN [oTab[t] EXCEPT !.pc = "wipe", !.open = FALSE] ELSE [oTab[t] EXCEPT !.pc = "local"]
  <2>1. oTab' = [oTab EXCEPT ![t] = q]
    BY DEF CheckOwner, TabGoes
  <2>2. q \in TabRecords /\ q.pc \in Going
    BY TabIsTyped DEF TabRecords, Going, Anyone
  <2>. HIDE DEF q
  <2>. QED  BY <2>1, <2>2, TabGoesOn DEF CheckOwner, StoreInv, StoreTypeOK, Anyone
<1>2. SessionsHoldOpen'
  BY StoreAssumption DEF CheckOwner, StoreInv, StoreTypeOK, SessionsHoldOpen, SigningIn, HasItAlone, TabGoes, Opened, CanOpen, Deleting, Leftover, Wiped, ClosedTab, KeyNames, Anyone, OwnerChanged
<1>3. \A x, y \in BrowserTabs : SigningIn(x)' /\ SigningIn(y)' => x = y
  BY StoreAssumption DEF CheckOwner, StoreInv, StoreTypeOK, SessionsHoldOpen, SigningIn, HasItAlone, TabGoes, Opened, CanOpen, Deleting, Leftover, Wiped, ClosedTab, KeyNames, Anyone, OwnerChanged
<1>4. oOwner' # Nobody => HasItAlone(oOwner)'
  BY StoreAssumption DEF CheckOwner, StoreInv, StoreTypeOK, SessionsHoldOpen, SigningIn, HasItAlone, TabGoes, Opened, CanOpen, Deleting, Leftover, Wiped, ClosedTab, KeyNames, Anyone, OwnerChanged
<1>5. \A x \in BrowserTabs : oTab'[x].pc \in {"local", "sharing", "backup"} => HasItAlone(oTab[x].user)'
  BY StoreAssumption DEF CheckOwner, StoreInv, StoreTypeOK, SessionsHoldOpen, SigningIn, HasItAlone, TabGoes, Opened, CanOpen, Deleting, Leftover, Wiped, ClosedTab, KeyNames, Anyone, OwnerChanged
<1>6. \A x \in BrowserTabs : oTab'[x].pc \in {"sharing", "backup"} => oOwner' \in {oTab'[x].user, Nobody}
  BY StoreAssumption DEF CheckOwner, StoreInv, StoreTypeOK, SessionsHoldOpen, SigningIn, HasItAlone, TabGoes, Opened, CanOpen, Deleting, Leftover, Wiped, ClosedTab, KeyNames, Anyone, OwnerChanged
<1>. QED  BY <1>1, <1>2, <1>3, <1>4, <1>5, <1>6 DEF StoreInv

LEMMA TabDatabaseDeletedKeeps ==
  ASSUME StoreInv, NarrowRaces = FALSE, NEW t \in BrowserTabs, DatabaseDeleted(t)
  PROVE  StoreInv'
<1>1. StoreTypeOK'
  <2>1. ASSUME NEW x \in BrowserTabs
        PROVE  oTab'[x] \in TabRecords /\ (oTab'[x].pc = "closed" => oTab'[x] = ClosedTab /\ oSync[x] = Nobody)
    <3>1. oTab[x] \in TabRecords /\ (oTab[x].pc = "closed" => oTab[x] = ClosedTab /\ oSync[x] = Nobody)
      BY DEF StoreInv, StoreTypeOK, TabRecords
    <3>2. CASE x = t
      BY <3>1, <3>2 DEF DatabaseDeleted, Wiped, TabRecords, Anyone
    <3>3. CASE x # t /\ oTab[x].pc = "queued"
      BY <3>3 DEF DatabaseDeleted, Wiped, TabRecords, Anyone
    <3>4. CASE x # t /\ oTab[x].pc # "queued"
      BY <3>1, <3>4 DEF DatabaseDeleted, Wiped
    <3>. QED  BY <3>2, <3>3, <3>4
  <2>2. oTab' \in [BrowserTabs -> TabRecords]
    BY <2>1 DEF DatabaseDeleted, Wiped
  <2>. QED  BY <2>1, <2>2 DEF DatabaseDeleted, StoreInv, StoreTypeOK, TabRecords, Anyone
<1>2. SessionsHoldOpen'
  BY StoreAssumption DEF DatabaseDeleted, StoreInv, StoreTypeOK, SessionsHoldOpen, SigningIn, HasItAlone, TabGoes, Opened, CanOpen, Deleting, Leftover, Wiped, ClosedTab, KeyNames, Anyone, OwnerChanged
<1>3. \A x, y \in BrowserTabs : SigningIn(x)' /\ SigningIn(y)' => x = y
  BY StoreAssumption DEF DatabaseDeleted, StoreInv, StoreTypeOK, SessionsHoldOpen, SigningIn, HasItAlone, TabGoes, Opened, CanOpen, Deleting, Leftover, Wiped, ClosedTab, KeyNames, Anyone, OwnerChanged
<1>4. oOwner' # Nobody => HasItAlone(oOwner)'
  BY StoreAssumption DEF DatabaseDeleted, StoreInv, StoreTypeOK, SessionsHoldOpen, SigningIn, HasItAlone, TabGoes, Opened, CanOpen, Deleting, Leftover, Wiped, ClosedTab, KeyNames, Anyone, OwnerChanged
<1>5. \A x \in BrowserTabs : oTab'[x].pc \in {"local", "sharing", "backup"} => HasItAlone(oTab[x].user)'
  BY StoreAssumption DEF DatabaseDeleted, StoreInv, StoreTypeOK, SessionsHoldOpen, SigningIn, HasItAlone, TabGoes, Opened, CanOpen, Deleting, Leftover, Wiped, ClosedTab, KeyNames, Anyone, OwnerChanged
<1>6. \A x \in BrowserTabs : oTab'[x].pc \in {"sharing", "backup"} => oOwner' \in {oTab'[x].user, Nobody}
  BY StoreAssumption DEF DatabaseDeleted, StoreInv, StoreTypeOK, SessionsHoldOpen, SigningIn, HasItAlone, TabGoes, Opened, CanOpen, Deleting, Leftover, Wiped, ClosedTab, KeyNames, Anyone, OwnerChanged
<1>. QED  BY <1>1, <1>2, <1>3, <1>4, <1>5, <1>6 DEF StoreInv

LEMMA TabStoreLocalKeeps ==
  ASSUME StoreInv, NarrowRaces = FALSE, NEW t \in BrowserTabs, StoreLocal(t)
  PROVE  StoreInv'
<1>1. StoreTypeOK'
  <2>. DEFINE q == [oTab[t] EXCEPT !.pc = "sharing"]
  <2>1. oTab' = [oTab EXCEPT ![t] = q]
    BY DEF StoreLocal, TabGoes
  <2>2. q \in TabRecords /\ q.pc \in Going
    BY TabIsTyped DEF TabRecords, Going, Anyone
  <2>. HIDE DEF q
  <2>. QED  BY <2>1, <2>2, TabGoesOn DEF StoreLocal, StoreInv, StoreTypeOK, Anyone
<1>2. SessionsHoldOpen'
  BY StoreAssumption DEF StoreLocal, StoreInv, StoreTypeOK, SessionsHoldOpen, SigningIn, HasItAlone, TabGoes, Opened, CanOpen, Deleting, Leftover, Wiped, ClosedTab, KeyNames, Anyone, OwnerChanged
<1>3. \A x, y \in BrowserTabs : SigningIn(x)' /\ SigningIn(y)' => x = y
  BY StoreAssumption DEF StoreLocal, StoreInv, StoreTypeOK, SessionsHoldOpen, SigningIn, HasItAlone, TabGoes, Opened, CanOpen, Deleting, Leftover, Wiped, ClosedTab, KeyNames, Anyone, OwnerChanged
<1>4. oOwner' # Nobody => HasItAlone(oOwner)'
  BY StoreAssumption DEF StoreLocal, StoreInv, StoreTypeOK, SessionsHoldOpen, SigningIn, HasItAlone, TabGoes, Opened, CanOpen, Deleting, Leftover, Wiped, ClosedTab, KeyNames, Anyone, OwnerChanged
<1>5. \A x \in BrowserTabs : oTab'[x].pc \in {"local", "sharing", "backup"} => HasItAlone(oTab[x].user)'
  BY StoreAssumption DEF StoreLocal, StoreInv, StoreTypeOK, SessionsHoldOpen, SigningIn, HasItAlone, TabGoes, Opened, CanOpen, Deleting, Leftover, Wiped, ClosedTab, KeyNames, Anyone, OwnerChanged
<1>6. \A x \in BrowserTabs : oTab'[x].pc \in {"sharing", "backup"} => oOwner' \in {oTab'[x].user, Nobody}
  BY StoreAssumption DEF StoreLocal, StoreInv, StoreTypeOK, SessionsHoldOpen, SigningIn, HasItAlone, TabGoes, Opened, CanOpen, Deleting, Leftover, Wiped, ClosedTab, KeyNames, Anyone, OwnerChanged
<1>. QED  BY <1>1, <1>2, <1>3, <1>4, <1>5, <1>6 DEF StoreInv

LEMMA TabPutKeyKeeps ==
  ASSUME StoreInv, NarrowRaces = FALSE, NEW t \in BrowserTabs, PutKey(t)
  PROVE  StoreInv'
<1>1. StoreTypeOK'
  BY StoreAssumption DEF PutKey, StoreInv, StoreTypeOK, SessionsHoldOpen, SigningIn, HasItAlone, TabGoes, Opened, CanOpen, Deleting, Leftover, Wiped, ClosedTab, KeyNames, Anyone, OwnerChanged
<1>2. SessionsHoldOpen'
  BY StoreAssumption DEF PutKey, StoreInv, StoreTypeOK, SessionsHoldOpen, SigningIn, HasItAlone, TabGoes, Opened, CanOpen, Deleting, Leftover, Wiped, ClosedTab, KeyNames, Anyone, OwnerChanged
<1>3. \A x, y \in BrowserTabs : SigningIn(x)' /\ SigningIn(y)' => x = y
  BY StoreAssumption DEF PutKey, StoreInv, StoreTypeOK, SessionsHoldOpen, SigningIn, HasItAlone, TabGoes, Opened, CanOpen, Deleting, Leftover, Wiped, ClosedTab, KeyNames, Anyone, OwnerChanged
<1>4. oOwner' # Nobody => HasItAlone(oOwner)'
  BY StoreAssumption DEF PutKey, StoreInv, StoreTypeOK, SessionsHoldOpen, SigningIn, HasItAlone, TabGoes, Opened, CanOpen, Deleting, Leftover, Wiped, ClosedTab, KeyNames, Anyone, OwnerChanged
<1>5. \A x \in BrowserTabs : oTab'[x].pc \in {"local", "sharing", "backup"} => HasItAlone(oTab[x].user)'
  BY StoreAssumption DEF PutKey, StoreInv, StoreTypeOK, SessionsHoldOpen, SigningIn, HasItAlone, TabGoes, Opened, CanOpen, Deleting, Leftover, Wiped, ClosedTab, KeyNames, Anyone, OwnerChanged
<1>6. \A x \in BrowserTabs : oTab'[x].pc \in {"sharing", "backup"} => oOwner' \in {oTab'[x].user, Nobody}
  BY StoreAssumption DEF PutKey, StoreInv, StoreTypeOK, SessionsHoldOpen, SigningIn, HasItAlone, TabGoes, Opened, CanOpen, Deleting, Leftover, Wiped, ClosedTab, KeyNames, Anyone, OwnerChanged
<1>. QED  BY <1>1, <1>2, <1>3, <1>4, <1>5, <1>6 DEF StoreInv

LEMMA TabStartTabSyncKeeps ==
  ASSUME StoreInv, NarrowRaces = FALSE, NEW t \in BrowserTabs, StartTabSync(t)
  PROVE  StoreInv'
<1>1. StoreTypeOK'
  BY StoreAssumption DEF StartTabSync, StoreInv, StoreTypeOK, SessionsHoldOpen, SigningIn, HasItAlone, TabGoes, Opened, CanOpen, Deleting, Leftover, Wiped, ClosedTab, KeyNames, Anyone, OwnerChanged
<1>2. SessionsHoldOpen'
  BY StoreAssumption DEF StartTabSync, StoreInv, StoreTypeOK, SessionsHoldOpen, SigningIn, HasItAlone, TabGoes, Opened, CanOpen, Deleting, Leftover, Wiped, ClosedTab, KeyNames, Anyone, OwnerChanged
<1>3. \A x, y \in BrowserTabs : SigningIn(x)' /\ SigningIn(y)' => x = y
  BY StoreAssumption DEF StartTabSync, StoreInv, StoreTypeOK, SessionsHoldOpen, SigningIn, HasItAlone, TabGoes, Opened, CanOpen, Deleting, Leftover, Wiped, ClosedTab, KeyNames, Anyone, OwnerChanged
<1>4. oOwner' # Nobody => HasItAlone(oOwner)'
  BY StoreAssumption DEF StartTabSync, StoreInv, StoreTypeOK, SessionsHoldOpen, SigningIn, HasItAlone, TabGoes, Opened, CanOpen, Deleting, Leftover, Wiped, ClosedTab, KeyNames, Anyone, OwnerChanged
<1>5. \A x \in BrowserTabs : oTab'[x].pc \in {"local", "sharing", "backup"} => HasItAlone(oTab[x].user)'
  BY StoreAssumption DEF StartTabSync, StoreInv, StoreTypeOK, SessionsHoldOpen, SigningIn, HasItAlone, TabGoes, Opened, CanOpen, Deleting, Leftover, Wiped, ClosedTab, KeyNames, Anyone, OwnerChanged
<1>6. \A x \in BrowserTabs : oTab'[x].pc \in {"sharing", "backup"} => oOwner' \in {oTab'[x].user, Nobody}
  BY StoreAssumption DEF StartTabSync, StoreInv, StoreTypeOK, SessionsHoldOpen, SigningIn, HasItAlone, TabGoes, Opened, CanOpen, Deleting, Leftover, Wiped, ClosedTab, KeyNames, Anyone, OwnerChanged
<1>. QED  BY <1>1, <1>2, <1>3, <1>4, <1>5, <1>6 DEF StoreInv

LEMMA TabSyncWritesKeeps ==
  ASSUME StoreInv, NarrowRaces = FALSE, NEW t \in BrowserTabs, SyncWrites(t)
  PROVE  StoreInv'
<1>1. StoreTypeOK'
  <2>. DEFINE q == [oTab[t] EXCEPT !.open = TRUE]
  <2>1. oTab' = [oTab EXCEPT ![t] = q] /\ oTab[t] \in TabRecords /\ oTab[t].pc # "closed"
    BY DEF SyncWrites, StoreInv, StoreTypeOK, TabRecords
  <2>2. q \in TabRecords /\ q.pc \in Going
    BY <2>1 DEF TabRecords, Going
  <2>3. oData' \subseteq LocalUsers
    BY DEF SyncWrites, StoreInv, StoreTypeOK, Anyone
  <2>. HIDE DEF q
  <2>. QED  BY <2>1, <2>2, <2>3, TabGoesOn DEF SyncWrites, StoreInv, StoreTypeOK
<1>2. SessionsHoldOpen'
  BY StoreAssumption DEF SyncWrites, StoreInv, StoreTypeOK, SessionsHoldOpen, SigningIn, HasItAlone, TabGoes, Opened, CanOpen, Deleting, Leftover, Wiped, ClosedTab, KeyNames, Anyone, OwnerChanged
<1>3. \A x, y \in BrowserTabs : SigningIn(x)' /\ SigningIn(y)' => x = y
  BY StoreAssumption DEF SyncWrites, StoreInv, StoreTypeOK, SessionsHoldOpen, SigningIn, HasItAlone, TabGoes, Opened, CanOpen, Deleting, Leftover, Wiped, ClosedTab, KeyNames, Anyone, OwnerChanged
<1>4. oOwner' # Nobody => HasItAlone(oOwner)'
  BY StoreAssumption DEF SyncWrites, StoreInv, StoreTypeOK, SessionsHoldOpen, SigningIn, HasItAlone, TabGoes, Opened, CanOpen, Deleting, Leftover, Wiped, ClosedTab, KeyNames, Anyone, OwnerChanged
<1>5. \A x \in BrowserTabs : oTab'[x].pc \in {"local", "sharing", "backup"} => HasItAlone(oTab[x].user)'
  BY StoreAssumption DEF SyncWrites, StoreInv, StoreTypeOK, SessionsHoldOpen, SigningIn, HasItAlone, TabGoes, Opened, CanOpen, Deleting, Leftover, Wiped, ClosedTab, KeyNames, Anyone, OwnerChanged
<1>6. \A x \in BrowserTabs : oTab'[x].pc \in {"sharing", "backup"} => oOwner' \in {oTab'[x].user, Nobody}
  BY StoreAssumption DEF SyncWrites, StoreInv, StoreTypeOK, SessionsHoldOpen, SigningIn, HasItAlone, TabGoes, Opened, CanOpen, Deleting, Leftover, Wiped, ClosedTab, KeyNames, Anyone, OwnerChanged
<1>. QED  BY <1>1, <1>2, <1>3, <1>4, <1>5, <1>6 DEF StoreInv

LEMMA TabEndTabSyncKeeps ==
  ASSUME StoreInv, NarrowRaces = FALSE, NEW t \in BrowserTabs, EndTabSync(t)
  PROVE  StoreInv'
<1>1. StoreTypeOK'
  BY StoreAssumption DEF EndTabSync, StoreInv, StoreTypeOK, SessionsHoldOpen, SigningIn, HasItAlone, TabGoes, Opened, CanOpen, Deleting, Leftover, Wiped, ClosedTab, KeyNames, Anyone, OwnerChanged
<1>2. SessionsHoldOpen'
  BY StoreAssumption DEF EndTabSync, StoreInv, StoreTypeOK, SessionsHoldOpen, SigningIn, HasItAlone, TabGoes, Opened, CanOpen, Deleting, Leftover, Wiped, ClosedTab, KeyNames, Anyone, OwnerChanged
<1>3. \A x, y \in BrowserTabs : SigningIn(x)' /\ SigningIn(y)' => x = y
  BY StoreAssumption DEF EndTabSync, StoreInv, StoreTypeOK, SessionsHoldOpen, SigningIn, HasItAlone, TabGoes, Opened, CanOpen, Deleting, Leftover, Wiped, ClosedTab, KeyNames, Anyone, OwnerChanged
<1>4. oOwner' # Nobody => HasItAlone(oOwner)'
  BY StoreAssumption DEF EndTabSync, StoreInv, StoreTypeOK, SessionsHoldOpen, SigningIn, HasItAlone, TabGoes, Opened, CanOpen, Deleting, Leftover, Wiped, ClosedTab, KeyNames, Anyone, OwnerChanged
<1>5. \A x \in BrowserTabs : oTab'[x].pc \in {"local", "sharing", "backup"} => HasItAlone(oTab[x].user)'
  BY StoreAssumption DEF EndTabSync, StoreInv, StoreTypeOK, SessionsHoldOpen, SigningIn, HasItAlone, TabGoes, Opened, CanOpen, Deleting, Leftover, Wiped, ClosedTab, KeyNames, Anyone, OwnerChanged
<1>6. \A x \in BrowserTabs : oTab'[x].pc \in {"sharing", "backup"} => oOwner' \in {oTab'[x].user, Nobody}
  BY StoreAssumption DEF EndTabSync, StoreInv, StoreTypeOK, SessionsHoldOpen, SigningIn, HasItAlone, TabGoes, Opened, CanOpen, Deleting, Leftover, Wiped, ClosedTab, KeyNames, Anyone, OwnerChanged
<1>. QED  BY <1>1, <1>2, <1>3, <1>4, <1>5, <1>6 DEF StoreInv

LEMMA TabTeardownKeeps ==
  ASSUME StoreInv, NarrowRaces = FALSE, NEW t \in BrowserTabs, Teardown(t)
  PROVE  StoreInv'
<1>1. StoreTypeOK'
  <2>. DEFINE q == [oTab[t] EXCEPT !.pc = "teardown"]
  <2>1. oTab' = [oTab EXCEPT ![t] = q]
    BY DEF Teardown, TabGoes
  <2>2. q \in TabRecords /\ q.pc \in Going
    BY TabIsTyped DEF TabRecords, Going, Anyone
  <2>. HIDE DEF q
  <2>. QED  BY <2>1, <2>2, TabGoesOn DEF Teardown, StoreInv, StoreTypeOK, Anyone
<1>2. SessionsHoldOpen'
  BY StoreAssumption DEF Teardown, StoreInv, StoreTypeOK, SessionsHoldOpen, SigningIn, HasItAlone, TabGoes, Opened, CanOpen, Deleting, Leftover, Wiped, ClosedTab, KeyNames, Anyone, OwnerChanged
<1>3. \A x, y \in BrowserTabs : SigningIn(x)' /\ SigningIn(y)' => x = y
  BY StoreAssumption DEF Teardown, StoreInv, StoreTypeOK, SessionsHoldOpen, SigningIn, HasItAlone, TabGoes, Opened, CanOpen, Deleting, Leftover, Wiped, ClosedTab, KeyNames, Anyone, OwnerChanged
<1>4. oOwner' # Nobody => HasItAlone(oOwner)'
  BY StoreAssumption DEF Teardown, StoreInv, StoreTypeOK, SessionsHoldOpen, SigningIn, HasItAlone, TabGoes, Opened, CanOpen, Deleting, Leftover, Wiped, ClosedTab, KeyNames, Anyone, OwnerChanged
<1>5. \A x \in BrowserTabs : oTab'[x].pc \in {"local", "sharing", "backup"} => HasItAlone(oTab[x].user)'
  BY StoreAssumption DEF Teardown, StoreInv, StoreTypeOK, SessionsHoldOpen, SigningIn, HasItAlone, TabGoes, Opened, CanOpen, Deleting, Leftover, Wiped, ClosedTab, KeyNames, Anyone, OwnerChanged
<1>6. \A x \in BrowserTabs : oTab'[x].pc \in {"sharing", "backup"} => oOwner' \in {oTab'[x].user, Nobody}
  BY StoreAssumption DEF Teardown, StoreInv, StoreTypeOK, SessionsHoldOpen, SigningIn, HasItAlone, TabGoes, Opened, CanOpen, Deleting, Leftover, Wiped, ClosedTab, KeyNames, Anyone, OwnerChanged
<1>. QED  BY <1>1, <1>2, <1>3, <1>4, <1>5, <1>6 DEF StoreInv

LEMMA TabClearSessionKeeps ==
  ASSUME StoreInv, NarrowRaces = FALSE, NEW t \in BrowserTabs, ClearSession(t)
  PROVE  StoreInv'
<1>1. StoreTypeOK'
  <2>. DEFINE q == [oTab[t] EXCEPT !.pc = "wipeout", !.open = FALSE]
  <2>1. oTab' = [oTab EXCEPT ![t] = q]
    BY DEF ClearSession
  <2>2. q \in TabRecords /\ q.pc \in Going
    BY TabIsTyped DEF TabRecords, Going, Anyone
  <2>. HIDE DEF q
  <2>. QED  BY <2>1, <2>2, TabGoesOn DEF ClearSession, StoreInv, StoreTypeOK, Anyone
<1>2. SessionsHoldOpen'
  BY StoreAssumption DEF ClearSession, StoreInv, StoreTypeOK, SessionsHoldOpen, SigningIn, HasItAlone, TabGoes, Opened, CanOpen, Deleting, Leftover, Wiped, ClosedTab, KeyNames, Anyone, OwnerChanged
<1>3. \A x, y \in BrowserTabs : SigningIn(x)' /\ SigningIn(y)' => x = y
  BY StoreAssumption DEF ClearSession, StoreInv, StoreTypeOK, SessionsHoldOpen, SigningIn, HasItAlone, TabGoes, Opened, CanOpen, Deleting, Leftover, Wiped, ClosedTab, KeyNames, Anyone, OwnerChanged
<1>4. oOwner' # Nobody => HasItAlone(oOwner)'
  BY StoreAssumption DEF ClearSession, StoreInv, StoreTypeOK, SessionsHoldOpen, SigningIn, HasItAlone, TabGoes, Opened, CanOpen, Deleting, Leftover, Wiped, ClosedTab, KeyNames, Anyone, OwnerChanged
<1>5. \A x \in BrowserTabs : oTab'[x].pc \in {"local", "sharing", "backup"} => HasItAlone(oTab[x].user)'
  BY StoreAssumption DEF ClearSession, StoreInv, StoreTypeOK, SessionsHoldOpen, SigningIn, HasItAlone, TabGoes, Opened, CanOpen, Deleting, Leftover, Wiped, ClosedTab, KeyNames, Anyone, OwnerChanged
<1>6. \A x \in BrowserTabs : oTab'[x].pc \in {"sharing", "backup"} => oOwner' \in {oTab'[x].user, Nobody}
  BY StoreAssumption DEF ClearSession, StoreInv, StoreTypeOK, SessionsHoldOpen, SigningIn, HasItAlone, TabGoes, Opened, CanOpen, Deleting, Leftover, Wiped, ClosedTab, KeyNames, Anyone, OwnerChanged
<1>. QED  BY <1>1, <1>2, <1>3, <1>4, <1>5, <1>6 DEF StoreInv

LEMMA TabUnauthorizedKeeps ==
  ASSUME StoreInv, NarrowRaces = FALSE, NEW t \in BrowserTabs, Unauthorized(t)
  PROVE  StoreInv'
<1>1. StoreTypeOK'
  <2>. DEFINE q == [oTab[t] EXCEPT !.pc = "out", !.user = Nobody]
  <2>1. oTab' = [oTab EXCEPT ![t] = q]
    BY DEF Unauthorized
  <2>2. q \in TabRecords /\ q.pc \in Going
    BY TabIsTyped DEF TabRecords, Going, Anyone
  <2>. HIDE DEF q
  <2>. QED  BY <2>1, <2>2, TabGoesOn DEF Unauthorized, StoreInv, StoreTypeOK, Anyone
<1>2. SessionsHoldOpen'
  BY StoreAssumption DEF Unauthorized, StoreInv, StoreTypeOK, SessionsHoldOpen, SigningIn, HasItAlone, TabGoes, Opened, CanOpen, Deleting, Leftover, Wiped, ClosedTab, KeyNames, Anyone, OwnerChanged
<1>3. \A x, y \in BrowserTabs : SigningIn(x)' /\ SigningIn(y)' => x = y
  BY StoreAssumption DEF Unauthorized, StoreInv, StoreTypeOK, SessionsHoldOpen, SigningIn, HasItAlone, TabGoes, Opened, CanOpen, Deleting, Leftover, Wiped, ClosedTab, KeyNames, Anyone, OwnerChanged
<1>4. oOwner' # Nobody => HasItAlone(oOwner)'
  BY StoreAssumption DEF Unauthorized, StoreInv, StoreTypeOK, SessionsHoldOpen, SigningIn, HasItAlone, TabGoes, Opened, CanOpen, Deleting, Leftover, Wiped, ClosedTab, KeyNames, Anyone, OwnerChanged
<1>5. \A x \in BrowserTabs : oTab'[x].pc \in {"local", "sharing", "backup"} => HasItAlone(oTab[x].user)'
  BY StoreAssumption DEF Unauthorized, StoreInv, StoreTypeOK, SessionsHoldOpen, SigningIn, HasItAlone, TabGoes, Opened, CanOpen, Deleting, Leftover, Wiped, ClosedTab, KeyNames, Anyone, OwnerChanged
<1>6. \A x \in BrowserTabs : oTab'[x].pc \in {"sharing", "backup"} => oOwner' \in {oTab'[x].user, Nobody}
  BY StoreAssumption DEF Unauthorized, StoreInv, StoreTypeOK, SessionsHoldOpen, SigningIn, HasItAlone, TabGoes, Opened, CanOpen, Deleting, Leftover, Wiped, ClosedTab, KeyNames, Anyone, OwnerChanged
<1>. QED  BY <1>1, <1>2, <1>3, <1>4, <1>5, <1>6 DEF StoreInv

LEMMA StoreStep ==
  ASSUME StoreInv, NarrowRaces = FALSE, [StoreNext]_oVars
  PROVE  StoreInv'
<1>1. ASSUME NEW t \in BrowserTabs,
             \/ StartTab(t) \/ OpenAtLast(t) \/ LoadKeys(t) \/ CloseTab(t)
             \/ \E u \in LocalUsers : SubmitLogin(t, u)
             \/ SaveRotated(t) \/ CheckOwner(t) \/ DatabaseDeleted(t) \/ StoreLocal(t) \/ PutKey(t)
             \/ StartTabSync(t) \/ SyncWrites(t) \/ EndTabSync(t)
             \/ Teardown(t) \/ ClearSession(t) \/ Unauthorized(t)
      PROVE  StoreInv'
  BY <1>1, TabStartTabKeeps, TabOpenAtLastKeeps, TabLoadKeysKeeps, TabCloseTabKeeps, TabSubmitKeeps,
     TabSaveRotatedKeeps, TabCheckOwnerKeeps, TabDatabaseDeletedKeeps, TabStoreLocalKeeps, TabPutKeyKeeps,
     TabStartTabSyncKeeps, TabSyncWritesKeeps, TabEndTabSyncKeeps, TabTeardownKeeps, TabClearSessionKeeps,
     TabUnauthorizedKeeps
<1>2. CASE UNCHANGED oVars
  BY <1>2 DEF oVars, StoreInv, StoreTypeOK, SessionsHoldOpen, SigningIn, HasItAlone
<1>. QED  BY <1>1, <1>2 DEF StoreNext

(* Whatever tabs sign in, are torn down, wait for one another's database   *)
(* connections or are closed in between: the account that localStorage     *)
(* names is the only one the database and the tabs at work hold anything   *)
(* of.  A sync that outlives its session by the next sign-in's wipe, and a *)
(* tab that starts while another stores its sign-in, are excluded.         *)
THEOREM BrowserHasOneOwner ==
  ASSUME NarrowRaces = FALSE
  PROVE  StoreSpec => []OneOwner
<1>1. StoreInit => StoreInv
  BY StoreInvInit
<1>2. StoreInv /\ [StoreNext]_oVars => StoreInv'
  BY StoreStep
<1>3. StoreInv => OneOwner
  BY DEF StoreInv, HasItAlone, OneOwner
<1>. QED  BY <1>1, <1>2, <1>3, PTL DEF StoreSpec

-----------------------------------------------------------------------------
(* The pictures of an open conversation.                                   *)

(* What a list of files can make the view fetch is among the urls, and so   *)
(* is what renders for one of its files.                                   *)
LEMMA UrlsOfFiles ==
  /\ \A files \in SUBSET MediaFiles : Loadables(files) \subseteq Urls
  /\ \A files \in SUBSET MediaFiles : \A f \in files : DisplayUrl(f) \in Loadables(files)
  /\ \A f \in MediaFiles : DisplayUrl(f) \in Urls
  /\ \A f \in Previewed : Full(f) \in Urls
BY MediaAssumption DEF Loadables, Urls, DisplayUrl

(* The loads there are, with the aborts of some urls' controllers.         *)
LEMMA LoadsAreTyped ==
  ASSUME MediaTypeOK
  PROVE  /\ \A n \in LoadIds : vLoad[n].pc # "none" => vLoad[n] \in Loading
         /\ \A n \in LoadIds : vLoad[n] \in {NoLoad} \cup Loading
         /\ 0 \notin LoadIds /\ LoadIds \subseteq Nat
BY MediaAssumption DEF MediaTypeOK, LoadIds, NoLoad, Loading

LEMMA AbortedLoads ==
  ASSUME MediaInv, NEW S \in SUBSET Urls
  PROVE  /\ Aborted(vLoad, S) \in [LoadIds -> {NoLoad} \cup Loading]
         /\ \A n \in LoadIds :
              /\ Aborted(vLoad, S)[n].pc = vLoad[n].pc /\ Aborted(vLoad, S)[n].u = vLoad[n].u
              /\ ~Aborted(vLoad, S)[n].aborted => ~vLoad[n].aborted /\ \A w \in S : vCtl[w] # n
<1>. DEFINE A(n) == IF \E w \in S : vCtl[w] = n THEN [vLoad[n] EXCEPT !.aborted = TRUE] ELSE vLoad[n]
<1>1. \A n \in LoadIds : Aborted(vLoad, S)[n] = A(n)
  BY DEF Aborted
<1>2. ASSUME NEW n \in LoadIds PROVE
        /\ A(n) \in {NoLoad} \cup Loading
        /\ A(n).pc = vLoad[n].pc /\ A(n).u = vLoad[n].u
        /\ ~A(n).aborted => ~vLoad[n].aborted /\ \A w \in S : vCtl[w] # n
  <2>1. CASE \E w \in S : vCtl[w] = n
    <3>1. vLoad[n].pc # "none"
      BY <2>1, LoadsAreTyped DEF MediaInv, LoadsControlled
    <3>2. vLoad[n] \in Loading
      BY <3>1, LoadsAreTyped DEF MediaInv
    <3>. QED  BY <2>1, <3>2 DEF Loading
  <2>2. CASE ~\E w \in S : vCtl[w] = n
    BY <2>2, LoadsAreTyped DEF MediaInv
  <2>. QED  BY <2>1, <2>2
<1>3. Aborted(vLoad, S) = [n \in LoadIds |-> A(n)]
  BY DEF Aborted
<1>. HIDE DEF A
<1>. QED  BY <1>1, <1>2, <1>3

LEMMA MediaInvInit == ASSUME MediaInit PROVE MediaInv
<1>1. LoadsCounted
  <2>1. 0 \in 0..MaxLoads /\ \A n \in LoadIds : vLoad[n].pc # "none" <=> n <= 0
    BY MediaAssumption DEF MediaInit, LoadIds, NoLoad
  <2>. QED  BY <2>1 DEF LoadsCounted
<1>2. MediaTypeOK
  BY MediaAssumption DEF MediaInit, MediaTypeOK, LoadIds, NoLoad, NoEntry, Entry
<1>. QED
  BY <1>1, <1>2 DEF MediaInit, MediaInv, ViewTracks, UrlsKept, LoadsControlled, NoLoad, NoEntry, Entry

LEMMA MediaSyncKeeps ==
  ASSUME MediaInv, NEW files \in SUBSET MediaFiles, SyncFiles(files)
  PROVE  MediaInv'
<1>. DEFINE gone == vTracked \ Loadables(files)
<1>. DEFINE A == Aborted(vLoad, gone)
<1>a. /\ A \in [LoadIds -> {NoLoad} \cup Loading]
      /\ \A m \in LoadIds :
              /\ A[m].pc = vLoad[m].pc /\ A[m].u = vLoad[m].u
              /\ ~A[m].aborted => ~vLoad[m].aborted /\ \A w \in gone : vCtl[w] # m
  BY AbortedLoads DEF MediaInv, MediaTypeOK, ViewTracks
<1>b. vLoad' = A
  BY DEF SyncFiles
<1>. HIDE DEF A
<1>1. MediaTypeOK'
  <2>1. (vOpen \in BOOLEAN /\ vFiles \subseteq MediaFiles)'
    BY <1>a, <1>b, UrlsOfFiles, LoadsAreTyped DEF SyncFiles, MediaInv, MediaTypeOK, LoadsCounted, ViewTracks, UrlsKept, LoadsControlled, NoEntry, Entry, viewRefs, viewRest
  <2>2. (vState \in [Urls -> [status : {"none", "idle", "loading", "ready", "corrupt", "unavailable",
                                   "network-error"},
                          url : LoadIds \cup {0}]])'
    BY <1>a, <1>b, UrlsOfFiles, LoadsAreTyped DEF SyncFiles, MediaInv, MediaTypeOK, LoadsCounted, ViewTracks, UrlsKept, LoadsControlled, NoEntry, Entry, viewRefs, viewRest
  <2>3. (\A x \in Urls : vState[x].url # 0 <=> vState[x].status = "ready")'
    BY <1>a, <1>b, UrlsOfFiles, LoadsAreTyped DEF SyncFiles, MediaInv, MediaTypeOK, LoadsCounted, ViewTracks, UrlsKept, LoadsControlled, NoEntry, Entry, viewRefs, viewRest
  <2>4. ({vBlobs, vCtl} \subseteq [Urls -> LoadIds \cup {0}])'
    BY <1>a, <1>b, UrlsOfFiles, LoadsAreTyped DEF SyncFiles, MediaInv, MediaTypeOK, LoadsCounted, ViewTracks, UrlsKept, LoadsControlled, NoEntry, Entry, viewRefs, viewRest
  <2>5. (vLive \subseteq LoadIds)'
    BY <1>a, <1>b, UrlsOfFiles, LoadsAreTyped DEF SyncFiles, MediaInv, MediaTypeOK, LoadsCounted, ViewTracks, UrlsKept, LoadsControlled, NoEntry, Entry, viewRefs, viewRest
  <2>6. (vLoad \in [LoadIds -> {NoLoad} \cup Loading])'
    BY <1>a, <1>b, UrlsOfFiles, LoadsAreTyped DEF SyncFiles, MediaInv, MediaTypeOK, LoadsCounted, ViewTracks, UrlsKept, LoadsControlled, NoEntry, Entry, viewRefs, viewRest
  <2>7. (vWatched \cup vTriggered \cup vTracked \cup vCache \cup vWrites \subseteq Urls)'
    BY <1>a, <1>b, UrlsOfFiles, LoadsAreTyped DEF SyncFiles, MediaInv, MediaTypeOK, LoadsCounted, ViewTracks, UrlsKept, LoadsControlled, NoEntry, Entry, viewRefs, viewRest
  <2>. QED  BY <2>1, <2>2, <2>3, <2>4, <2>5, <2>6, <2>7 DEF MediaTypeOK
<1>2. (LoadsCounted)'
  BY <1>a, <1>b, UrlsOfFiles, LoadsAreTyped DEF SyncFiles, MediaInv, MediaTypeOK, LoadsCounted, ViewTracks, UrlsKept, LoadsControlled, NoEntry, Entry, viewRefs, viewRest
<1>3. ViewTracks'
  <2>. DEFINE shown == {DisplayUrl(f) : f \in files \cap Pictures}
  <2>1. shown \subseteq Loadables(files)
    BY UrlsOfFiles
  <2>2. /\ vOpen' /\ vFiles' = files
        /\ vTracked' = (vTracked \cup shown) \ gone /\ vWatched' = vWatched \ gone
    BY DEF SyncFiles
  <2>3. vTracked' \subseteq Loadables(files)
    BY <2>1, <2>2
  <2>4. \A f \in files \cap Pictures : DisplayUrl(f) \in shown
    OBVIOUS
  <2>5. \A f \in files \cap Pictures : DisplayUrl(f) \in vTracked'
    BY <2>1, <2>2, <2>4
  <2>6. vWatched' \subseteq vTracked'
    BY <2>2 DEF MediaInv, ViewTracks
  <2>. QED  BY <2>2, <2>3, <2>5, <2>6 DEF ViewTracks
<1>4. (\A x \in Urls : vBlobs[x] # 0 => /\ x \in vTracked /\ vBlobs[x] \in vLive /\ vLoad[vBlobs[x]].pc # "none" /\ vLoad[vBlobs[x]].u = x)'
  BY <1>a, <1>b, UrlsOfFiles, LoadsAreTyped DEF SyncFiles, MediaInv, MediaTypeOK, LoadsCounted, ViewTracks, UrlsKept, LoadsControlled, NoEntry, Entry, viewRefs, viewRest
<1>5. (\A m \in vLive : \E x \in Urls : vBlobs[x] = m)'
  BY <1>a, <1>b, UrlsOfFiles, LoadsAreTyped DEF SyncFiles, MediaInv, MediaTypeOK, LoadsCounted, ViewTracks, UrlsKept, LoadsControlled, NoEntry, Entry, viewRefs, viewRest
<1>6. (\A x \in Urls : vState[x].status = "ready" => vState[x].url = vBlobs[x])'
  BY <1>a, <1>b, UrlsOfFiles, LoadsAreTyped DEF SyncFiles, MediaInv, MediaTypeOK, LoadsCounted, ViewTracks, UrlsKept, LoadsControlled, NoEntry, Entry, viewRefs, viewRest
<1>7. (\A x \in Urls : vCtl[x] # 0 => vLoad[vCtl[x]].pc # "none")'
  BY <1>a, <1>b, UrlsOfFiles, LoadsAreTyped DEF SyncFiles, MediaInv, MediaTypeOK, LoadsCounted, ViewTracks, UrlsKept, LoadsControlled, NoEntry, Entry, viewRefs, viewRest
<1>8. (\A m \in LoadIds : vLoad[m].pc \in {"cache", "fetch", "decrypt"} /\ ~vLoad[m].aborted =>
        vLoad[m].u \in vTracked /\ vCtl[vLoad[m].u] = m)'
  BY <1>a, <1>b, UrlsOfFiles, LoadsAreTyped DEF SyncFiles, MediaInv, MediaTypeOK, LoadsCounted, ViewTracks, UrlsKept, LoadsControlled, NoEntry, Entry, viewRefs, viewRest
<1>. QED
  BY <1>1, <1>2, <1>3, <1>4, <1>5, <1>6, <1>7, <1>8 DEF MediaInv, UrlsKept, LoadsControlled

LEMMA MediaObserveKeeps ==
  ASSUME MediaInv, NEW f \in MediaFiles, Observe(f)
  PROVE  MediaInv'
<1>1. MediaTypeOK'
  BY UrlsOfFiles, LoadsAreTyped DEF Observe, MediaInv, MediaTypeOK, LoadsCounted, ViewTracks, UrlsKept, LoadsControlled, NoEntry, Entry, viewRefs, viewRest
<1>2. (LoadsCounted)'
  BY UrlsOfFiles, LoadsAreTyped DEF Observe, MediaInv, MediaTypeOK, LoadsCounted, ViewTracks, UrlsKept, LoadsControlled, NoEntry, Entry, viewRefs, viewRest
<1>3. (ViewTracks)'
  BY UrlsOfFiles, LoadsAreTyped DEF Observe, MediaInv, MediaTypeOK, LoadsCounted, ViewTracks, UrlsKept, LoadsControlled, NoEntry, Entry, viewRefs, viewRest
<1>4. (\A x \in Urls : vBlobs[x] # 0 => /\ x \in vTracked /\ vBlobs[x] \in vLive /\ vLoad[vBlobs[x]].pc # "none" /\ vLoad[vBlobs[x]].u = x)'
  BY UrlsOfFiles, LoadsAreTyped DEF Observe, MediaInv, MediaTypeOK, LoadsCounted, ViewTracks, UrlsKept, LoadsControlled, NoEntry, Entry, viewRefs, viewRest
<1>5. (\A m \in vLive : \E x \in Urls : vBlobs[x] = m)'
  BY UrlsOfFiles, LoadsAreTyped DEF Observe, MediaInv, MediaTypeOK, LoadsCounted, ViewTracks, UrlsKept, LoadsControlled, NoEntry, Entry, viewRefs, viewRest
<1>6. (\A x \in Urls : vState[x].status = "ready" => vState[x].url = vBlobs[x])'
  BY UrlsOfFiles, LoadsAreTyped DEF Observe, MediaInv, MediaTypeOK, LoadsCounted, ViewTracks, UrlsKept, LoadsControlled, NoEntry, Entry, viewRefs, viewRest
<1>7. (\A x \in Urls : vCtl[x] # 0 => vLoad[vCtl[x]].pc # "none")'
  BY UrlsOfFiles, LoadsAreTyped DEF Observe, MediaInv, MediaTypeOK, LoadsCounted, ViewTracks, UrlsKept, LoadsControlled, NoEntry, Entry, viewRefs, viewRest
<1>8. (\A m \in LoadIds : vLoad[m].pc \in {"cache", "fetch", "decrypt"} /\ ~vLoad[m].aborted =>
        vLoad[m].u \in vTracked /\ vCtl[vLoad[m].u] = m)'
  BY UrlsOfFiles, LoadsAreTyped DEF Observe, MediaInv, MediaTypeOK, LoadsCounted, ViewTracks, UrlsKept, LoadsControlled, NoEntry, Entry, viewRefs, viewRest
<1>. QED
  BY <1>1, <1>2, <1>3, <1>4, <1>5, <1>6, <1>7, <1>8 DEF MediaInv, UrlsKept, LoadsControlled

LEMMA MediaCloseKeeps ==
  ASSUME MediaInv, CloseView
  PROVE  MediaInv'
<1>. DEFINE A == Aborted(vLoad, Urls)
<1>a. /\ A \in [LoadIds -> {NoLoad} \cup Loading]
      /\ \A m \in LoadIds :
              /\ A[m].pc = vLoad[m].pc /\ A[m].u = vLoad[m].u
              /\ ~A[m].aborted => ~vLoad[m].aborted /\ \A w \in Urls : vCtl[w] # m
  BY AbortedLoads DEF MediaInv, MediaTypeOK, ViewTracks
<1>b. vLoad' = A
  BY DEF CloseView
<1>. HIDE DEF A
<1>1. MediaTypeOK'
  <2>1. (vOpen \in BOOLEAN /\ vFiles \subseteq MediaFiles)'
    BY <1>a, <1>b, UrlsOfFiles, LoadsAreTyped DEF CloseView, MediaInv, MediaTypeOK, LoadsCounted, ViewTracks, UrlsKept, LoadsControlled, NoEntry, Entry, viewRefs, viewRest
  <2>2. (vState \in [Urls -> [status : {"none", "idle", "loading", "ready", "corrupt", "unavailable",
                                   "network-error"},
                          url : LoadIds \cup {0}]])'
    BY <1>a, <1>b, UrlsOfFiles, LoadsAreTyped DEF CloseView, MediaInv, MediaTypeOK, LoadsCounted, ViewTracks, UrlsKept, LoadsControlled, NoEntry, Entry, viewRefs, viewRest
  <2>3. (\A x \in Urls : vState[x].url # 0 <=> vState[x].status = "ready")'
    BY <1>a, <1>b, UrlsOfFiles, LoadsAreTyped DEF CloseView, MediaInv, MediaTypeOK, LoadsCounted, ViewTracks, UrlsKept, LoadsControlled, NoEntry, Entry, viewRefs, viewRest
  <2>4. ({vBlobs, vCtl} \subseteq [Urls -> LoadIds \cup {0}])'
    BY <1>a, <1>b, UrlsOfFiles, LoadsAreTyped DEF CloseView, MediaInv, MediaTypeOK, LoadsCounted, ViewTracks, UrlsKept, LoadsControlled, NoEntry, Entry, viewRefs, viewRest
  <2>5. (vLive \subseteq LoadIds)'
    BY <1>a, <1>b, UrlsOfFiles, LoadsAreTyped DEF CloseView, MediaInv, MediaTypeOK, LoadsCounted, ViewTracks, UrlsKept, LoadsControlled, NoEntry, Entry, viewRefs, viewRest
  <2>6. (vLoad \in [LoadIds -> {NoLoad} \cup Loading])'
    BY <1>a, <1>b, UrlsOfFiles, LoadsAreTyped DEF CloseView, MediaInv, MediaTypeOK, LoadsCounted, ViewTracks, UrlsKept, LoadsControlled, NoEntry, Entry, viewRefs, viewRest
  <2>7. (vWatched \cup vTriggered \cup vTracked \cup vCache \cup vWrites \subseteq Urls)'
    BY <1>a, <1>b, UrlsOfFiles, LoadsAreTyped DEF CloseView, MediaInv, MediaTypeOK, LoadsCounted, ViewTracks, UrlsKept, LoadsControlled, NoEntry, Entry, viewRefs, viewRest
  <2>. QED  BY <2>1, <2>2, <2>3, <2>4, <2>5, <2>6, <2>7 DEF MediaTypeOK
<1>2. (LoadsCounted)'
  BY <1>a, <1>b, UrlsOfFiles, LoadsAreTyped DEF CloseView, MediaInv, MediaTypeOK, LoadsCounted, ViewTracks, UrlsKept, LoadsControlled, NoEntry, Entry, viewRefs, viewRest
<1>3. (ViewTracks)'
  BY <1>a, <1>b, UrlsOfFiles, LoadsAreTyped DEF CloseView, MediaInv, MediaTypeOK, LoadsCounted, ViewTracks, UrlsKept, LoadsControlled, NoEntry, Entry, viewRefs, viewRest
<1>4. (\A x \in Urls : vBlobs[x] # 0 => /\ x \in vTracked /\ vBlobs[x] \in vLive /\ vLoad[vBlobs[x]].pc # "none" /\ vLoad[vBlobs[x]].u = x)'
  BY <1>a, <1>b, UrlsOfFiles, LoadsAreTyped DEF CloseView, MediaInv, MediaTypeOK, LoadsCounted, ViewTracks, UrlsKept, LoadsControlled, NoEntry, Entry, viewRefs, viewRest
<1>5. (\A m \in vLive : \E x \in Urls : vBlobs[x] = m)'
  BY <1>a, <1>b, UrlsOfFiles, LoadsAreTyped DEF CloseView, MediaInv, MediaTypeOK, LoadsCounted, ViewTracks, UrlsKept, LoadsControlled, NoEntry, Entry, viewRefs, viewRest
<1>6. (\A x \in Urls : vState[x].status = "ready" => vState[x].url = vBlobs[x])'
  BY <1>a, <1>b, UrlsOfFiles, LoadsAreTyped DEF CloseView, MediaInv, MediaTypeOK, LoadsCounted, ViewTracks, UrlsKept, LoadsControlled, NoEntry, Entry, viewRefs, viewRest
<1>7. (\A x \in Urls : vCtl[x] # 0 => vLoad[vCtl[x]].pc # "none")'
  BY <1>a, <1>b, UrlsOfFiles, LoadsAreTyped DEF CloseView, MediaInv, MediaTypeOK, LoadsCounted, ViewTracks, UrlsKept, LoadsControlled, NoEntry, Entry, viewRefs, viewRest
<1>8. (\A m \in LoadIds : vLoad[m].pc \in {"cache", "fetch", "decrypt"} /\ ~vLoad[m].aborted =>
        vLoad[m].u \in vTracked /\ vCtl[vLoad[m].u] = m)'
  BY <1>a, <1>b, UrlsOfFiles, LoadsAreTyped DEF CloseView, MediaInv, MediaTypeOK, LoadsCounted, ViewTracks, UrlsKept, LoadsControlled, NoEntry, Entry, viewRefs, viewRest
<1>. QED
  BY <1>1, <1>2, <1>3, <1>4, <1>5, <1>6, <1>7, <1>8 DEF MediaInv, UrlsKept, LoadsControlled

LEMMA MediaCacheKeeps ==
  ASSUME MediaInv, NEW u \in Urls, CacheAfterLoad(u)
  PROVE  MediaInv'
<1>1. MediaTypeOK'
  BY UrlsOfFiles, LoadsAreTyped DEF CacheAfterLoad, MediaInv, MediaTypeOK, LoadsCounted, ViewTracks, UrlsKept, LoadsControlled, NoEntry, Entry, viewRefs, viewRest
<1>2. (LoadsCounted)'
  BY UrlsOfFiles, LoadsAreTyped DEF CacheAfterLoad, MediaInv, MediaTypeOK, LoadsCounted, ViewTracks, UrlsKept, LoadsControlled, NoEntry, Entry, viewRefs, viewRest
<1>3. (ViewTracks)'
  BY UrlsOfFiles, LoadsAreTyped DEF CacheAfterLoad, MediaInv, MediaTypeOK, LoadsCounted, ViewTracks, UrlsKept, LoadsControlled, NoEntry, Entry, viewRefs, viewRest
<1>4. (\A x \in Urls : vBlobs[x] # 0 => /\ x \in vTracked /\ vBlobs[x] \in vLive /\ vLoad[vBlobs[x]].pc # "none" /\ vLoad[vBlobs[x]].u = x)'
  BY UrlsOfFiles, LoadsAreTyped DEF CacheAfterLoad, MediaInv, MediaTypeOK, LoadsCounted, ViewTracks, UrlsKept, LoadsControlled, NoEntry, Entry, viewRefs, viewRest
<1>5. (\A m \in vLive : \E x \in Urls : vBlobs[x] = m)'
  BY UrlsOfFiles, LoadsAreTyped DEF CacheAfterLoad, MediaInv, MediaTypeOK, LoadsCounted, ViewTracks, UrlsKept, LoadsControlled, NoEntry, Entry, viewRefs, viewRest
<1>6. (\A x \in Urls : vState[x].status = "ready" => vState[x].url = vBlobs[x])'
  BY UrlsOfFiles, LoadsAreTyped DEF CacheAfterLoad, MediaInv, MediaTypeOK, LoadsCounted, ViewTracks, UrlsKept, LoadsControlled, NoEntry, Entry, viewRefs, viewRest
<1>7. (\A x \in Urls : vCtl[x] # 0 => vLoad[vCtl[x]].pc # "none")'
  BY UrlsOfFiles, LoadsAreTyped DEF CacheAfterLoad, MediaInv, MediaTypeOK, LoadsCounted, ViewTracks, UrlsKept, LoadsControlled, NoEntry, Entry, viewRefs, viewRest
<1>8. (\A m \in LoadIds : vLoad[m].pc \in {"cache", "fetch", "decrypt"} /\ ~vLoad[m].aborted =>
        vLoad[m].u \in vTracked /\ vCtl[vLoad[m].u] = m)'
  BY UrlsOfFiles, LoadsAreTyped DEF CacheAfterLoad, MediaInv, MediaTypeOK, LoadsCounted, ViewTracks, UrlsKept, LoadsControlled, NoEntry, Entry, viewRefs, viewRest
<1>. QED
  BY <1>1, <1>2, <1>3, <1>4, <1>5, <1>6, <1>7, <1>8 DEF MediaInv, UrlsKept, LoadsControlled

LEMMA MediaEvictKeeps ==
  ASSUME MediaInv, NEW f \in MediaFiles, EvictDeleted(f)
  PROVE  MediaInv'
<1>1. MediaTypeOK'
  BY UrlsOfFiles, LoadsAreTyped DEF EvictDeleted, MediaInv, MediaTypeOK, LoadsCounted, ViewTracks, UrlsKept, LoadsControlled, NoEntry, Entry, viewRefs, viewRest
<1>2. (LoadsCounted)'
  BY UrlsOfFiles, LoadsAreTyped DEF EvictDeleted, MediaInv, MediaTypeOK, LoadsCounted, ViewTracks, UrlsKept, LoadsControlled, NoEntry, Entry, viewRefs, viewRest
<1>3. (ViewTracks)'
  BY UrlsOfFiles, LoadsAreTyped DEF EvictDeleted, MediaInv, MediaTypeOK, LoadsCounted, ViewTracks, UrlsKept, LoadsControlled, NoEntry, Entry, viewRefs, viewRest
<1>4. (\A x \in Urls : vBlobs[x] # 0 => /\ x \in vTracked /\ vBlobs[x] \in vLive /\ vLoad[vBlobs[x]].pc # "none" /\ vLoad[vBlobs[x]].u = x)'
  BY UrlsOfFiles, LoadsAreTyped DEF EvictDeleted, MediaInv, MediaTypeOK, LoadsCounted, ViewTracks, UrlsKept, LoadsControlled, NoEntry, Entry, viewRefs, viewRest
<1>5. (\A m \in vLive : \E x \in Urls : vBlobs[x] = m)'
  BY UrlsOfFiles, LoadsAreTyped DEF EvictDeleted, MediaInv, MediaTypeOK, LoadsCounted, ViewTracks, UrlsKept, LoadsControlled, NoEntry, Entry, viewRefs, viewRest
<1>6. (\A x \in Urls : vState[x].status = "ready" => vState[x].url = vBlobs[x])'
  BY UrlsOfFiles, LoadsAreTyped DEF EvictDeleted, MediaInv, MediaTypeOK, LoadsCounted, ViewTracks, UrlsKept, LoadsControlled, NoEntry, Entry, viewRefs, viewRest
<1>7. (\A x \in Urls : vCtl[x] # 0 => vLoad[vCtl[x]].pc # "none")'
  BY UrlsOfFiles, LoadsAreTyped DEF EvictDeleted, MediaInv, MediaTypeOK, LoadsCounted, ViewTracks, UrlsKept, LoadsControlled, NoEntry, Entry, viewRefs, viewRest
<1>8. (\A m \in LoadIds : vLoad[m].pc \in {"cache", "fetch", "decrypt"} /\ ~vLoad[m].aborted =>
        vLoad[m].u \in vTracked /\ vCtl[vLoad[m].u] = m)'
  BY UrlsOfFiles, LoadsAreTyped DEF EvictDeleted, MediaInv, MediaTypeOK, LoadsCounted, ViewTracks, UrlsKept, LoadsControlled, NoEntry, Entry, viewRefs, viewRest
<1>. QED
  BY <1>1, <1>2, <1>3, <1>4, <1>5, <1>6, <1>7, <1>8 DEF MediaInv, UrlsKept, LoadsControlled

(* A load that goes on keeps its url and its place among the loads.        *)
LEMMA LoadGoesOn ==
  ASSUME MediaInv, NEW n \in LoadIds, NEW pc \in {"fetch", "decrypt", "done"},
         vLoad[n].pc \in {"cache", "fetch", "decrypt"}, GoesOn(n, pc)
  PROVE  /\ vLoad' \in [LoadIds -> {NoLoad} \cup Loading]
         /\ vLoad[n].u \in Urls
         /\ \A m \in LoadIds : vLoad'[m].u = vLoad[m].u /\ vLoad'[m].aborted = vLoad[m].aborted
         /\ \A m \in LoadIds : vLoad'[m].pc # "none" <=> vLoad[m].pc # "none"
         /\ \A m \in LoadIds : vLoad'[m].pc \in {"cache", "fetch", "decrypt"} =>
                                 vLoad[m].pc \in {"cache", "fetch", "decrypt"}
<1>. DEFINE q == [vLoad[n] EXCEPT !.pc = pc]
<1>1. vLoad' = [vLoad EXCEPT ![n] = q]
  BY DEF GoesOn
<1>2. vLoad[n] \in Loading
  BY LoadsAreTyped DEF MediaInv
<1>3. q \in Loading /\ q.u = vLoad[n].u /\ q.aborted = vLoad[n].aborted /\ q.pc = pc /\ vLoad[n].u \in Urls
  BY <1>2 DEF Loading
<1>. HIDE DEF q
<1>. QED  BY <1>1, <1>2, <1>3 DEF MediaInv, MediaTypeOK

(* A step of a load, which may show what it has got or say what went wrong *)
(* while its controller stands.                                            *)
LEMMA MediaLoadStepKeeps ==
  ASSUME MediaInv, NEW n \in LoadIds, NEW pc \in {"fetch", "decrypt", "done"},
         vLoad[n].pc \in {"cache", "fetch", "decrypt"}, GoesOn(n, pc),
         UNCHANGED viewRest, vCache' \subseteq Urls, vWrites' \subseteq Urls,
         \/ UNCHANGED <<vState, vBlobs, vLive>>
         \/ ~vLoad[n].aborted /\ pc = "done" /\ Present(n)
         \/ /\ ~vLoad[n].aborted /\ pc = "done" /\ UNCHANGED <<vBlobs, vLive>>
            /\ \E s \in {"unavailable", "network-error", "corrupt"} :
                 vState' = [vState EXCEPT ![vLoad[n].u] = Entry(s, 0)]
  PROVE  MediaInv'
<1>1. MediaTypeOK'
  <2>1. (vOpen \in BOOLEAN /\ vFiles \subseteq MediaFiles)'
    BY LoadGoesOn, UrlsOfFiles, LoadsAreTyped DEF Present, MediaInv, MediaTypeOK, LoadsCounted, ViewTracks, UrlsKept, LoadsControlled, NoEntry, Entry, viewRefs, viewRest
  <2>2. (vState \in [Urls -> [status : {"none", "idle", "loading", "ready", "corrupt", "unavailable",
                                   "network-error"},
                          url : LoadIds \cup {0}]])'
    BY LoadGoesOn, UrlsOfFiles, LoadsAreTyped DEF Present, MediaInv, MediaTypeOK, LoadsCounted, ViewTracks, UrlsKept, LoadsControlled, NoEntry, Entry, viewRefs, viewRest
  <2>3. (\A x \in Urls : vState[x].url # 0 <=> vState[x].status = "ready")'
    <3>1. vLoad[n].u \in Urls /\ vState \in [Urls -> [status : {"none", "idle", "loading", "ready", "corrupt",
                                   "unavailable", "network-error"}, url : LoadIds \cup {0}]]
      BY LoadGoesOn DEF MediaInv, MediaTypeOK
    <3>2. CASE UNCHANGED vState
      BY <3>2 DEF MediaInv, MediaTypeOK
    <3>3. CASE Present(n)
      BY <3>1, <3>3, LoadsAreTyped DEF Present, Entry, MediaInv, MediaTypeOK
    <3>4. ASSUME NEW s \in {"unavailable", "network-error", "corrupt"},
                 vState' = [vState EXCEPT ![vLoad[n].u] = Entry(s, 0)]
          PROVE  \A x \in Urls : vState'[x].url # 0 <=> vState'[x].status = "ready"
      BY <3>1, <3>4 DEF Entry, MediaInv, MediaTypeOK
    <3>. QED  BY <3>2, <3>3, <3>4
  <2>4. ({vBlobs, vCtl} \subseteq [Urls -> LoadIds \cup {0}])'
    BY LoadGoesOn, UrlsOfFiles, LoadsAreTyped DEF Present, MediaInv, MediaTypeOK, LoadsCounted, ViewTracks, UrlsKept, LoadsControlled, NoEntry, Entry, viewRefs, viewRest
  <2>5. (vLive \subseteq LoadIds)'
    BY LoadGoesOn, UrlsOfFiles, LoadsAreTyped DEF Present, MediaInv, MediaTypeOK, LoadsCounted, ViewTracks, UrlsKept, LoadsControlled, NoEntry, Entry, viewRefs, viewRest
  <2>6. (vLoad \in [LoadIds -> {NoLoad} \cup Loading])'
    BY LoadGoesOn, UrlsOfFiles, LoadsAreTyped DEF Present, MediaInv, MediaTypeOK, LoadsCounted, ViewTracks, UrlsKept, LoadsControlled, NoEntry, Entry, viewRefs, viewRest
  <2>7. (vWatched \cup vTriggered \cup vTracked \cup vCache \cup vWrites \subseteq Urls)'
    BY LoadGoesOn, UrlsOfFiles, LoadsAreTyped DEF Present, MediaInv, MediaTypeOK, LoadsCounted, ViewTracks, UrlsKept, LoadsControlled, NoEntry, Entry, viewRefs, viewRest
  <2>. QED  BY <2>1, <2>2, <2>3, <2>4, <2>5, <2>6, <2>7 DEF MediaTypeOK
<1>2. (LoadsCounted)'
  BY LoadGoesOn, UrlsOfFiles, LoadsAreTyped DEF Present, MediaInv, MediaTypeOK, LoadsCounted, ViewTracks, UrlsKept, LoadsControlled, NoEntry, Entry, viewRefs, viewRest
<1>3. (ViewTracks)'
  BY LoadGoesOn, UrlsOfFiles, LoadsAreTyped DEF Present, MediaInv, MediaTypeOK, LoadsCounted, ViewTracks, UrlsKept, LoadsControlled, NoEntry, Entry, viewRefs, viewRest
<1>4. (\A x \in Urls : vBlobs[x] # 0 => /\ x \in vTracked /\ vBlobs[x] \in vLive /\ vLoad[vBlobs[x]].pc # "none" /\ vLoad[vBlobs[x]].u = x)'
  BY LoadGoesOn, UrlsOfFiles, LoadsAreTyped DEF Present, MediaInv, MediaTypeOK, LoadsCounted, ViewTracks, UrlsKept, LoadsControlled, NoEntry, Entry, viewRefs, viewRest
<1>5. (\A m \in vLive : \E x \in Urls : vBlobs[x] = m)'
  BY LoadGoesOn, UrlsOfFiles, LoadsAreTyped DEF Present, MediaInv, MediaTypeOK, LoadsCounted, ViewTracks, UrlsKept, LoadsControlled, NoEntry, Entry, viewRefs, viewRest
<1>6. (\A x \in Urls : vState[x].status = "ready" => vState[x].url = vBlobs[x])'
  BY LoadGoesOn, UrlsOfFiles, LoadsAreTyped DEF Present, MediaInv, MediaTypeOK, LoadsCounted, ViewTracks, UrlsKept, LoadsControlled, NoEntry, Entry, viewRefs, viewRest
<1>7. (\A x \in Urls : vCtl[x] # 0 => vLoad[vCtl[x]].pc # "none")'
  BY LoadGoesOn, UrlsOfFiles, LoadsAreTyped DEF Present, MediaInv, MediaTypeOK, LoadsCounted, ViewTracks, UrlsKept, LoadsControlled, NoEntry, Entry, viewRefs, viewRest
<1>8. (\A m \in LoadIds : vLoad[m].pc \in {"cache", "fetch", "decrypt"} /\ ~vLoad[m].aborted =>
        vLoad[m].u \in vTracked /\ vCtl[vLoad[m].u] = m)'
  BY LoadGoesOn, UrlsOfFiles, LoadsAreTyped DEF Present, MediaInv, MediaTypeOK, LoadsCounted, ViewTracks, UrlsKept, LoadsControlled, NoEntry, Entry, viewRefs, viewRest
<1>. QED
  BY <1>1, <1>2, <1>3, <1>4, <1>5, <1>6, <1>7, <1>8 DEF MediaInv, UrlsKept, LoadsControlled

LEMMA MediaReadCacheKeeps == ASSUME MediaInv, NEW n \in LoadIds, ReadCache(n) PROVE MediaInv'
<1>1. vLoad[n].pc \in {"cache", "fetch", "decrypt"} /\ vCache \subseteq Urls /\ vWrites \subseteq Urls /\ vLoad[n].u \in Urls
  BY LoadsAreTyped DEF ReadCache, Awaits, MediaInv, MediaTypeOK, Loading
<1>. QED  BY <1>1, MediaLoadStepKeeps DEF ReadCache, Awaits, Stops, Fails, viewRest

LEMMA MediaFetchMediaKeeps == ASSUME MediaInv, NEW n \in LoadIds, FetchMedia(n) PROVE MediaInv'
<1>1. vLoad[n].pc \in {"cache", "fetch", "decrypt"} /\ vCache \subseteq Urls /\ vWrites \subseteq Urls /\ vLoad[n].u \in Urls
  BY LoadsAreTyped DEF FetchMedia, Awaits, MediaInv, MediaTypeOK, Loading
<1>. QED  BY <1>1, MediaLoadStepKeeps DEF FetchMedia, Awaits, Stops, Fails, viewRest

LEMMA MediaDecryptMediaKeeps == ASSUME MediaInv, NEW n \in LoadIds, DecryptMedia(n) PROVE MediaInv'
<1>1. vLoad[n].pc \in {"cache", "fetch", "decrypt"} /\ vCache \subseteq Urls /\ vWrites \subseteq Urls /\ vLoad[n].u \in Urls
  BY LoadsAreTyped DEF DecryptMedia, Awaits, MediaInv, MediaTypeOK, Loading
<1>. QED  BY <1>1, MediaLoadStepKeeps DEF DecryptMedia, Awaits, Stops, Fails, viewRest

(* A load is a new one: nothing shown and no controller is named after it. *)
LEMMA LoadIsNew ==
  ASSUME MediaInv, NEW u \in Urls, Load(u)
  PROVE  \E n \in LoadIds :
           /\ vLoad[n].pc = "none"
           /\ \A m \in LoadIds : (vLoad[m].pc # "none" \/ m = n) <=> m <= n
           /\ n \notin vLive /\ \A w \in Urls : vCtl[w] # n /\ vBlobs[w] # n
           /\ vLoad' = [Aborted(vLoad, {u}) EXCEPT ![n] = [u |-> u, pc |-> "cache", aborted |-> FALSE]]
           /\ vCtl' = [vCtl EXCEPT ![u] = n]
<1>. DEFINE n == Cardinality({m \in LoadIds : vLoad[m].pc # "none"}) + 1
<1>1. PICK k \in 0..MaxLoads : \A m \in LoadIds : vLoad[m].pc # "none" <=> m <= k
  BY DEF MediaInv, LoadsCounted
<1>2. {m \in LoadIds : vLoad[m].pc # "none"} = 1..k
  BY <1>1, MediaAssumption DEF LoadIds
<1>3. n = k + 1
  <2>1. Cardinality(1..k) = k
    BY FS_Interval
  <2>. QED  BY <1>2, <2>1
<1>4. n \in LoadIds
  BY DEF Load
<1>5. /\ vLoad' = [Aborted(vLoad, {u}) EXCEPT ![n] = [u |-> u, pc |-> "cache", aborted |-> FALSE]]
      /\ vCtl' = [vCtl EXCEPT ![u] = n]
  BY DEF Load
<1>. HIDE DEF n
<1>6. vLoad[n].pc = "none" /\ \A m \in LoadIds : (vLoad[m].pc # "none" \/ m = n) <=> m <= n
  BY <1>1, <1>3, <1>4, MediaAssumption DEF LoadIds
<1>7. n \notin vLive /\ \A w \in Urls : vCtl[w] # n /\ vBlobs[w] # n
  BY <1>4, <1>6, LoadsAreTyped DEF MediaInv, MediaTypeOK, UrlsKept, LoadsControlled
<1>. QED  BY <1>4, <1>5, <1>6, <1>7

LEMMA MediaLoadKeeps ==
  ASSUME MediaInv, NEW u \in Urls, Load(u), vOpen, u \in Loadables(vFiles),
         vWatched' \subseteq vWatched, vTriggered' \subseteq vTriggered \cup {u}
  PROVE  MediaInv'
<1>n. PICK n \in LoadIds :
           /\ vLoad[n].pc = "none"
           /\ \A m \in LoadIds : (vLoad[m].pc # "none" \/ m = n) <=> m <= n
           /\ n \notin vLive /\ \A w \in Urls : vCtl[w] # n /\ vBlobs[w] # n
           /\ vLoad' = [Aborted(vLoad, {u}) EXCEPT ![n] = [u |-> u, pc |-> "cache", aborted |-> FALSE]]
           /\ vCtl' = [vCtl EXCEPT ![u] = n]
  BY LoadIsNew
<1>. DEFINE A == Aborted(vLoad, {u})
<1>a. /\ A \in [LoadIds -> {NoLoad} \cup Loading]
      /\ \A m \in LoadIds :
              /\ A[m].pc = vLoad[m].pc /\ A[m].u = vLoad[m].u
              /\ ~A[m].aborted => ~vLoad[m].aborted /\ \A w \in {u} : vCtl[w] # m
  BY AbortedLoads DEF MediaInv, MediaTypeOK, ViewTracks
<1>. DEFINE q == [u |-> u, pc |-> "cache", aborted |-> FALSE]
<1>q. q \in Loading /\ q.u = u /\ q.pc = "cache" /\ ~q.aborted
  BY DEF Loading
<1>b. vLoad' = [A EXCEPT ![n] = q]
  BY <1>n
<1>c. /\ vLoad' \in [LoadIds -> {NoLoad} \cup Loading] /\ vLoad'[n] = q
      /\ \A m \in LoadIds : m # n => /\ vLoad'[m].pc = vLoad[m].pc /\ vLoad'[m].u = vLoad[m].u
                                     /\ ~vLoad'[m].aborted => ~vLoad[m].aborted /\ vCtl[u] # m
  BY <1>a, <1>b, <1>q
<1>d. /\ vCtl' = [vCtl EXCEPT ![u] = n] /\ vLoad[n].pc = "none"
      /\ n \notin vLive /\ \A w \in Urls : vCtl[w] # n /\ vBlobs[w] # n
      /\ vTracked' = vTracked \cup {u} /\ vState' = [vState EXCEPT ![u] = Entry("loading", 0)]
      /\ UNCHANGED <<vOpen, vFiles, vBlobs, vLive, vCache, vWrites>>
  BY <1>n DEF Load
<1>. HIDE DEF A, q
<1>e. LoadsCounted'
  <2>1. n \in 0..MaxLoads
    BY DEF LoadIds
  <2>2. \A m \in LoadIds : vLoad'[m].pc # "none" <=> m <= n
    <3>1. ASSUME NEW m \in LoadIds PROVE vLoad'[m].pc # "none" <=> (vLoad[m].pc # "none" \/ m = n)
      BY <1>c, <1>q
    <3>2. \A m \in LoadIds : (vLoad[m].pc # "none" \/ m = n) <=> m <= n
      BY <1>n
    <3>. QED  BY <3>1, <3>2
  <2>. QED  BY <2>1, <2>2 DEF LoadsCounted
<1>1. MediaTypeOK'
  <2>1. (vOpen \in BOOLEAN /\ vFiles \subseteq MediaFiles)'
    BY <1>c, <1>d, <1>q, UrlsOfFiles, LoadsAreTyped DEF MediaInv, MediaTypeOK, LoadsCounted, ViewTracks, UrlsKept, LoadsControlled, NoEntry, Entry, viewRefs, viewRest
  <2>2. (vState \in [Urls -> [status : {"none", "idle", "loading", "ready", "corrupt", "unavailable",
                                   "network-error"},
                          url : LoadIds \cup {0}]])'
    BY <1>c, <1>d, <1>q, UrlsOfFiles, LoadsAreTyped DEF MediaInv, MediaTypeOK, LoadsCounted, ViewTracks, UrlsKept, LoadsControlled, NoEntry, Entry, viewRefs, viewRest
  <2>3. (\A x \in Urls : vState[x].url # 0 <=> vState[x].status = "ready")'
    BY <1>c, <1>d, <1>q, UrlsOfFiles, LoadsAreTyped DEF MediaInv, MediaTypeOK, LoadsCounted, ViewTracks, UrlsKept, LoadsControlled, NoEntry, Entry, viewRefs, viewRest
  <2>4. ({vBlobs, vCtl} \subseteq [Urls -> LoadIds \cup {0}])'
    BY <1>c, <1>d, <1>q, UrlsOfFiles, LoadsAreTyped DEF MediaInv, MediaTypeOK, LoadsCounted, ViewTracks, UrlsKept, LoadsControlled, NoEntry, Entry, viewRefs, viewRest
  <2>5. (vLive \subseteq LoadIds)'
    BY <1>c, <1>d, <1>q, UrlsOfFiles, LoadsAreTyped DEF MediaInv, MediaTypeOK, LoadsCounted, ViewTracks, UrlsKept, LoadsControlled, NoEntry, Entry, viewRefs, viewRest
  <2>6. (vLoad \in [LoadIds -> {NoLoad} \cup Loading])'
    BY <1>c, <1>d, <1>q, UrlsOfFiles, LoadsAreTyped DEF MediaInv, MediaTypeOK, LoadsCounted, ViewTracks, UrlsKept, LoadsControlled, NoEntry, Entry, viewRefs, viewRest
  <2>7. (vWatched \cup vTriggered \cup vTracked \cup vCache \cup vWrites \subseteq Urls)'
    BY <1>c, <1>d, <1>q, UrlsOfFiles, LoadsAreTyped DEF MediaInv, MediaTypeOK, LoadsCounted, ViewTracks, UrlsKept, LoadsControlled, NoEntry, Entry, viewRefs, viewRest
  <2>. QED  BY <2>1, <2>2, <2>3, <2>4, <2>5, <2>6, <2>7 DEF MediaTypeOK
<1>2. LoadsCounted'
  BY <1>e
<1>3. (ViewTracks)'
  BY <1>c, <1>d, <1>q, UrlsOfFiles, LoadsAreTyped DEF MediaInv, MediaTypeOK, LoadsCounted, ViewTracks, UrlsKept, LoadsControlled, NoEntry, Entry, viewRefs, viewRest
<1>4. (\A x \in Urls : vBlobs[x] # 0 => /\ x \in vTracked /\ vBlobs[x] \in vLive /\ vLoad[vBlobs[x]].pc # "none" /\ vLoad[vBlobs[x]].u = x)'
  BY <1>c, <1>d, <1>q, UrlsOfFiles, LoadsAreTyped DEF MediaInv, MediaTypeOK, LoadsCounted, ViewTracks, UrlsKept, LoadsControlled, NoEntry, Entry, viewRefs, viewRest
<1>5. (\A m \in vLive : \E x \in Urls : vBlobs[x] = m)'
  BY <1>c, <1>d, <1>q, UrlsOfFiles, LoadsAreTyped DEF MediaInv, MediaTypeOK, LoadsCounted, ViewTracks, UrlsKept, LoadsControlled, NoEntry, Entry, viewRefs, viewRest
<1>6. (\A x \in Urls : vState[x].status = "ready" => vState[x].url = vBlobs[x])'
  BY <1>c, <1>d, <1>q, UrlsOfFiles, LoadsAreTyped DEF MediaInv, MediaTypeOK, LoadsCounted, ViewTracks, UrlsKept, LoadsControlled, NoEntry, Entry, viewRefs, viewRest
<1>7. (\A x \in Urls : vCtl[x] # 0 => vLoad[vCtl[x]].pc # "none")'
  BY <1>c, <1>d, <1>q, UrlsOfFiles, LoadsAreTyped DEF MediaInv, MediaTypeOK, LoadsCounted, ViewTracks, UrlsKept, LoadsControlled, NoEntry, Entry, viewRefs, viewRest
<1>8. (\A m \in LoadIds : vLoad[m].pc \in {"cache", "fetch", "decrypt"} /\ ~vLoad[m].aborted =>
        vLoad[m].u \in vTracked /\ vCtl[vLoad[m].u] = m)'
  BY <1>c, <1>d, <1>q, UrlsOfFiles, LoadsAreTyped DEF MediaInv, MediaTypeOK, LoadsCounted, ViewTracks, UrlsKept, LoadsControlled, NoEntry, Entry, viewRefs, viewRest
<1>. QED
  BY <1>1, <1>2, <1>3, <1>4, <1>5, <1>6, <1>7, <1>8 DEF MediaInv, UrlsKept, LoadsControlled

LEMMA MediaIntersectKeeps == ASSUME MediaInv, NEW u \in Urls, Intersect(u) PROVE MediaInv'
BY MediaLoadKeeps DEF Intersect, MediaInv, ViewTracks

LEMMA MediaRequestKeeps ==
  ASSUME MediaInv, NEW f \in MediaFiles, NEW u \in Urls, Request(f, u)
  PROVE  MediaInv'
<1>1. u \in Loadables(vFiles)
  BY DEF Request, Loadables
<1>. QED  BY <1>1, MediaLoadKeeps DEF Request

LEMMA MediaStep == ASSUME MediaInv, [MediaNext]_vVars PROVE MediaInv'
<1>1. CASE UNCHANGED vVars
  BY <1>1 DEF vVars, MediaInv, MediaTypeOK, LoadsCounted, ViewTracks, UrlsKept, LoadsControlled
<1>2. CASE MediaNext
  BY <1>2, MediaSyncKeeps, MediaObserveKeeps, MediaEvictKeeps, MediaRequestKeeps, MediaCloseKeeps,
     MediaIntersectKeeps, MediaCacheKeeps, MediaReadCacheKeeps, MediaFetchMediaKeeps,
     MediaDecryptMediaKeeps DEF MediaNext
<1>. QED  BY <1>1, <1>2

(* Whatever loads, retries, removals of messages and the closing of the    *)
(* view overlap: an attachment never renders a revoked object URL, and no  *)
(* object URL outlives the file or the view it was made for.               *)
THEOREM PicturesAreLive == MediaSpec => []ShownIsLive
<1>1. MediaInit => MediaInv
  BY MediaInvInit
<1>2. MediaInv /\ [MediaNext]_vVars => MediaInv'
  BY MediaStep
<1>3. MediaInv => ShownIsLive
  <2>. SUFFICES ASSUME MediaInv PROVE ShownIsLive
    OBVIOUS
  <2>1. ASSUME NEW f \in vFiles, ShownEntry(f).status = "ready" PROVE ShownEntry(f).url \in vLive
    <3>1. PICK u \in Urls : ShownEntry(f) = vState[u]
      BY UrlsOfFiles DEF ShownEntry, MediaInv, MediaTypeOK
    <3>. QED  BY <2>1, <3>1 DEF MediaInv, MediaTypeOK, UrlsKept
  <2>2. ASSUME NEW n \in vLive PROVE vOpen /\ \E u \in Loadables(vFiles) : vBlobs[u] = n
    <3>1. PICK u \in Urls : vBlobs[u] = n
      BY DEF MediaInv, UrlsKept
    <3>2. n # 0
      BY LoadsAreTyped DEF MediaInv, MediaTypeOK
    <3>. QED  BY <3>1, <3>2 DEF MediaInv, UrlsKept, ViewTracks
  <2>. QED  BY <2>1, <2>2 DEF ShownIsLive
<1>. QED  BY <1>1, <1>2, <1>3, PTL DEF MediaSpec

-----------------------------------------------------------------------------
(* The key chain.                                                          *)

IsWalk(p, kv, key, memo, chain) ==
  p = [i \in 0..MaxSalt |-> IF i = 0 THEN key ELSE Below(kv - i, p[i - 1], memo, chain)]

LEMMA PathIsWalk ==
  ASSUME NEW kv \in Versions, NEW key, NEW memo, NEW chain
  PROVE  Path(kv, key, memo, chain) =
           LET path == CHOOSE p : IsWalk(p, kv, key, memo, chain)
           IN  [v \in Versions |-> IF v <= kv THEN path[kv - v] ELSE NoKey]
BY DEF Path, IsWalk

\* A walk is the only one.
LEMMA OneWalk ==
  ASSUME NEW kv, NEW key, NEW memo, NEW chain,
         NEW p, NEW q, IsWalk(p, kv, key, memo, chain), IsWalk(q, kv, key, memo, chain)
  PROVE  p = q
<1>. USE KeyRingAssumption
<1>. DEFINE Bad == {i \in 0 .. MaxSalt : p[i] # q[i]}
<1>1. CASE Bad = {}
  BY <1>1 DEF IsWalk
<1>2. CASE Bad # {}
  <2>0. Bad \subseteq Nat
    OBVIOUS
  <2>1. PICK i \in Bad : \A j \in Bad : i <= j
    BY <1>2, <2>0, LeastExists
  <2>a. i \in 0 .. MaxSalt /\ p[i] # q[i]
    BY <2>1
  <2>2. i # 0
    BY <2>a DEF IsWalk
  <2>3. i - 1 \in 0 .. MaxSalt /\ i - 1 \notin Bad
    BY <2>1, <2>2, <2>a
  <2>4. p[i - 1] = q[i - 1]
    BY <2>3
  <2>5. /\ p[i] = Below(kv - i, p[i - 1], memo, chain)
        /\ q[i] = Below(kv - i, q[i - 1], memo, chain)
    BY <2>a, <2>2 DEF IsWalk
  <2>. QED  BY <2>a, <2>4, <2>5
<1>. QED  BY <1>1, <1>2

(* Down the history of the account, the walk finds the committed keys.      *)
LEMMA WalkFindsHistory ==
  ASSUME NEW H \in [Versions -> KeysOfRing], Committed(H), kAccount \in Cred,
         NEW kv, NEW key, NEW memo, HoldsHistory(H, kv, key, memo)
  PROVE  \A v \in Versions : v <= kv => Path(kv, key, memo, kChain)[v] = H[v]
<1>. USE KeyRingAssumption
<1>. DEFINE W == [i \in 0 .. MaxSalt |-> IF i < kv THEN H[kv - i] ELSE NoKey]
<1>1. kv \in Versions /\ kv <= kAccount.kv /\ key = H[kv] /\ kAccount.kv \in Versions
  BY DEF HoldsHistory, Cred
<1>2. NoKey \notin KeysOfRing
  BY DEF NoKey, KeysOfRing
<1>3. ASSUME NEW i \in 1 .. MaxSalt
      PROVE  W[i] = Below(kv - i, W[i - 1], memo, kChain)
  <2>0. i - 1 \in 0 .. MaxSalt /\ i \in 0 .. MaxSalt
    BY <1>3
  <2>1. CASE i < kv
    <3>. DEFINE u == kv - i
    <3>1. u \in Versions /\ u + 1 \in Versions /\ u < kAccount.kv /\ kv - (i - 1) = u + 1
      BY <1>1, <2>1 DEF Versions
    <3>2. W[i] = H[u] /\ W[i - 1] = H[u + 1]
      BY <1>1, <2>0, <2>1, <3>1 DEF Versions
    <3>3. H[u + 1] # NoKey /\ H[u] # NoKey
      BY <1>2, <3>1
    <3>4. Hop(u) = {Link(u, H[u], H[u + 1])}
      BY <3>1 DEF Committed
    <3>5. {l \in kChain : l.from = u /\ l.to = u + 1 /\ l.new = H[u + 1]} = {Link(u, H[u], H[u + 1])}
      BY <3>4 DEF Hop, Link
    <3>6. (CHOOSE l \in {Link(u, H[u], H[u + 1])} : TRUE).old = H[u]
      <4>. DEFINE l == Link(u, H[u], H[u + 1])
      <4>1. l.old = H[u]
        BY DEF Link
      <4>. HIDE DEF l
      <4>2. (CHOOSE m \in {l} : TRUE) = l
        OBVIOUS
      <4>. QED  BY <4>1, <4>2 DEF l
    <3>7. memo[u] # NoKey => memo[u] = H[u]
      BY <3>1 DEF HoldsHistory
    <3>8. ~ (u < 1 \/ W[i - 1] = NoKey)
      BY <1>1, <2>1, <3>1, <3>2, <3>3 DEF Versions
    <3>. HIDE DEF u, W
    <3>9. Below(kv - i, W[i - 1], memo, kChain) = H[u]
      BY <2>1, <3>2, <3>5, <3>6, <3>7, <3>8 DEF Below, u
    <3>. QED  BY <3>2, <3>9
  <2>2. CASE ~ (i < kv)
    <3>1. W[i] = NoKey /\ kv - i < 1
      BY <1>1, <2>0, <2>2 DEF Versions
    <3>. HIDE DEF W
    <3>2. Below(kv - i, W[i - 1], memo, kChain) = NoKey
      BY <3>1 DEF Below
    <3>. QED  BY <3>1, <3>2
  <2>. QED  BY <2>1, <2>2
<1>4. W[0] = key
  BY <1>1 DEF Versions
<1>5. IsWalk(W, kv, key, memo, kChain)
  <2>1. W = [i \in 0 .. MaxSalt |-> W[i]]
    OBVIOUS
  <2>2. \A i \in 0 .. MaxSalt : W[i] = IF i = 0 THEN key ELSE Below(kv - i, W[i - 1], memo, kChain)
    <3>1. TAKE i \in 0 .. MaxSalt
    <3>. HIDE DEF W
    <3>2. i = 0 \/ i \in 1 .. MaxSalt
      OBVIOUS
    <3>. QED  BY <1>3, <1>4, <3>2
  <2>. HIDE DEF W
  <2>3. W = [i \in 0 .. MaxSalt |-> IF i = 0 THEN key ELSE Below(kv - i, W[i - 1], memo, kChain)]
    BY <2>1, <2>2
  <2>. QED  BY <2>3 DEF IsWalk
<1>. DEFINE path == CHOOSE p : IsWalk(p, kv, key, memo, kChain)
<1>6. path = W
  <2>. HIDE DEF W
  <2>1. IsWalk(path, kv, key, memo, kChain)
    BY <1>5
  <2>. HIDE DEF path
  <2>. QED  BY <1>5, <2>1, OneWalk
<1>7. Path(kv, key, memo, kChain) = [v \in Versions |-> IF v <= kv THEN path[kv - v] ELSE NoKey]
  BY DEF Path, IsWalk
<1>8. ASSUME NEW v \in Versions, v <= kv PROVE W[kv - v] = H[v]
  <2>1. kv - v \in 0 .. MaxSalt /\ kv - v < kv /\ kv - (kv - v) = v
    BY <1>1, <1>8 DEF Versions
  <2>. QED  BY <2>1
<1>. HIDE DEF W, path
<1>. QED  BY <1>6, <1>7, <1>8

(* A session of the history opens all that is sealed in the history.        *)
LEMMA HistoryOpensAll ==
  ASSUME NEW H \in [Versions -> KeysOfRing], Committed(H), KeyRingTypeOK,
         \A box \in Boxes : SealedInHistory(H, box),
         NEW kv, NEW key, NEW memo, HoldsHistory(H, kv, key, memo)
  PROVE  OpensAll(kv, key, memo)
<1>. USE KeyRingAssumption
<1>1. SUFFICES ASSUME NEW box \in Boxes, box # NoBlob, VersionOf(box) <= kv
               PROVE  Opens(box, ResolveBackupKey(kv, key, memo, kChain, VersionOf(box)))
  BY DEF OpensAll
<1>2. box \in SealedBy
  BY DEF KeyRingTypeOK, Boxes
<1>. DEFINE v == VersionOf(box)
<1>3. kv \in Versions /\ kv <= kAccount.kv /\ v \in Versions /\ kAccount \in Cred
  BY <1>2 DEF HoldsHistory, VersionOf, SealedBy, Versions, KeyRingTypeOK
<1>4. box.key = H[v]
  BY <1>1 DEF SealedInHistory
<1>5. Path(kv, key, memo, kChain)[v] = H[v]
  BY <1>1, <1>3, WalkFindsHistory
<1>6. memo[v] # NoKey => memo[v] = H[v]
  BY <1>3 DEF HoldsHistory
<1>. HIDE DEF v
<1>7. ~ (v > kv)
  BY <1>1, <1>3 DEF v, Versions
<1>8. ResolveBackupKey(kv, key, memo, kChain, v) = H[v]
  BY <1>5, <1>6, <1>7 DEF ResolveBackupKey
<1>9. H[v] # NoKey
  BY <1>3 DEF NoKey, KeysOfRing
<1>. QED  BY <1>4, <1>8, <1>9 DEF Opens, v

LEMMA InvReaches == ASSUME KeyRingInv PROVE HistoryReachable
<1>. USE KeyRingAssumption
<1>1. PICK H \in [Versions -> KeysOfRing] : IsHistory(H)
  BY DEF KeyRingInv
<1>2. KeyRingTypeOK /\ Committed(H) /\ \A box \in Boxes : SealedInHistory(H, box)
  BY <1>1 DEF KeyRingInv, IsHistory
<1>. DEFINE none == [v \in Versions |-> NoKey]
<1>3. HoldsHistory(H, kAccount.kv, kAccount.key, none)
  BY <1>2 DEF HoldsHistory, Committed, KeyRingTypeOK, Cred, Versions
<1>. HIDE DEF none
<1>4. OpensAll(kAccount.kv, kAccount.key, none)
  BY <1>2, <1>3, HistoryOpensAll
<1>5. ASSUME NEW d \in KeyDevices, kDev[d].pc # "out"
      PROVE  OpensAll(kDev[d].kv, kDev[d].key, kDev[d].memo)
  BY <1>1, <1>2, <1>5, HistoryOpensAll DEF IsHistory
<1>. QED  BY <1>4, <1>5 DEF HistoryReachable, none

LEMMA DeviceTyped ==
  ASSUME NEW q \in DeviceState
  PROVE  /\ q.pc \in {"out", "in", "chain", "put", "post", "save", "revoke"}
         /\ q.kv \in 0 .. MaxSalt /\ q.readKv \in 0 .. MaxSalt
         /\ q.key \in SomeKey /\ q.readKey \in SomeKey /\ q.new \in SomeKey
         /\ q.got \subseteq Links /\ q.memo \in [Versions -> SomeKey] /\ q.pending \subseteq KeySessions
BY DEF DeviceState

(* What a step has to show of the device that moves, of the account, of the  *)
(* chain and of the blobs; the other devices stay, or are signed out.       *)
LEMMA RingKeeps ==
  ASSUME KeyRingInv,
         NEW H \in [Versions -> KeysOfRing], IsHistory(H),
         NEW G \in [Versions -> KeysOfRing], Committed(G)',
         \A v \in Versions : v <= kAccount.kv => G[v] = H[v],
         NEW d \in KeyDevices, NEW q \in DeviceState,
         kDev' \in [KeyDevices -> DeviceState], kDev'[d] = q,
         \A e \in KeyDevices : e # d => kDev'[e] \in {kDev[e], SignedOut},
         kAccount' \in Cred, kAccount.kv <= kAccount'.kv, kAccount'.kv <= kSalt',
         kSalt' \in 1 .. MaxSalt, kSalt <= kSalt',
         kChain' \subseteq Links, \A l \in kChain' : l.to = l.from + 1,
         kBlob' \in [KeySessions -> SealedBy], kContacts' \in SealedBy,
         \A box \in Boxes' : box \in Boxes \/ SealedInHistory(G, box)',
         q.pc # "out" => HoldsHistory(G, q.kv, q.key, q.memo)',
         q.pc = "out" => q.kv = 0,
         FlowIsCurrent(q)',
         UNCHANGED <<kAccount, kChain>> \/ kDev[d].pc \in Rotating,
         q.pc \in Rotating => \/ kDev[d].pc \in Rotating
                             \/ \A e \in KeyDevices : kDev[e].pc \notin Rotating
  PROVE  KeyRingInv'
<1>. USE KeyRingAssumption
<1>0. KeyRingTypeOK /\ OneRotation
  BY DEF KeyRingInv
<1>n. /\ kAccount.kv \in Nat /\ kAccount'.kv \in Nat /\ kSalt \in Nat /\ kSalt' \in Nat
      /\ kAccount.kv \in Versions /\ kAccount'.kv \in Versions
  BY <1>0 DEF KeyRingTypeOK, Cred, Versions
<1>s. SignedOut.pc = "out" /\ SignedOut.kv = 0
  BY DEF SignedOut
<1>f. \A e \in KeyDevices \ {d} : kDev'[e].pc = "out" \/ kDev'[e] = kDev[e]
  BY <1>s
<1>1. \A e \in KeyDevices : (kDev[e].pc # "out" => HoldsHistory(G, kDev[e].kv, kDev[e].key, kDev[e].memo))'
  <2>1. SUFFICES ASSUME NEW e \in KeyDevices, e # d, kDev'[e] = kDev[e], kDev[e].pc # "out"
                 PROVE  HoldsHistory(G, kDev[e].kv, kDev[e].key, kDev[e].memo)'
    <3>1. TAKE e \in KeyDevices
    <3>2. CASE e = d
      BY <3>2 DEF HoldsHistory
    <3>3. CASE e # d
      BY <1>f, <3>3 DEF HoldsHistory
    <3>. QED  BY <3>2, <3>3
  <2>2. HoldsHistory(H, kDev[e].kv, kDev[e].key, kDev[e].memo)
    BY <2>1 DEF IsHistory
  <2>3. ASSUME NEW v \in Versions, v <= kAccount.kv PROVE v <= kAccount'.kv /\ G[v] = H[v]
    BY <1>n, <2>3 DEF Versions
  <2>4. kDev[e].kv \in Versions /\ kDev[e].kv <= kAccount'.kv /\ kDev[e].key = G[kDev[e].kv]
    BY <2>2, <2>3 DEF HoldsHistory
  <2>5. \A v \in Versions : kDev[e].memo[v] # NoKey => v <= kAccount'.kv /\ kDev[e].memo[v] = G[v]
    BY <2>2, <2>3 DEF HoldsHistory
  <2>. QED  BY <2>1, <2>4, <2>5 DEF HoldsHistory
<1>2. KeyRingTypeOK'
  <2>1. \A e \in KeyDevices : kDev'[e].kv <= kAccount'.kv
    <3>1. TAKE e \in KeyDevices
    <3>2. CASE e = d
      BY <1>n, <3>2 DEF HoldsHistory
    <3>3. CASE e # d
      <4>1. kDev[e].kv <= kAccount.kv /\ kDev[e].kv \in Nat
        <5>1. kDev[e] \in DeviceState /\ kDev[e].kv <= kAccount.kv
          BY <1>0 DEF KeyRingTypeOK
        <5>. QED  BY <5>1, DeviceTyped
      <4>. QED  BY <1>n, <1>s, <3>3, <4>1
    <3>. QED  BY <3>2, <3>3
  <2>2. \A e \in KeyDevices : kDev'[e].pc # "out" => [kv |-> kDev'[e].kv, key |-> kDev'[e].key] \in Cred
    BY <1>1 DEF HoldsHistory, Cred
  <2>. QED  BY <2>1, <2>2 DEF KeyRingTypeOK
<1>3. OneRotation'
  <2>1. \A e \in KeyDevices \ {d} : kDev'[e].pc \in Rotating =>
          kDev'[e] = kDev[e] /\ kDev[e].pc \in Rotating /\ kDev[d].pc \notin Rotating
    BY <1>0, <1>f DEF OneRotation, Rotating
  <2>2. \A e \in KeyDevices : FlowIsCurrent(kDev[e])'
    <3>1. TAKE e \in KeyDevices
    <3>2. CASE e = d
      BY <3>2 DEF FlowIsCurrent, Hop
    <3>3. CASE e # d /\ kDev'[e].pc \notin Rotating
      BY <3>3 DEF FlowIsCurrent, Rotating
    <3>4. CASE e # d /\ kDev'[e].pc \in Rotating
      <4>1. kDev'[e] = kDev[e] /\ UNCHANGED <<kAccount, kChain>> /\ FlowIsCurrent(kDev[e])
        BY <1>0, <2>1, <3>4 DEF OneRotation
      <4>2. kDev[e].readKv \in Nat
        BY <1>0, DeviceTyped DEF KeyRingTypeOK
      <4>. QED  BY <1>n, <4>1, <4>2 DEF FlowIsCurrent, Hop
    <3>. QED  BY <3>2, <3>3, <3>4
  <2>3. \A e, f \in KeyDevices : kDev'[e].pc \in Rotating /\ kDev'[f].pc \in Rotating => e = f
    BY <1>0, <2>1 DEF OneRotation
  <2>. QED  BY <2>2, <2>3 DEF OneRotation
<1>4. \A box \in Boxes' : SealedInHistory(G, box)'
  <2>1. SUFFICES ASSUME NEW box \in Boxes PROVE SealedInHistory(G, box)'
    OBVIOUS
  <2>2. box \in SealedBy /\ SealedInHistory(H, box)
    BY <1>0 DEF IsHistory, Boxes, KeyRingTypeOK
  <2>3. box # NoBlob => VersionOf(box) \in Versions
    BY <2>2 DEF VersionOf, SealedBy, Versions
  <2>. QED  BY <1>n, <2>2, <2>3 DEF SealedInHistory, Versions
<1>5. IsHistory(G)'
  BY <1>1, <1>4 DEF IsHistory
<1>. QED  BY <1>2, <1>3, <1>5 DEF KeyRingInv

(* A step that leaves the account, the chain and the blobs alone.           *)
LEMMA FlowKeeps ==
  ASSUME KeyRingInv,
         NEW d \in KeyDevices, NEW q \in DeviceState, kDev' = [kDev EXCEPT ![d] = q],
         UNCHANGED <<kAccount, kChain, kBlob, kContacts>>,
         kSalt' \in 1 .. MaxSalt, kSalt <= kSalt',
         \A H \in [Versions -> KeysOfRing] :
           IsHistory(H) /\ q.pc # "out" => HoldsHistory(H, q.kv, q.key, q.memo),
         q.pc = "out" => q.kv = 0,
         FlowIsCurrent(q)',
         q.pc \in Rotating => \/ kDev[d].pc \in Rotating
                             \/ \A e \in KeyDevices : kDev[e].pc \notin Rotating
  PROVE  KeyRingInv'
<1>0. KeyRingTypeOK /\ OneRotation
  BY DEF KeyRingInv
<1>1. PICK H \in [Versions -> KeysOfRing] : IsHistory(H)
  BY DEF KeyRingInv
<1>2. Committed(H)'
  BY <1>1 DEF IsHistory, Committed, Hop
<1>3. q.pc # "out" => HoldsHistory(H, q.kv, q.key, q.memo)'
  BY <1>1 DEF HoldsHistory
<1>4. kDev' \in [KeyDevices -> DeviceState] /\ kDev'[d] = q
      /\ \A e \in KeyDevices : e # d => kDev'[e] = kDev[e]
  BY <1>0 DEF KeyRingTypeOK
<1>5. kAccount' \in Cred /\ kAccount.kv <= kAccount'.kv /\ kAccount'.kv <= kSalt'
  BY <1>0 DEF KeyRingTypeOK, OneRotation, Cred, Versions
<1>6. /\ kChain' \subseteq Links /\ \A l \in kChain' : l.to = l.from + 1
      /\ kBlob' \in [KeySessions -> SealedBy] /\ kContacts' \in SealedBy /\ Boxes' = Boxes
  BY <1>0 DEF KeyRingTypeOK, Boxes
<1>. QED  BY <1>1, <1>2, <1>3, <1>4, <1>5, <1>6, RingKeeps

LEMMA NothingIsTyped == NoKey \in SomeKey /\ 0 \in 0 .. MaxSalt /\ {} \in SUBSET Links /\ {} \in SUBSET KeySessions
BY KeyRingAssumption DEF SomeKey

(* A flow that ends leaves the session, the memo and the queue.             *)
LEMMA RestKeeps ==
  ASSUME KeyRingInv, NEW d \in KeyDevices,
         kDev[d].pc # "out"
  PROVE  /\ AtRest(kDev[d]) \in DeviceState /\ AtRest(kDev[d]).pc = "in"
         /\ \A H : IsHistory(H) =>
              HoldsHistory(H, AtRest(kDev[d]).kv, AtRest(kDev[d]).key, AtRest(kDev[d]).memo)
<1>1. kDev[d] \in DeviceState
  BY DEF KeyRingInv, KeyRingTypeOK
<1>2. AtRest(kDev[d]) \in DeviceState
  BY <1>1, NothingIsTyped DEF AtRest, DeviceState
<1>3. /\ AtRest(kDev[d]).pc = "in" /\ AtRest(kDev[d]).kv = kDev[d].kv
      /\ AtRest(kDev[d]).key = kDev[d].key /\ AtRest(kDev[d]).memo = kDev[d].memo
  BY <1>1 DEF AtRest, DeviceState
<1>. QED  BY <1>2, <1>3 DEF IsHistory

LEMMA OutIsTyped == SignedOut \in DeviceState /\ SignedOut.pc = "out" /\ SignedOut.kv = 0
<1>1. [v \in Versions |-> NoKey] \in [Versions -> SomeKey]
  BY NothingIsTyped
<1>. QED  BY <1>1, NothingIsTyped DEF SignedOut, DeviceState

LEMMA SignInKeeps == ASSUME KeyRingInv, NEW d \in KeyDevices, SignIn(d) PROVE KeyRingInv'
<1>. USE KeyRingAssumption
<1>0. KeyRingTypeOK
  BY DEF KeyRingInv
<1>1. PICK q : q = SignedIn(kAccount)
  OBVIOUS
<1>2. /\ q \in DeviceState /\ q.pc = "in" /\ q.kv = kAccount.kv /\ q.key = kAccount.key
      /\ \A v \in Versions : q.memo[v] = NoKey
  <2>1. kAccount.kv \in 0 .. MaxSalt /\ kAccount.key \in SomeKey
    BY <1>0 DEF KeyRingTypeOK, Cred, Versions, SomeKey
  <2>2. q = [SignedOut EXCEPT !.pc = "in", !.kv = kAccount.kv, !.key = kAccount.key]
    BY <1>1 DEF SignedIn
  <2>3. q \in DeviceState /\ q.pc = "in" /\ q.kv = kAccount.kv /\ q.key = kAccount.key /\ q.memo = SignedOut.memo
    BY <2>1, <2>2, OutIsTyped DEF DeviceState
  <2>. QED  BY <2>3 DEF SignedOut
<1>3. /\ kDev' = [kDev EXCEPT ![d] = q] /\ UNCHANGED <<kAccount, kSalt, kChain, kBlob, kContacts>>
  BY <1>1 DEF SignIn, Becomes
<1>4. \A H : IsHistory(H) => HoldsHistory(H, q.kv, q.key, q.memo)
  BY <1>0, <1>2 DEF IsHistory, Committed, HoldsHistory, KeyRingTypeOK, Cred, Versions
<1>5. FlowIsCurrent(q)'
  BY <1>2 DEF FlowIsCurrent, Rotating
<1>6. kSalt' \in 1 .. MaxSalt /\ kSalt <= kSalt'
  BY <1>0, <1>3 DEF KeyRingTypeOK
<1>7. q.pc \notin Rotating /\ q.pc # "out"
  BY <1>2 DEF Rotating
<1>. QED  BY <1>2, <1>3, <1>4, <1>5, <1>6, <1>7, FlowKeeps

LEMMA StartRotationKeeps ==
  ASSUME KeyRingInv, Overlapping = FALSE, NEW d \in KeyDevices, StartRotation(d)
  PROVE  KeyRingInv'
<1>. USE KeyRingAssumption
<1>0. KeyRingTypeOK /\ OneRotation /\ kDev[d] \in DeviceState
  BY DEF KeyRingInv, KeyRingTypeOK
<1>1. PICK new \in KeyPasswords :
        kDev' = [kDev EXCEPT ![d] = [kDev[d] EXCEPT !.pc = "chain", !.readKv = kAccount.kv,
                                       !.readKey = kAccount.key, !.new = Derive(new, kSalt + 1)]]
  BY DEF StartRotation, Becomes, CurrentOf
<1>2. PICK q : q = [kDev[d] EXCEPT !.pc = "chain", !.readKv = kAccount.kv,
                                   !.readKey = kAccount.key, !.new = Derive(new, kSalt + 1)]
  OBVIOUS
<1>3. /\ kDev' = [kDev EXCEPT ![d] = q] /\ UNCHANGED <<kAccount, kChain, kBlob, kContacts>>
      /\ kSalt' = kSalt + 1 /\ kSalt < MaxSalt /\ kSalt \in 1 .. MaxSalt
      /\ kDev[d].pc = "in" /\ \A e \in KeyDevices : kDev[e].pc \notin Rotating
  BY <1>0, <1>1, <1>2 DEF StartRotation, KeyRingTypeOK, At
<1>4. Derive(new, kSalt + 1) \in KeysOfRing
  BY <1>3 DEF Derive, KeysOfRing
<1>5. kAccount.kv \in 0 .. MaxSalt /\ kAccount.key \in SomeKey
  BY <1>0 DEF KeyRingTypeOK, Cred, Versions, SomeKey
<1>6. /\ q \in DeviceState /\ q.pc = "chain" /\ q.readKv = kAccount.kv /\ q.readKey = kAccount.key
      /\ q.new \in KeysOfRing
      /\ q.kv = kDev[d].kv /\ q.key = kDev[d].key /\ q.memo = kDev[d].memo
  BY <1>0, <1>2, <1>4, <1>5 DEF DeviceState, SomeKey
<1>7. \A H : IsHistory(H) => HoldsHistory(H, q.kv, q.key, q.memo)
  BY <1>3, <1>6 DEF IsHistory
<1>8. FlowIsCurrent(q)'
  <2>1. kAccount.kv <= kSalt /\ kAccount.kv \in Nat
    BY <1>0, <1>5 DEF OneRotation
  <2>. QED  BY <1>3, <1>6, <2>1 DEF FlowIsCurrent, Rotating
<1>9. kSalt' \in 1 .. MaxSalt /\ kSalt <= kSalt'
  BY <1>3
<1>. QED  BY <1>3, <1>6, <1>7, <1>8, <1>9, FlowKeeps DEF Rotating

(* The salts are counted.                                                   *)
LEMMA SaltStays ==
  ASSUME KeyRingInv, UNCHANGED kSalt
  PROVE  kSalt' \in 1 .. MaxSalt /\ kSalt <= kSalt'
BY KeyRingAssumption DEF KeyRingInv, KeyRingTypeOK

LEMMA FetchChainKeeps == ASSUME KeyRingInv, ChainFaults = FALSE, NEW d \in KeyDevices, FetchChain(d) PROVE KeyRingInv'
<1>0. KeyRingTypeOK /\ OneRotation /\ kDev[d] \in DeviceState
  BY DEF KeyRingInv, KeyRingTypeOK
<1>1. PICK q : q = [kDev[d] EXCEPT !.pc = "put", !.got = kChain]
  OBVIOUS
<1>2. /\ kDev' = [kDev EXCEPT ![d] = q] /\ UNCHANGED <<kAccount, kSalt, kChain, kBlob, kContacts>>
      /\ kDev[d].pc = "chain"
  BY <1>1 DEF FetchChain, Becomes, At
<1>3. kChain \in SUBSET Links
  BY <1>0 DEF KeyRingTypeOK
<1>4. /\ q \in DeviceState /\ q.pc = "put" /\ q.got = kChain
      /\ q.kv = kDev[d].kv /\ q.key = kDev[d].key /\ q.memo = kDev[d].memo
      /\ q.readKv = kDev[d].readKv /\ q.readKey = kDev[d].readKey /\ q.new = kDev[d].new
  BY <1>0, <1>1, <1>3 DEF DeviceState
<1>5. \A H : IsHistory(H) => HoldsHistory(H, q.kv, q.key, q.memo)
  BY <1>2, <1>4 DEF IsHistory
<1>6. FlowIsCurrent(kDev[d]) /\ kDev[d].pc \in Rotating
  BY <1>0, <1>2 DEF OneRotation, Rotating
<1>7. FlowIsCurrent(q)'
  BY <1>2, <1>4, <1>6 DEF FlowIsCurrent, Rotating
<1>. QED  BY <1>2, <1>4, <1>5, <1>6, <1>7, SaltStays, FlowKeeps

(* The steps that end a flow and change nothing else.                       *)
LEMMA BackToRest ==
  ASSUME KeyRingInv, NEW d \in KeyDevices, kDev[d].pc # "out",
         kDev' = [kDev EXCEPT ![d] = AtRest(kDev[d])],
         UNCHANGED <<kAccount, kSalt, kChain, kBlob, kContacts>>
  PROVE  KeyRingInv'
<1>1. PICK q : q = AtRest(kDev[d])
  OBVIOUS
<1>2. /\ q \in DeviceState /\ q.pc = "in" /\ kDev' = [kDev EXCEPT ![d] = q]
      /\ \A H : IsHistory(H) => HoldsHistory(H, q.kv, q.key, q.memo)
  BY <1>1, RestKeeps
<1>3. FlowIsCurrent(q)' /\ q.pc \notin Rotating /\ q.pc # "out"
  BY <1>2 DEF FlowIsCurrent, Rotating
<1>. QED  BY <1>2, <1>3, SaltStays, FlowKeeps

LEMMA SignedOutKeeps ==
  ASSUME KeyRingInv, NEW d \in KeyDevices, kDev' = [kDev EXCEPT ![d] = SignedOut],
         UNCHANGED <<kAccount, kSalt, kChain, kBlob, kContacts>>
  PROVE  KeyRingInv'
<1>1. PICK q : q = SignedOut
  OBVIOUS
<1>2. q \in DeviceState /\ q.pc = "out" /\ q.kv = 0 /\ kDev' = [kDev EXCEPT ![d] = q]
  BY <1>1, OutIsTyped
<1>3. FlowIsCurrent(q)' /\ q.pc \notin Rotating
  BY <1>2 DEF FlowIsCurrent, Rotating
<1>. QED  BY <1>2, <1>3, SaltStays, FlowKeeps

LEMMA AbandonKeeps == ASSUME KeyRingInv, NEW d \in KeyDevices, AbandonRotation(d) PROVE KeyRingInv'
BY BackToRest DEF AbandonRotation, Becomes, Rotating

LEMMA RefusedKeeps == ASSUME KeyRingInv, NEW d \in KeyDevices, RefusedAsStale(d) PROVE KeyRingInv'
BY SignedOutKeeps DEF RefusedAsStale, Becomes

LEMMA StartRevokeKeeps == ASSUME KeyRingInv, NEW d \in KeyDevices, StartRevoke(d) PROVE KeyRingInv'
<1>0. KeyRingTypeOK /\ kDev[d] \in DeviceState
  BY DEF KeyRingInv, KeyRingTypeOK
<1>1. PICK entered \in KeyPasswords :
        kDev' = [kDev EXCEPT ![d] = [kDev[d] EXCEPT !.pc = "revoke", !.readKv = kAccount.kv,
                                       !.readKey = Derive(entered, kAccount.key.salt)]]
  BY DEF StartRevoke, Becomes
<1>2. PICK q : q = [kDev[d] EXCEPT !.pc = "revoke", !.readKv = kAccount.kv,
                                   !.readKey = Derive(entered, kAccount.key.salt)]
  OBVIOUS
<1>3. /\ kDev' = [kDev EXCEPT ![d] = q] /\ UNCHANGED <<kAccount, kSalt, kChain, kBlob, kContacts>>
      /\ kDev[d].pc = "in"
  BY <1>1, <1>2 DEF StartRevoke, At
<1>4. kAccount.kv \in 0 .. MaxSalt /\ Derive(entered, kAccount.key.salt) \in SomeKey
  BY <1>0, KeyRingAssumption DEF KeyRingTypeOK, Cred, Versions, SomeKey, KeysOfRing, Derive
<1>5. /\ q \in DeviceState /\ q.pc = "revoke"
      /\ q.kv = kDev[d].kv /\ q.key = kDev[d].key /\ q.memo = kDev[d].memo
  BY <1>0, <1>2, <1>4 DEF DeviceState
<1>6. \A H : IsHistory(H) => HoldsHistory(H, q.kv, q.key, q.memo)
  BY <1>3, <1>5 DEF IsHistory
<1>7. FlowIsCurrent(q)' /\ q.pc \notin Rotating /\ q.pc # "out"
  BY <1>5 DEF FlowIsCurrent, Rotating
<1>. QED  BY <1>3, <1>5, <1>6, <1>7, SaltStays, FlowKeeps

(* The hop of a new link has that link only; the other hops stay.           *)
LEMMA LinkReplaces ==
  ASSUME NEW v \in Versions, NEW old \in KeysOfRing, NEW new \in KeysOfRing,
         NEW chain, chain \subseteq Links, \A l \in chain : l.to = l.from + 1,
         NEW l, l = Link(v, old, new)
  PROVE  /\ WithLink(chain, l) \subseteq Links /\ \A m \in WithLink(chain, l) : m.to = m.from + 1
         /\ \A u \in Versions : {m \in WithLink(chain, l) : m.from = u /\ m.to = u + 1}
              = IF u = v THEN {l} ELSE {m \in chain : m.from = u /\ m.to = u + 1}
<1>. USE KeyRingAssumption
<1>1. l \in Links /\ l.from = v /\ l.to = v + 1
  BY DEF Link, Links, Versions
<1>2. ASSUME NEW u \in Versions
      PROVE  {m \in WithLink(chain, l) : m.from = u /\ m.to = u + 1}
              = IF u = v THEN {l} ELSE {m \in chain : m.from = u /\ m.to = u + 1}
  BY <1>1, <1>2 DEF WithLink
<1>. QED  BY <1>1, <1>2 DEF WithLink

LEMMA PutChainKeeps == ASSUME KeyRingInv, NEW d \in KeyDevices, PutChain(d) PROVE KeyRingInv'
<1>. USE KeyRingAssumption
<1>0. KeyRingTypeOK /\ OneRotation /\ kDev[d] \in DeviceState
  BY DEF KeyRingInv, KeyRingTypeOK
<1>1. PICK H \in [Versions -> KeysOfRing] : IsHistory(H)
  BY DEF KeyRingInv
<1>2. /\ kDev[d].pc = "put" /\ kDev[d].pc \in Rotating /\ kDev[d].got = kChain
      /\ kDev[d].readKv = kAccount.kv /\ kDev[d].readKey = kAccount.key /\ kDev[d].readKv < kSalt
      /\ kDev[d].new \in KeysOfRing
      /\ UNCHANGED <<kAccount, kSalt, kBlob, kContacts>>
  BY <1>0 DEF PutChain, At, OneRotation, FlowIsCurrent, Rotating
<1>3. kAccount \in Cred /\ kAccount.kv \in Versions /\ kAccount.key \in KeysOfRing
      /\ kChain \subseteq Links /\ \A m \in kChain : m.to = m.from + 1
  BY <1>0 DEF KeyRingTypeOK, Cred
<1>4. PICK l : l = Link(kAccount.kv, kAccount.key, kDev[d].new)
  OBVIOUS
<1>5. PICK next : next = WithLink(kChain, l)
  OBVIOUS
<1>6. /\ next \subseteq Links /\ \A m \in next : m.to = m.from + 1
      /\ \A u \in Versions : {m \in next : m.from = u /\ m.to = u + 1} = IF u = kAccount.kv THEN {l} ELSE Hop(u)
  BY <1>2, <1>3, <1>4, <1>5, LinkReplaces DEF Hop
<1>7. PICK q : q = [kDev[d] EXCEPT !.pc = "post", !.got = {}]
  OBVIOUS
<1>8. /\ q \in DeviceState /\ q.pc = "post"
      /\ q.kv = kDev[d].kv /\ q.key = kDev[d].key /\ q.memo = kDev[d].memo
      /\ q.readKv = kDev[d].readKv /\ q.readKey = kDev[d].readKey /\ q.new = kDev[d].new
  BY <1>0, <1>7, NothingIsTyped DEF DeviceState
<1>9. PICK r : r = AtRest(kDev[d])
  OBVIOUS
<1>10. /\ r \in DeviceState /\ r.pc = "in"
       /\ HoldsHistory(H, r.kv, r.key, r.memo)
  BY <1>1, <1>2, <1>9, RestKeeps
<1>11. HoldsHistory(H, q.kv, q.key, q.memo)
  BY <1>1, <1>2, <1>8 DEF IsHistory
<1>12. \/ kChain' = next /\ kDev' = [kDev EXCEPT ![d] = q]
       \/ kChain' \in {kChain, next} /\ kDev' = [kDev EXCEPT ![d] = r]
  BY <1>2, <1>4, <1>5, <1>7, <1>9 DEF PutChain, Becomes
<1>13. kChain' \in {kChain, next}
  BY <1>12
<1>14. /\ kChain' \subseteq Links /\ \A m \in kChain' : m.to = m.from + 1
       /\ \A u \in Versions : u # kAccount.kv => Hop(u)' = Hop(u)
  BY <1>3, <1>6, <1>13 DEF Hop
<1>15. Committed(H)'
  BY <1>1, <1>2, <1>3, <1>14 DEF IsHistory, Committed, Versions
<1>16. PICK p \in {q, r} : kDev' = [kDev EXCEPT ![d] = p] /\ (p = q => kChain' = next)
  BY <1>8, <1>10, <1>12
<1>17. FlowIsCurrent(p)'
  <2>1. CASE p = r
    BY <1>10, <2>1 DEF FlowIsCurrent, Rotating
  <2>2. CASE p = q
    <3>1. Hop(kAccount.kv)' = {l}
      BY <1>2, <1>3, <1>6, <1>16, <2>2 DEF Hop
    <3>. QED  BY <1>2, <1>4, <1>8, <2>2, <3>1 DEF FlowIsCurrent, Rotating, Hop
  <2>. QED  BY <1>16, <2>1, <2>2
<1>18. /\ p \in DeviceState /\ p.pc # "out" /\ HoldsHistory(H, p.kv, p.key, p.memo)
  BY <1>8, <1>10, <1>11, <1>16
<1>19. HoldsHistory(H, p.kv, p.key, p.memo)'
  BY <1>2, <1>18 DEF HoldsHistory
<1>20. kDev' \in [KeyDevices -> DeviceState] /\ kDev'[d] = p
      /\ \A e \in KeyDevices : e # d => kDev'[e] = kDev[e]
  BY <1>0, <1>16, <1>18 DEF KeyRingTypeOK
<1>21. kAccount' \in Cred /\ kAccount.kv <= kAccount'.kv /\ kAccount'.kv <= kSalt'
  BY <1>0, <1>2 DEF KeyRingTypeOK, OneRotation, Cred, Versions
<1>22. /\ kBlob' \in [KeySessions -> SealedBy] /\ kContacts' \in SealedBy /\ Boxes' = Boxes
  BY <1>0, <1>2 DEF KeyRingTypeOK, Boxes
<1>. QED  BY <1>1, <1>2, <1>14, <1>15, <1>17, <1>18, <1>19, <1>20, <1>21, <1>22, SaltStays, RingKeeps

LEMMA SwapKeeps == ASSUME KeyRingInv, NEW d \in KeyDevices, SwapSession(d) PROVE KeyRingInv'
<1>. USE KeyRingAssumption
<1>0. KeyRingTypeOK /\ OneRotation /\ kDev[d] \in DeviceState
  BY DEF KeyRingInv, KeyRingTypeOK
<1>1. /\ kDev[d].pc = "save" /\ kAccount.kv = kDev[d].readKv + 1 /\ kAccount.key = kDev[d].new
      /\ UNCHANGED <<kAccount, kSalt, kChain, kBlob, kContacts>>
  BY <1>0 DEF SwapSession, At, OneRotation, FlowIsCurrent, Rotating
<1>2. PICK q : q = [AtRest(kDev[d]) EXCEPT !.kv = kAccount.kv, !.key = kAccount.key]
  OBVIOUS
<1>3. kDev' = [kDev EXCEPT ![d] = q]
  BY <1>1, <1>2 DEF SwapSession, Becomes
<1>4. kAccount.kv \in Versions /\ kAccount.kv \in 0 .. MaxSalt /\ kAccount.key \in SomeKey
  BY <1>0 DEF KeyRingTypeOK, Cred, Versions, SomeKey
<1>5. /\ q \in DeviceState /\ q.pc = "in" /\ q.kv = kAccount.kv /\ q.key = kAccount.key
      /\ q.memo = AtRest(kDev[d]).memo
  BY <1>1, <1>2, <1>4, RestKeeps DEF DeviceState
<1>6. \A H \in [Versions -> KeysOfRing] : IsHistory(H) => HoldsHistory(H, q.kv, q.key, q.memo)
  <2>1. SUFFICES ASSUME NEW H, IsHistory(H) PROVE HoldsHistory(H, q.kv, q.key, q.memo)
    OBVIOUS
  <2>2. HoldsHistory(H, AtRest(kDev[d]).kv, AtRest(kDev[d]).key, AtRest(kDev[d]).memo)
    BY <1>1, <2>1, RestKeeps
  <2>3. H[kAccount.kv] = kAccount.key
    BY <2>1 DEF IsHistory, Committed
  <2>. QED  BY <1>4, <1>5, <2>2, <2>3 DEF HoldsHistory, Versions
<1>7. FlowIsCurrent(q)' /\ q.pc \notin Rotating /\ q.pc # "out"
  BY <1>5 DEF FlowIsCurrent, Rotating
<1>. QED  BY <1>1, <1>3, <1>5, <1>6, <1>7, SaltStays, FlowKeeps

LEMMA PostRotationKeeps == ASSUME KeyRingInv, NEW d \in KeyDevices, PostRotation(d) PROVE KeyRingInv'
<1>. USE KeyRingAssumption
<1>0. KeyRingTypeOK /\ OneRotation /\ kDev[d] \in DeviceState
  BY DEF KeyRingInv, KeyRingTypeOK
<1>1. PICK H \in [Versions -> KeysOfRing] : IsHistory(H)
  BY DEF KeyRingInv
<1>2. /\ kDev[d].pc = "post" /\ kDev[d].pc \in Rotating
      /\ kDev[d].readKv = kAccount.kv /\ kDev[d].readKey = kAccount.key /\ kDev[d].readKv < kSalt
      /\ kDev[d].new \in KeysOfRing
      /\ Hop(kAccount.kv) = {Link(kAccount.kv, kAccount.key, kDev[d].new)}
      /\ UNCHANGED <<kSalt, kChain, kBlob, kContacts>>
  BY <1>0 DEF PostRotation, At, OneRotation, FlowIsCurrent, Rotating
<1>3. /\ kAccount \in Cred /\ kAccount.kv \in Versions /\ kAccount.key \in KeysOfRing
      /\ kSalt \in 1 .. MaxSalt
  BY <1>0 DEF KeyRingTypeOK, Cred
<1>4. CASE UNCHANGED kAccount
  <2>1. kDev' = [kDev EXCEPT ![d] = SignedOut] \/ kDev' = [kDev EXCEPT ![d] = AtRest(kDev[d])]
    <3>1. ~ (kAccount' = [kv |-> kDev[d].readKv + 1, key |-> kDev[d].new])
      BY <1>2, <1>3, <1>4 DEF Versions
    <3>. QED  BY <3>1 DEF PostRotation, Becomes
  <2>2. kDev[d].pc # "out"
    BY <1>2
  <2>. QED  BY <1>2, <1>4, <2>1, <2>2, SignedOutKeeps, BackToRest
<1>5. CASE ~ UNCHANGED kAccount
  <2>1. PICK G : G = [H EXCEPT ![kAccount.kv + 1] = kDev[d].new]
    OBVIOUS
  <2>2. PICK q : q = [kDev[d] EXCEPT !.pc = "save"]
    OBVIOUS
  <2>3. PICK r : r = AtRest(kDev[d])
    OBVIOUS
  <2>4. /\ kAccount' = [kv |-> kAccount.kv + 1, key |-> kDev[d].new]
        /\ kDev' = [kDev EXCEPT ![d] = q] \/ kDev' = [kDev EXCEPT ![d] = r]
    BY <1>2, <1>5, <2>2, <2>3 DEF PostRotation, Becomes
  <2>5. PICK p \in {q, r} : kDev' = [kDev EXCEPT ![d] = p]
    BY <2>4
  <2>6. /\ kAccount.kv + 1 \in Versions /\ kAccount'.kv = kAccount.kv + 1 /\ kAccount'.key = kDev[d].new
        /\ kAccount' \in Cred /\ kAccount.kv <= kAccount'.kv /\ kAccount'.kv <= kSalt'
    BY <1>2, <1>3, <2>4 DEF Versions, Cred
  <2>7. /\ G \in [Versions -> KeysOfRing] /\ G[kAccount.kv + 1] = kDev[d].new
        /\ \A v \in Versions : v <= kAccount.kv => G[v] = H[v]
    BY <1>2, <1>3, <2>1, <2>6 DEF Versions
  <2>8. Committed(G)'
    <3>1. \A v \in Versions : Hop(v)' = Hop(v)
      BY <1>2 DEF Hop
    <3>2. H[kAccount.kv] = kAccount.key
          /\ \A v \in Versions : v < kAccount.kv => Hop(v) = {Link(v, H[v], H[v + 1])}
      BY <1>1 DEF IsHistory, Committed
    <3>3. ASSUME NEW v \in Versions, v < kAccount.kv + 1
          PROVE  Hop(v)' = {Link(v, G[v], G[v + 1])}
      <4>1. CASE v = kAccount.kv
        BY <1>2, <1>3, <2>7, <3>1, <3>2, <4>1 DEF Versions
      <4>2. CASE v < kAccount.kv
        <5>1. v + 1 \in Versions /\ v + 1 <= kAccount.kv /\ v <= kAccount.kv
          BY <1>3, <4>2 DEF Versions
        <5>. QED  BY <2>7, <3>1, <3>2, <4>2, <5>1
      <4>. QED  BY <1>3, <3>3, <4>1, <4>2 DEF Versions
    <3>4. ASSUME NEW v \in Versions, v < kAccount'.kv
          PROVE  Hop(v)' = {Link(v, G[v], G[v + 1])'}
      BY <2>6, <3>3, <3>4 DEF Link
    <3>. QED  BY <2>6, <2>7, <3>4 DEF Committed
  <2>9. /\ q \in DeviceState /\ q.pc = "save" /\ q.new = kDev[d].new /\ q.readKv = kDev[d].readKv
        /\ q.kv = kDev[d].kv /\ q.key = kDev[d].key /\ q.memo = kDev[d].memo
    BY <1>0, <2>2 DEF DeviceState
  <2>10. /\ r \in DeviceState /\ r.pc = "in" /\ HoldsHistory(H, r.kv, r.key, r.memo)
    BY <1>1, <1>2, <2>3, RestKeeps
  <2>11. HoldsHistory(H, q.kv, q.key, q.memo)
    BY <1>1, <1>2, <2>9 DEF IsHistory
  <2>12. p \in DeviceState /\ p.pc # "out" /\ HoldsHistory(H, p.kv, p.key, p.memo)
    BY <2>5, <2>9, <2>10, <2>11
  <2>13. HoldsHistory(G, p.kv, p.key, p.memo)'
    BY <1>3, <2>6, <2>7, <2>12 DEF HoldsHistory, Versions
  <2>14. FlowIsCurrent(p)'
    <3>1. CASE p = r
      BY <2>10, <3>1 DEF FlowIsCurrent, Rotating
    <3>2. CASE p = q
      BY <1>2, <2>6, <2>9, <3>2 DEF FlowIsCurrent, Rotating
    <3>. QED  BY <2>5, <3>1, <3>2
  <2>15. kDev' \in [KeyDevices -> DeviceState] /\ kDev'[d] = p
      /\ \A e \in KeyDevices : e # d => kDev'[e] = kDev[e]
    BY <1>0, <2>5, <2>12 DEF KeyRingTypeOK
  <2>16. /\ kChain' \subseteq Links /\ \A l \in kChain' : l.to = l.from + 1
         /\ kBlob' \in [KeySessions -> SealedBy] /\ kContacts' \in SealedBy /\ Boxes' = Boxes
    BY <1>0, <1>2 DEF KeyRingTypeOK, Boxes
  <2>. QED  BY <1>1, <1>2, <2>6, <2>7, <2>8, <2>12, <2>13, <2>14, <2>15, <2>16, SaltStays, RingKeeps
<1>. QED  BY <1>4, <1>5

LEMMA PostRevokeKeeps ==
  ASSUME KeyRingInv, NEW d \in KeyDevices, NEW e \in KeyDevices, PostRevoke(d, e) PROVE KeyRingInv'
<1>. USE KeyRingAssumption
<1>0. KeyRingTypeOK /\ OneRotation
  BY DEF KeyRingInv
<1>1. PICK H \in [Versions -> KeysOfRing] : IsHistory(H)
  BY DEF KeyRingInv
<1>2. PICK r : r = AtRest(kDev[d])
  OBVIOUS
<1>3. /\ kDev[d].pc = "revoke" /\ e # d /\ UNCHANGED <<kAccount, kSalt, kChain, kBlob, kContacts>>
      /\ \/ kDev' = [kDev EXCEPT ![d] = r, ![e] = SignedOut]
         \/ kDev' = [kDev EXCEPT ![d] = r]
  BY <1>2 DEF PostRevoke, At
<1>4. /\ r \in DeviceState /\ r.pc = "in" /\ HoldsHistory(H, r.kv, r.key, r.memo)
  BY <1>1, <1>2, <1>3, RestKeeps
<1>5. /\ kDev' \in [KeyDevices -> DeviceState] /\ kDev'[d] = r
      /\ \A f \in KeyDevices : f # d => kDev'[f] \in {kDev[f], SignedOut}
  BY <1>0, <1>3, <1>4, OutIsTyped DEF KeyRingTypeOK
<1>6. HoldsHistory(H, r.kv, r.key, r.memo)' /\ Committed(H)'
  BY <1>1, <1>3, <1>4 DEF HoldsHistory, IsHistory, Committed, Hop
<1>7. FlowIsCurrent(r)' /\ r.pc \notin Rotating /\ r.pc # "out"
  BY <1>4 DEF FlowIsCurrent, Rotating
<1>8. kAccount' \in Cred /\ kAccount.kv <= kAccount'.kv /\ kAccount'.kv <= kSalt'
  BY <1>0, <1>3 DEF KeyRingTypeOK, OneRotation, Cred, Versions
<1>9. /\ kChain' \subseteq Links /\ \A l \in kChain' : l.to = l.from + 1
      /\ kBlob' \in [KeySessions -> SealedBy] /\ kContacts' \in SealedBy /\ Boxes' = Boxes
  BY <1>0, <1>3 DEF KeyRingTypeOK, Boxes
<1>. QED  BY <1>1, <1>3, <1>4, <1>5, <1>6, <1>7, <1>8, <1>9, SaltStays, RingKeeps

(* A device seals under the key of its session, and changes only its queue  *)
(* and its memo.                                                            *)
LEMMA SealKeeps ==
  ASSUME KeyRingInv, NEW d \in KeyDevices, kDev[d].pc # "out",
         NEW q \in DeviceState, kDev' = [kDev EXCEPT ![d] = q],
         q.pc = kDev[d].pc, q.kv = kDev[d].kv, q.key = kDev[d].key,
         q.readKv = kDev[d].readKv, q.readKey = kDev[d].readKey, q.new = kDev[d].new, q.got = kDev[d].got,
         \A H \in [Versions -> KeysOfRing] :
           IsHistory(H) => HoldsHistory(H, q.kv, q.key, q.memo),
         kBlob' \in [KeySessions -> SealedBy], kContacts' \in SealedBy,
         \A box \in Boxes' : box \in Boxes \/ box = Sealed(kDev[d].kv, kDev[d].key),
         UNCHANGED <<kAccount, kSalt, kChain>>
  PROVE  KeyRingInv'
<1>. USE KeyRingAssumption
<1>0. KeyRingTypeOK /\ OneRotation /\ FlowIsCurrent(kDev[d])
  BY DEF KeyRingInv, OneRotation
<1>1. PICK H \in [Versions -> KeysOfRing] : IsHistory(H)
  BY DEF KeyRingInv
<1>2. HoldsHistory(H, q.kv, q.key, q.memo)
  BY <1>1
<1>3. ASSUME NEW box \in Boxes', box \notin Boxes PROVE SealedInHistory(H, box)'
  <2>1. box = Sealed(q.kv, q.key) /\ box.v = q.kv /\ box.key = q.key
    BY <1>3 DEF Sealed
  <2>2. VersionOf(box) = q.kv
    BY <1>2, <2>1 DEF VersionOf, HoldsHistory, Versions
  <2>. QED  BY <1>2, <2>1, <2>2 DEF SealedInHistory, HoldsHistory
<1>4. HoldsHistory(H, q.kv, q.key, q.memo)' /\ Committed(H)'
  BY <1>1, <1>2 DEF HoldsHistory, IsHistory, Committed, Hop
<1>5. FlowIsCurrent(q)' /\ (q.pc \in Rotating => kDev[d].pc \in Rotating)
  BY <1>0 DEF FlowIsCurrent, Hop
<1>6. /\ kDev' \in [KeyDevices -> DeviceState] /\ kDev'[d] = q
      /\ \A f \in KeyDevices : f # d => kDev'[f] \in {kDev[f], SignedOut}
  BY <1>0 DEF KeyRingTypeOK
<1>7. kAccount' \in Cred /\ kAccount.kv <= kAccount'.kv /\ kAccount'.kv <= kSalt'
  BY <1>0 DEF KeyRingTypeOK, OneRotation, Cred, Versions
<1>8. /\ kChain' \subseteq Links /\ \A l \in kChain' : l.to = l.from + 1
  BY <1>0 DEF KeyRingTypeOK
<1>. QED  BY <1>1, <1>3, <1>4, <1>5, <1>6, <1>7, <1>8, SaltStays, RingKeeps

LEMMA SessionIsTyped ==
  ASSUME KeyRingInv, NEW d \in KeyDevices, kDev[d].pc # "out"
  PROVE  /\ Sealed(kDev[d].kv, kDev[d].key) \in SealedBy
         /\ \A H : IsHistory(H) => HoldsHistory(H, kDev[d].kv, kDev[d].key, kDev[d].memo)
<1>1. kDev[d] \in DeviceState
  BY DEF KeyRingInv, KeyRingTypeOK
<1>2. kDev[d].kv \in 0 .. MaxSalt /\ kDev[d].key \in SomeKey
  BY <1>1, DeviceTyped
<1>. QED  BY <1>2 DEF Sealed, SealedBy, IsHistory

(* Another queue.                                                           *)
LEMMA QueueMoves ==
  ASSUME KeyRingInv, NEW d \in KeyDevices, kDev[d].pc # "out", NEW P \in SUBSET KeySessions,
         kDev' = [kDev EXCEPT ![d] = [kDev[d] EXCEPT !.pending = P]],
         kBlob' \in [KeySessions -> SealedBy],
         \A s \in KeySessions : kBlob'[s] \in {kBlob[s], Sealed(kDev[d].kv, kDev[d].key)},
         UNCHANGED <<kAccount, kSalt, kChain, kContacts>>
  PROVE  KeyRingInv'
<1>0. KeyRingTypeOK /\ kDev[d] \in DeviceState
  BY DEF KeyRingInv, KeyRingTypeOK
<1>1. PICK q : q = [kDev[d] EXCEPT !.pending = P]
  OBVIOUS
<1>2. /\ q \in DeviceState /\ q.pc = kDev[d].pc /\ q.kv = kDev[d].kv /\ q.key = kDev[d].key
      /\ q.readKv = kDev[d].readKv /\ q.readKey = kDev[d].readKey /\ q.new = kDev[d].new
      /\ q.got = kDev[d].got /\ q.memo = kDev[d].memo
  BY <1>0, <1>1 DEF DeviceState
<1>3. kDev' = [kDev EXCEPT ![d] = q] /\ kContacts' \in SealedBy
  BY <1>0, <1>1 DEF KeyRingTypeOK
<1>4. \A box \in Boxes' : box \in Boxes \/ box = Sealed(kDev[d].kv, kDev[d].key)
  BY DEF Boxes
<1>5. \A H \in [Versions -> KeysOfRing] : IsHistory(H) => HoldsHistory(H, q.kv, q.key, q.memo)
  BY <1>2, SessionIsTyped
<1>. QED  BY <1>2, <1>3, <1>4, <1>5, SealKeeps

LEMMA BackupKeeps ==
  ASSUME KeyRingInv, NEW d \in KeyDevices, NEW s \in KeySessions, BackupSessionKey(d, s)
  PROVE  KeyRingInv'
<1>0. KeyRingTypeOK /\ kDev[d] \in DeviceState /\ kDev[d].pending \subseteq KeySessions
  BY DEF KeyRingInv, KeyRingTypeOK, DeviceState
<1>1. kDev[d].pc # "out" /\ UNCHANGED <<kAccount, kSalt, kChain, kContacts>>
  BY DEF BackupSessionKey
<1>2. Sealed(kDev[d].kv, kDev[d].key) \in SealedBy
  BY <1>1, SessionIsTyped
<1>3. CASE kBlob' = [kBlob EXCEPT ![s] = Sealed(kDev[d].kv, kDev[d].key)] /\ UNCHANGED kDev
  <2>1. kDev' = [kDev EXCEPT ![d] = [kDev[d] EXCEPT !.pending = kDev[d].pending]]
    BY <1>0, <1>3 DEF KeyRingTypeOK, DeviceState
  <2>2. kBlob' \in [KeySessions -> SealedBy]
        /\ \A x \in KeySessions : kBlob'[x] \in {kBlob[x], Sealed(kDev[d].kv, kDev[d].key)}
    BY <1>0, <1>2, <1>3 DEF KeyRingTypeOK
  <2>. QED  BY <1>0, <1>1, <2>1, <2>2, QueueMoves
<1>4. CASE Becomes(d, [kDev[d] EXCEPT !.pending = @ \cup {s}]) /\ UNCHANGED kBlob
  <2>1. kDev' = [kDev EXCEPT ![d] = [kDev[d] EXCEPT !.pending = kDev[d].pending \cup {s}]]
    BY <1>4 DEF Becomes
  <2>2. kBlob' \in [KeySessions -> SealedBy] /\ kBlob' = kBlob
    BY <1>0, <1>4 DEF KeyRingTypeOK
  <2>3. kDev[d].pending \cup {s} \in SUBSET KeySessions
    BY <1>0
  <2>. QED  BY <1>1, <2>1, <2>2, <2>3, QueueMoves
<1>. QED  BY <1>3, <1>4 DEF BackupSessionKey

LEMMA FlushKeeps ==
  ASSUME KeyRingInv, NEW d \in KeyDevices, NEW s \in KeySessions, FlushPending(d, s)
  PROVE  KeyRingInv'
<1>0. KeyRingTypeOK /\ kDev[d] \in DeviceState /\ kDev[d].pending \subseteq KeySessions
  BY DEF KeyRingInv, KeyRingTypeOK, DeviceState
<1>1. kDev[d].pc # "out" /\ UNCHANGED <<kAccount, kSalt, kChain, kContacts>>
      /\ kDev' = [kDev EXCEPT ![d] = [kDev[d] EXCEPT !.pending = kDev[d].pending \ {s}]]
  BY DEF FlushPending, Becomes
<1>2. Sealed(kDev[d].kv, kDev[d].key) \in SealedBy
  BY <1>1, SessionIsTyped
<1>3. kBlob' \in [KeySessions -> SealedBy]
      /\ \A x \in KeySessions : kBlob'[x] \in {kBlob[x], Sealed(kDev[d].kv, kDev[d].key)}
  BY <1>0, <1>2 DEF FlushPending, KeyRingTypeOK
<1>4. kDev[d].pending \ {s} \in SUBSET KeySessions
  BY <1>0
<1>. QED  BY <1>1, <1>3, <1>4, QueueMoves

LEMMA UploadKeeps == ASSUME KeyRingInv, NEW d \in KeyDevices, UploadContacts(d) PROVE KeyRingInv'
<1>0. KeyRingTypeOK /\ kDev[d] \in DeviceState
  BY DEF KeyRingInv, KeyRingTypeOK
<1>1. /\ kDev[d].pc # "out" /\ UNCHANGED <<kAccount, kSalt, kChain, kBlob, kDev>>
      /\ kContacts' = Sealed(kDev[d].kv, kDev[d].key)
  BY DEF UploadContacts
<1>2. kContacts' \in SealedBy /\ kBlob' \in [KeySessions -> SealedBy]
  BY <1>0, <1>1, SessionIsTyped DEF KeyRingTypeOK
<1>3. \A box \in Boxes' : box \in Boxes \/ box = Sealed(kDev[d].kv, kDev[d].key)
  BY <1>1 DEF Boxes
<1>4. PICK q : q = kDev[d]
  OBVIOUS
<1>5. kDev' = [kDev EXCEPT ![d] = q]
  BY <1>0, <1>1, <1>4 DEF KeyRingTypeOK
<1>6. \A H \in [Versions -> KeysOfRing] : IsHistory(H) => HoldsHistory(H, q.kv, q.key, q.memo)
  BY <1>1, <1>4, SessionIsTyped
<1>. QED  BY <1>0, <1>1, <1>2, <1>3, <1>4, <1>5, <1>6, SealKeeps

LEMMA RestoreKeeps ==
  ASSUME KeyRingInv, NEW d \in KeyDevices, NEW box \in Boxes, Restore(d, box)
  PROVE  KeyRingInv'
<1>. USE KeyRingAssumption
<1>0. KeyRingTypeOK /\ kDev[d] \in DeviceState
  BY DEF KeyRingInv, KeyRingTypeOK
<1>. DEFINE path == Path(kDev[d].kv, kDev[d].key, kDev[d].memo, kChain)
            memo == [u \in Versions |->
                       IF VersionOf(box) <= u /\ u < kDev[d].kv /\ kDev[d].memo[u] = NoKey
                       THEN path[u] ELSE kDev[d].memo[u]]
<1>1. /\ kDev[d].pc # "out" /\ UNCHANGED <<kAccount, kSalt, kChain, kBlob, kContacts>>
      /\ VersionOf(box) < kDev[d].kv
  BY DEF Restore
<1>m. kDev[d].memo \in [Versions -> SomeKey] /\ kDev[d].kv \in 0 .. MaxSalt
  BY <1>0, DeviceTyped
<1>2. kDev' = [kDev EXCEPT ![d] = [kDev[d] EXCEPT !.memo = memo]]
  BY <1>0, <1>m DEF Restore, Becomes, DeviceState
<1>3. ASSUME NEW H \in [Versions -> KeysOfRing], IsHistory(H)
      PROVE  /\ memo \in [Versions -> SomeKey]
             /\ HoldsHistory(H, kDev[d].kv, kDev[d].key, memo)
  <2>1. HoldsHistory(H, kDev[d].kv, kDev[d].key, kDev[d].memo) /\ Committed(H) /\ kAccount \in Cred
    BY <1>0, <1>1, <1>3 DEF IsHistory, KeyRingTypeOK
  <2>2. \A v \in Versions : v <= kDev[d].kv => path[v] = H[v]
    BY <2>1, WalkFindsHistory
  <2>3. kDev[d].kv <= kAccount.kv /\ kAccount.kv \in Nat /\ kDev[d].kv \in Nat
    BY <2>1 DEF HoldsHistory, Cred, Versions
  <2>. HIDE DEF path
  <2>4. \A v \in Versions : memo[v] \in {kDev[d].memo[v], H[v]}
                              /\ (memo[v] # kDev[d].memo[v] => v <= kAccount.kv)
    BY <2>2, <2>3 DEF Versions
  <2>5. memo \in [Versions -> SomeKey]
    BY <1>m, <2>4 DEF SomeKey
  <2>. HIDE DEF memo
  <2>. QED  BY <2>1, <2>4, <2>5 DEF HoldsHistory
<1>. HIDE DEF memo
<1>4. PICK m : m = memo
  OBVIOUS
<1>5. PICK q : q = [kDev[d] EXCEPT !.memo = m]
  OBVIOUS
<1>6. m \in [Versions -> SomeKey]
  BY <1>3, <1>4 DEF KeyRingInv
<1>7. /\ q \in DeviceState /\ q.pc = kDev[d].pc /\ q.kv = kDev[d].kv /\ q.key = kDev[d].key
      /\ q.readKv = kDev[d].readKv /\ q.readKey = kDev[d].readKey /\ q.new = kDev[d].new
      /\ q.got = kDev[d].got /\ q.memo = m
  BY <1>0, <1>5, <1>6 DEF DeviceState
<1>8. \A H \in [Versions -> KeysOfRing] : IsHistory(H) => HoldsHistory(H, q.kv, q.key, q.memo)
  BY <1>3, <1>4, <1>7
<1>9. kDev' = [kDev EXCEPT ![d] = q]
  BY <1>2, <1>4, <1>5
<1>10. kBlob' \in [KeySessions -> SealedBy] /\ kContacts' \in SealedBy /\ Boxes' = Boxes
  BY <1>0, <1>1 DEF KeyRingTypeOK, Boxes
<1>. QED  BY <1>1, <1>7, <1>8, <1>9, <1>10, SealKeeps

LEMMA KeyRingInvInit == ASSUME KeyRingInit PROVE KeyRingInv
<1>. USE KeyRingAssumption
<1>1. PICK k : k = Derive(CHOOSE p \in KeyPasswords : TRUE, 1)
  OBVIOUS
<1>2. k \in KeysOfRing
  BY <1>1 DEF Derive, KeysOfRing
<1>3. 1 \in Versions /\ 1 \in 0 .. MaxSalt
  BY DEF Versions
<1>4. /\ kAccount = [kv |-> 1, key |-> k] /\ kSalt = 1 /\ kChain = {} /\ kContacts = NoBlob
      /\ kBlob \in [KeySessions -> {Sealed(0, k), NoBlob}]
      /\ kDev \in [KeyDevices -> {SignedIn(kAccount), SignedOut}]
  BY <1>1 DEF KeyRingInit
<1>5. kAccount \in Cred /\ kAccount.kv = 1 /\ kAccount.key = k
  BY <1>2, <1>3, <1>4 DEF Cred
<1>6. Sealed(0, k) \in SealedBy /\ NoBlob \in SealedBy
  BY <1>2, NothingIsTyped DEF Sealed, NoBlob, SealedBy, SomeKey
<1>. DEFINE in == SignedIn(kAccount)
<1>7. /\ in \in DeviceState /\ in.pc = "in" /\ in.kv = 1 /\ in.key = k /\ in.memo = SignedOut.memo
  <2>1. in = [SignedOut EXCEPT !.pc = "in", !.kv = 1, !.key = k]
    BY <1>5 DEF SignedIn
  <2>2. k \in SomeKey
    BY <1>2 DEF SomeKey
  <2>. HIDE DEF in
  <2>. QED  BY <1>3, <2>1, <2>2, OutIsTyped DEF DeviceState
<1>. HIDE DEF in
<1>8. \A d \in KeyDevices : kDev[d] = in \/ kDev[d] = SignedOut
  BY <1>4 DEF in
<1>9. KeyRingTypeOK
  <2>1. kDev \in [KeyDevices -> DeviceState]
    BY <1>4, <1>7, OutIsTyped DEF in
  <2>2. kBlob \in [KeySessions -> SealedBy]
    BY <1>4, <1>6
  <2>3. \A d \in KeyDevices : /\ kDev[d].pc # "out" => [kv |-> kDev[d].kv, key |-> kDev[d].key] \in Cred
                             /\ kDev[d].kv <= kAccount.kv
    BY <1>2, <1>3, <1>5, <1>7, <1>8, OutIsTyped DEF Cred
  <2>. QED  BY <1>4, <1>5, <1>6, <2>1, <2>2, <2>3 DEF KeyRingTypeOK
<1>10. OneRotation
  <2>1. \A d \in KeyDevices : kDev[d].pc \in {"in", "out"}
    BY <1>7, <1>8, OutIsTyped
  <2>. QED  BY <1>4, <1>5, <2>1 DEF OneRotation, FlowIsCurrent, Rotating
<1>11. PICK H : H = [v \in Versions |-> k]
  OBVIOUS
<1>12. H \in [Versions -> KeysOfRing] /\ H[1] = k
  BY <1>2, <1>3, <1>11
<1>13. Committed(H)
  BY <1>5, <1>12 DEF Committed, Versions
<1>14. \A d \in KeyDevices : kDev[d].pc # "out" => HoldsHistory(H, kDev[d].kv, kDev[d].key, kDev[d].memo)
  <2>1. \A v \in Versions : SignedOut.memo[v] = NoKey
    BY DEF SignedOut
  <2>. QED  BY <1>3, <1>5, <1>7, <1>8, <1>12, <2>1, OutIsTyped DEF HoldsHistory
<1>15. \A box \in Boxes : SealedInHistory(H, box)
  <2>1. \A box \in Boxes : box \in {Sealed(0, k), NoBlob}
    BY <1>4 DEF Boxes
  <2>2. VersionOf(Sealed(0, k)) = 1 /\ Sealed(0, k).key = k
    BY DEF VersionOf, Sealed
  <2>. QED  BY <1>5, <1>12, <2>1, <2>2 DEF SealedInHistory
<1>. QED  BY <1>9, <1>10, <1>12, <1>13, <1>14, <1>15 DEF KeyRingInv, IsHistory

LEMMA KeyRingStep ==
  ASSUME KeyRingInv, Overlapping = FALSE, ChainFaults = FALSE, [KeyRingNext]_kVars
  PROVE  KeyRingInv'
<1>1. CASE UNCHANGED kVars
  BY <1>1 DEF kVars, KeyRingInv, KeyRingTypeOK, OneRotation, FlowIsCurrent, IsHistory, Committed, Hop,
              HoldsHistory, SealedInHistory, Boxes
<1>2. ASSUME NEW d \in KeyDevices,
             \/ SignIn(d) \/ StartRotation(d) \/ FetchChain(d) \/ PutChain(d) \/ PostRotation(d)
             \/ SwapSession(d) \/ AbandonRotation(d) \/ RefusedAsStale(d) \/ StartRevoke(d)
             \/ \E e \in KeyDevices : PostRevoke(d, e)
             \/ \E s \in KeySessions : BackupSessionKey(d, s) \/ FlushPending(d, s)
             \/ UploadContacts(d)
             \/ \E box \in Boxes : Restore(d, box)
      PROVE  KeyRingInv'
  BY <1>2, SignInKeeps, StartRotationKeeps, FetchChainKeeps, PutChainKeeps, PostRotationKeeps, SwapKeeps,
     AbandonKeeps, RefusedKeeps, StartRevokeKeeps, PostRevokeKeeps, BackupKeeps, FlushKeeps, UploadKeeps,
     RestoreKeeps
<1>. QED  BY <1>1, <1>2 DEF KeyRingNext

(* While rotations do not overlap and every GET of the chain is answered, no  *)
(* backup is lost to a change of password, for any devices, passwords and     *)
(* number of rotations (useRotateKeys, appendChainLink, resolveBackupKey).    *)
THEOREM NoBackupIsLost ==
  ASSUME Overlapping = FALSE, ChainFaults = FALSE
  PROVE  KeyRingSpec => []HistoryReachable
<1>1. KeyRingInit => KeyRingInv
  BY KeyRingInvInit
<1>2. KeyRingInv /\ [KeyRingNext]_kVars => KeyRingInv'
  BY KeyRingStep
<1>3. KeyRingInv => HistoryReachable
  BY InvReaches
<1>. QED  BY <1>1, <1>2, <1>3, PTL DEF KeyRingSpec

-----------------------------------------------------------------------------
(* The summary of a conversation.                                          *)

(* Of messages with timestamps, one has the last.                           *)
LEMMA LastExists ==
  ASSUME NEW log, NEW S, S # {}, \A i \in S : log[i].ts \in 0 .. MaxTimes
  PROVE  \E i \in S : \A j \in S : log[j].ts <= log[i].ts
<1>. USE TimelineAssumption
<1>. DEFINE T == {log[i].ts : i \in S}
<1>1. T # {} /\ T \subseteq 0 .. MaxTimes /\ MaxTimes \in Nat
  OBVIOUS
<1>2. PICK t \in T : \A u \in T : u <= t
  BY <1>1, GreatestExists
<1>3. PICK i \in S : log[i].ts = t
  BY <1>2
<1>. QED  BY <1>2, <1>3

LEMMA LastIsOne ==
  ASSUME NEW log, NEW S, \A i \in S : log[i].ts \in 0 .. MaxTimes,
         \A i, j \in S : log[i].ts = log[j].ts => i = j,
         NEW i \in S, \A j \in S : log[j].ts <= log[i].ts
  PROVE  (CHOOSE k \in S : \A j \in S : log[j].ts <= log[k].ts) = i
<1>. USE TimelineAssumption
<1>. DEFINE c == CHOOSE k \in S : \A j \in S : log[j].ts <= log[k].ts
<1>1. c \in S /\ \A j \in S : log[j].ts <= log[c].ts
  OBVIOUS
<1>. HIDE DEF c
<1>2. log[c].ts <= log[i].ts /\ log[i].ts <= log[c].ts /\ log[c].ts \in 0 .. MaxTimes /\ log[i].ts \in 0 .. MaxTimes
  BY <1>1
<1>3. log[c].ts = log[i].ts
  BY <1>2
<1>4. c = i
  BY <1>1, <1>3
<1>. QED  BY <1>4 DEF c

LEMMA LogTyped ==
  ASSUME TimelineTypeOK
  PROVE  /\ Ids = 1 .. Len(lLog) /\ Len(lLog) \in 0 .. MaxLog /\ Ids \subseteq 1 .. MaxLog
         /\ Originals \subseteq Ids
         /\ \A i \in Ids : /\ lLog[i] \in Logged /\ lLog[i].ts \in 0 .. MaxTimes
                           /\ (i \notin Originals => lLog[i].target \in Originals /\ lLog[i].target # 0)
                           /\ (i \in Originals => lLog[i].target = 0)
<1>. USE TimelineAssumption
<1>1. lLog \in Seq(Logged) /\ Len(lLog) <= MaxLog
  BY DEF TimelineTypeOK
<1>2. Len(lLog) \in Nat /\ Ids = 1 .. Len(lLog) /\ \A i \in 1 .. Len(lLog) : lLog[i] \in Logged
  BY <1>1, LenProperties DEF Ids
<1>3. Ids \subseteq 1 .. MaxLog
  BY <1>1, <1>2
<1>4. Originals \subseteq Ids
  BY DEF Originals
<1>5. \A i \in Ids : lLog[i].ts \in 0 .. MaxTimes
  BY <1>2 DEF Logged
<1>6. \A i \in Ids : /\ (i \notin Originals => lLog[i].target \in Originals /\ lLog[i].target # 0)
                     /\ (i \in Originals => lLog[i].target = 0)
  BY <1>2, <1>4 DEF TimelineTypeOK
<1>. QED  BY <1>1, <1>2, <1>3, <1>4, <1>5, <1>6

LEMMA LatestIsLast ==
  ASSUME TimelineTypeOK, NEW S, S \subseteq Originals, S # {}
  PROVE  Latest(S) \in S /\ \A j \in S : TimeOf(j) <= TimeOf(Latest(S))
<1>1. \A i \in S : lLog[i].ts \in 0 .. MaxTimes
  BY LogTyped
<1>2. \E i \in S : \A j \in S : lLog[j].ts <= lLog[i].ts
  BY <1>1, LastExists
<1>. QED  BY <1>2 DEF Latest, TimeOf

LEMMA LatestIsOne ==
  ASSUME TimelineTypeOK, ClocksDiffer, NEW S, S \subseteq Originals,
         NEW i \in S, \A j \in S : TimeOf(j) <= TimeOf(i)
  PROVE  Latest(S) = i
<1>1. \A k \in S : lLog[k].ts \in 0 .. MaxTimes
  BY LogTyped
<1>2. \A k, j \in S : lLog[k].ts = lLog[j].ts => k = j
  BY DEF ClocksDiffer, TimeOf
<1>. QED  BY <1>1, <1>2, LastIsOne DEF Latest, TimeOf

LEMMA LastEdit ==
  ASSUME NEW T, T \subseteq 1 .. MaxLog, T # {}
  PROVE  LastOf(T) \in T
<1>1. T \subseteq 0 .. MaxLog /\ MaxLog \in Nat
  BY TimelineAssumption
<1>2. \E x \in T : \A y \in T : y <= x
  BY <1>1, GreatestExists
<1>. QED  BY <1>2 DEF LastOf

LEMMA SummaryTyped ==
  ASSUME TimelineTypeOK, NEW S, S \subseteq Ids, S \cap Originals # {}
  PROVE  /\ Summarize(S) \in Summaries
         /\ Summarize(S).ts = TimeOf(Latest(S \cap Originals))
<1>. USE TimelineAssumption
<1>. DEFINE i == Latest(S \cap Originals)
<1>1. i \in S \cap Originals /\ i \in 1 .. MaxLog /\ TimeOf(i) \in 0 .. MaxTimes
  BY LatestIsLast, LogTyped DEF TimeOf
<1>. HIDE DEF i
<1>2. Edits(i, S) \subseteq 1 .. MaxLog
  BY LogTyped DEF Edits, Chain
<1>3. RowText(i, S) \in 1 .. MaxLog
  <2>1. CASE Edits(i, S) = {}
    BY <1>1, <2>1 DEF RowText
  <2>2. CASE Edits(i, S) # {}
    BY <1>1, <1>2, <2>2, LastEdit DEF RowText
  <2>. QED  BY <2>1, <2>2
<1>4. IsDeleted(i, S) \in BOOLEAN
  BY DEF IsDeleted
<1>5. Summarize(S) = [text |-> IF IsDeleted(i, S) THEN 0 ELSE RowText(i, S), ts |-> TimeOf(i), deleted |-> IsDeleted(i, S)]
  BY DEF Summarize, i
<1>. QED  BY <1>1, <1>3, <1>4, <1>5 DEF Summaries, i

(* A message that is sent changes no stored message.                        *)
LEMMA SentKeeps ==
  ASSUME TimelineInv, NEW e \in Logged, lLog' = Append(lLog, e), Len(lLog) < MaxLog,
         e.kind \in {"text", "media"} <=> e.target = 0,
         e.target # 0 => e.target \in Originals,
         e.target = 0 => e.ts # 0 /\ \A i \in Originals : TimeOf(i) # e.ts,
         UNCHANGED <<lHas, lRow, lSave, lCuts, lStale>>
  PROVE  TimelineInv'
<1>. USE TimelineAssumption
<1>0. TimelineTypeOK /\ ClocksDiffer /\ SaveIsAlone /\ RowIsTimed /\ RowIsCurrent
  BY DEF TimelineInv
<1>n. PICK n : n = Len(lLog) + 1
  OBVIOUS
<1>1. lLog \in Seq(Logged) /\ Ids = 1 .. Len(lLog) /\ Len(lLog) \in Nat
  BY <1>0, LogTyped DEF TimelineTypeOK
<1>2. /\ lLog' \in Seq(Logged) /\ Len(lLog') = n /\ lLog'[n] = e
      /\ \A i \in 1 .. Len(lLog) : lLog'[i] = lLog[i]
  BY <1>n, <1>1, AppendProperties
<1>3. Ids' = Ids \cup {n} /\ n \notin Ids /\ n \in Nat
  <2>1. Ids' = 1 .. Len(lLog')
    BY <1>2, LenProperties DEF Ids
  <2>. QED  BY <1>n, <1>1, <1>2, <2>1
<1>4. Originals' = Originals \cup (IF e.target = 0 THEN {n} ELSE {})
  BY <1>1, <1>2, <1>3 DEF Originals
<1>5. \A i \in Ids : lLog'[i] = lLog[i]
  BY <1>1, <1>2
<1>6. TimelineTypeOK'
  <2>1. Len(lLog') <= MaxLog
    BY <1>n, <1>1, <1>2
  <2>2. ASSUME NEW i \in Ids'
        PROVE  /\ i \in Originals' <=> lLog'[i].target = 0
               /\ i \notin Originals' => lLog'[i].target \in Originals' \cap 1 .. (i - 1)
    <3>1. CASE i \in Ids
      BY <1>0, <1>3, <1>4, <1>5, <3>1 DEF TimelineTypeOK
    <3>2. CASE i = n
      <4>1. n \in Originals' <=> e.target = 0
        BY <1>3, <1>4, LogTyped, <1>0
      <4>2. e.target # 0 => e.target \in Originals' \cap 1 .. (n - 1)
        BY <1>n, <1>0, <1>1, <1>4, LogTyped
      <4>. QED  BY <1>2, <3>2, <4>1, <4>2
    <3>. QED  BY <1>3, <3>1, <3>2
  <2>3. lHas' \subseteq Ids' /\ lHas' \cap Originals' = lHas \cap Originals
    BY <1>0, <1>3, <1>4 DEF TimelineTypeOK
  <2>4. lSave' \in SaveState /\ lSave'.batch \cup lSave'.history \subseteq Ids'
    BY <1>0, <1>3 DEF TimelineTypeOK
  <2>. QED  BY <1>0, <1>2, <2>1, <2>2, <2>3, <2>4 DEF TimelineTypeOK
<1>7. ClocksDiffer'
  <2>1. \A i \in Originals : i \in Ids /\ TimeOf(i)' = TimeOf(i)
    BY <1>0, <1>5, LogTyped DEF TimeOf
  <2>2. TimeOf(n)' = e.ts
    BY <1>2 DEF TimeOf
  <2>. QED  BY <1>0, <1>4, <2>1, <2>2 DEF ClocksDiffer
<1>8. \A S \in SUBSET Ids : S \cap Originals' = S \cap Originals
  BY <1>3, <1>4
<1>9. SaveIsAlone'
  <2>1. \A S \in SUBSET Ids : NoOrphans(S)' <=> NoOrphans(S)
    BY <1>5, <1>8 DEF NoOrphans
  <2>2. lHas \in SUBSET Ids /\ lHas \cup lSave.batch \in SUBSET Ids
    BY <1>0 DEF TimelineTypeOK
  <2>. QED  BY <1>0, <2>1, <2>2 DEF SaveIsAlone, NoOrphans
<1>10. CASE lHas \cap Originals = {}
  <2>1. lHas' \cap Originals' = {}
    BY <1>0, <1>8, <1>10 DEF TimelineTypeOK
  <2>. QED  BY <1>6, <1>7, <1>9, <2>1 DEF TimelineInv, RowIsTimed, RowIsCurrent
<1>11. CASE lHas \cap Originals # {}
  <2>. DEFINE T == lHas \cap Originals
              i == Latest(T)
  <2>1. T \subseteq Ids /\ T' = T /\ lHas \subseteq Ids /\ lHas' = lHas
    BY <1>0, <1>8 DEF TimelineTypeOK
  <2>2. i \in T /\ \A j \in T : TimeOf(j) <= TimeOf(i)
    BY <1>0, <1>11, LatestIsLast
  <2>3. i' = i
    <3>1. \A j \in T : lLog'[j].ts \in 0 .. MaxTimes
      BY <1>0, <1>5, <2>1, LogTyped
    <3>2. \A j, k \in T : lLog'[j].ts = lLog'[k].ts => j = k
      BY ZenonT(40), <1>0, <1>5, <2>1 DEF ClocksDiffer, TimeOf
    <3>3. \A j \in T : lLog'[j].ts <= lLog'[i].ts
      BY <1>5, <2>1, <2>2 DEF TimeOf
    <3>. HIDE DEF T
    <3>4. (CHOOSE k \in T : \A j \in T : lLog'[j].ts <= lLog'[k].ts) = i
      BY <2>2, <3>1, <3>2, <3>3, LastIsOne
    <3>. QED  BY <2>1, <3>4 DEF Latest, TimeOf
  <2>. HIDE DEF i
  <2>4. TimeOf(i)' = TimeOf(i) /\ lLog'[i] = lLog[i]
    BY <1>5, <2>1, <2>2, <2>3 DEF TimeOf
  <2>5. Chain(i, lHas)' = Chain(i, lHas)
    BY <1>5, <1>8, <2>1, <2>3 DEF Chain
  <2>6. Edits(i, lHas)' = Edits(i, lHas) /\ (IsDeleted(i, lHas)' <=> IsDeleted(i, lHas))
    <3>1. Chain(i, lHas) \subseteq Ids
      BY <2>1 DEF Chain
    <3>. QED  BY <1>5, <2>5, <3>1 DEF Edits, IsDeleted
  <2>7. Summarize(lHas)' = Summarize(lHas)
    <3>1. Summarize(lHas) = [text |-> IF IsDeleted(i, lHas) THEN 0 ELSE RowText(i, lHas), ts |-> TimeOf(i), deleted |-> IsDeleted(i, lHas)]
      BY DEF Summarize, i
    <3>2. Summarize(lHas)' = [text |-> IF IsDeleted(i, lHas)' THEN 0 ELSE RowText(i, lHas)', ts |-> TimeOf(i)', deleted |-> IsDeleted(i, lHas)']
      BY DEF Summarize, i
    <3>3. RowText(i, lHas)' = RowText(i, lHas)
      BY <2>3, <2>4, <2>6 DEF RowText
    <3>4. IsDeleted(i, lHas)' = IsDeleted(i, lHas)
      BY <2>6 DEF IsDeleted
    <3>. QED  BY <2>4, <3>1, <3>2, <3>3, <3>4
  <2>8. RowIsTimed'
    BY <1>0, <1>11, <2>3, <2>4 DEF RowIsTimed, i
  <2>9. RowIsCurrent'
    BY <1>0, <1>11, <2>7 DEF RowIsCurrent
  <2>. QED  BY <1>6, <1>7, <1>9, <2>8, <2>9 DEF TimelineInv
<1>. QED  BY <1>10, <1>11

(* The save goes on, or is cut; what is stored stays.                       *)
LEMMA PhaseKeeps ==
  ASSUME TimelineInv, UNCHANGED <<lLog, lHas, lRow>>,
         lSave' \in SaveState, lSave'.batch \cup lSave'.history \subseteq Ids,
         SaveIsAlone', lStale' \in BOOLEAN,
         (lSave'.pc \in {"idle", "read", "write"} /\ ~lStale') =>
           lSave.pc \in {"idle", "read", "write"} /\ ~lStale
  PROVE  TimelineInv'
<1>0. TimelineTypeOK /\ ClocksDiffer /\ RowIsTimed /\ RowIsCurrent
  BY DEF TimelineInv
<1>1. Ids' = Ids /\ Originals' = Originals
  BY DEF Ids, Originals
<1>2. TimelineTypeOK'
  BY <1>0, <1>1 DEF TimelineTypeOK
<1>3. ClocksDiffer' /\ RowIsTimed'
  BY <1>0, <1>1 DEF ClocksDiffer, RowIsTimed, Latest, TimeOf
<1>4. Summarize(lHas)' = Summarize(lHas)
  BY <1>1 DEF Summarize, RowText, IsDeleted, Edits, Chain, Latest, TimeOf, LastOf
<1>5. RowIsCurrent'
  BY <1>0, <1>1, <1>4 DEF RowIsCurrent
<1>. QED  BY <1>2, <1>3, <1>5 DEF TimelineInv

LEMMA SaveTyped ==
  ASSUME TimelineTypeOK
  PROVE  /\ lSave.pc \in {"idle", "read", "write", "history", "rewrite"}
         /\ lSave.batch \subseteq Ids /\ lSave.history \subseteq Ids /\ lSave.existing \in Summaries
         /\ NoSave \in SaveState /\ NoSave.pc = "idle" /\ NoSave.batch = {} /\ NoSave.history = {}
         /\ NoSummary \in Summaries
BY TimelineAssumption DEF TimelineTypeOK, SaveState, NoSave, NoSummary, Summaries

LEMMA StartSaveKeeps ==
  ASSUME TimelineInv, OrphansFirst = FALSE, NEW B \in SUBSET Ids, StartSave(B)
  PROVE  TimelineInv'
<1>0. TimelineTypeOK /\ SaveIsAlone
  BY DEF TimelineInv
<1>1. /\ UNCHANGED <<lLog, lHas, lRow, lCuts, lStale>> /\ lSave.pc = "idle"
      /\ B \cap lHas = {} /\ \A a \in B \ Originals : lLog[a].target \in lHas \cup B
  BY DEF StartSave, Deliverable
<1>2. B \subseteq 1 .. MaxLog
  BY <1>0, LogTyped
<1>3. /\ lSave' \in SaveState /\ lSave'.pc = "read" /\ lSave'.batch = B /\ lSave'.history = {}
  BY <1>0, <1>2, SaveTyped DEF StartSave, SaveState, NoSave
<1>4. SaveIsAlone'
  BY <1>0, <1>1, <1>3 DEF SaveIsAlone, NoOrphans, Originals, Ids
<1>5. lStale' \in BOOLEAN
  BY <1>0, <1>1 DEF TimelineTypeOK
<1>. QED  BY <1>1, <1>3, <1>4, <1>5, PhaseKeeps

LEMMA ReadSummariesKeeps == ASSUME TimelineInv, ReadSummaries PROVE TimelineInv'
<1>0. TimelineTypeOK /\ SaveIsAlone
  BY DEF TimelineInv
<1>1. UNCHANGED <<lLog, lHas, lRow, lCuts, lStale>> /\ lSave.pc = "read"
  BY DEF ReadSummaries
<1>2. /\ lSave' \in SaveState /\ lSave'.pc = "write" /\ lSave'.batch = lSave.batch
      /\ lSave'.history = lSave.history /\ lSave'.existing = lRow
  BY <1>0 DEF ReadSummaries, TimelineTypeOK, SaveState
<1>3. SaveIsAlone'
  BY <1>0, <1>1, <1>2 DEF SaveIsAlone, NoOrphans, Originals, Ids
<1>4. lStale' \in BOOLEAN /\ lSave'.batch \cup lSave'.history \subseteq Ids
  BY <1>0, <1>1, <1>2, SaveTyped DEF TimelineTypeOK
<1>. QED  BY <1>1, <1>2, <1>3, <1>4, PhaseKeeps

LEMMA ReadHistoryKeeps == ASSUME TimelineInv, ReadHistory PROVE TimelineInv'
<1>0. TimelineTypeOK /\ SaveIsAlone
  BY DEF TimelineInv
<1>1. UNCHANGED <<lLog, lHas, lRow, lCuts, lStale>> /\ lSave.pc = "history"
  BY DEF ReadHistory
<1>2. lHas \subseteq 1 .. MaxLog /\ lHas \subseteq Ids
  BY <1>0, LogTyped DEF TimelineTypeOK
<1>3. /\ lSave' \in SaveState /\ lSave'.pc = "rewrite" /\ lSave'.batch = lSave.batch
      /\ lSave'.history = lHas /\ lSave'.existing = lRow
  BY <1>0, <1>2 DEF ReadHistory, TimelineTypeOK, SaveState
<1>4. SaveIsAlone'
  BY <1>0, <1>1, <1>3 DEF SaveIsAlone, NoOrphans, Originals, Ids
<1>5. lStale' \in BOOLEAN /\ lSave'.batch \cup lSave'.history \subseteq Ids
  BY <1>0, <1>1, <1>2, <1>3, SaveTyped DEF TimelineTypeOK
<1>. QED  BY <1>1, <1>3, <1>4, <1>5, PhaseKeeps

LEMMA CutSaveKeeps == ASSUME TimelineInv, CutSave PROVE TimelineInv'
<1>0. TimelineTypeOK /\ SaveIsAlone
  BY DEF TimelineInv
<1>1. /\ UNCHANGED <<lLog, lHas, lRow>> /\ lSave.pc # "idle" /\ lSave' = NoSave
      /\ lStale' = (lStale \/ lSave.pc \in {"history", "rewrite"})
  BY DEF CutSave
<1>2. SaveIsAlone'
  BY <1>0, <1>1, SaveTyped DEF SaveIsAlone, NoOrphans, Originals, Ids
<1>3. lStale' \in BOOLEAN /\ (~lStale' => ~lStale /\ lSave.pc \in {"read", "write"})
  <2>1. lSave.pc \in {"idle", "read", "write", "history", "rewrite"}
    BY <1>0, SaveTyped
  <2>. QED  BY <1>1, <2>1
<1>4. lSave' \in SaveState /\ lSave'.batch \cup lSave'.history \subseteq Ids
  BY <1>0, <1>1, SaveTyped
<1>. QED  BY <1>1, <1>2, <1>3, <1>4, PhaseKeeps

LEMMA RewriteKeeps == ASSUME TimelineInv, RewriteSummary PROVE TimelineInv'
<1>0. TimelineTypeOK /\ ClocksDiffer /\ SaveIsAlone /\ RowIsTimed
  BY DEF TimelineInv
<1>1. /\ UNCHANGED <<lLog, lHas>> /\ lSave' = NoSave /\ lStale' = FALSE /\ lSave.pc = "rewrite"
      /\ lSave.existing = lRow /\ lSave.history = lHas
  BY <1>0 DEF RewriteSummary, SaveIsAlone
<1>2. Ids' = Ids /\ Originals' = Originals
  BY <1>1 DEF Ids, Originals
<1>3. lHas \subseteq Ids /\ (lRow = NoSummary <=> lHas \cap Originals = {})
  BY <1>0 DEF TimelineTypeOK
<1>4. Summarize(lHas)' = Summarize(lHas)
  BY <1>1, <1>2 DEF Summarize, RowText, IsDeleted, Edits, Chain, Latest, TimeOf, LastOf
<1>5. IF lHas \cap Originals = {} THEN lRow' = lRow ELSE lRow' = Summarize(lHas)
  BY <1>1, <1>3 DEF RewriteSummary
<1>6. lHas \cap Originals # {} => lRow' \in Summaries /\ lRow' # NoSummary
                                 /\ lRow'.ts = TimeOf(Latest(lHas \cap Originals))
  <2>1. SUFFICES ASSUME lHas \cap Originals # {}
                 PROVE  lRow' \in Summaries /\ lRow' # NoSummary
                        /\ lRow'.ts = TimeOf(Latest(lHas \cap Originals))
    OBVIOUS
  <2>2. lRow' \in Summaries /\ lRow'.ts = TimeOf(Latest(lHas \cap Originals))
    BY <1>0, <1>3, <1>5, <2>1, SummaryTyped
  <2>3. TimeOf(Latest(lHas \cap Originals)) # 0
    BY <1>0, <2>1, LatestIsLast DEF ClocksDiffer
  <2>4. NoSummary.ts = 0
    BY DEF NoSummary
  <2>. QED  BY <2>2, <2>3, <2>4
<1>7. TimelineTypeOK'
  <2>1. lRow' \in Summaries /\ (lRow' = NoSummary <=> lHas' \cap Originals' = {})
    BY <1>0, <1>1, <1>2, <1>3, <1>5, <1>6 DEF TimelineTypeOK
  <2>2. lSave' \in SaveState /\ lSave'.batch \cup lSave'.history \subseteq Ids' /\ lStale' \in BOOLEAN
    BY <1>0, <1>1, SaveTyped
  <2>. QED  BY <1>0, <1>1, <1>2, <2>1, <2>2 DEF TimelineTypeOK
<1>8. ClocksDiffer' /\ SaveIsAlone'
  BY <1>0, <1>1, <1>2, SaveTyped DEF ClocksDiffer, SaveIsAlone, TimeOf, NoOrphans
<1>9. RowIsTimed' /\ RowIsCurrent'
  BY <1>1, <1>2, <1>4, <1>5, <1>6 DEF RowIsTimed, RowIsCurrent, Latest, TimeOf
<1>. QED  BY <1>7, <1>8, <1>9 DEF TimelineInv

LEMMA WriteBatchKeeps == ASSUME TimelineInv, WriteBatch PROVE TimelineInv'
<1>. USE TimelineAssumption
<1>0. TimelineTypeOK /\ ClocksDiffer /\ SaveIsAlone /\ RowIsTimed /\ RowIsCurrent
  BY DEF TimelineInv
<1>. DEFINE B   == lSave.batch
            S   == lHas \cup B
            new == B \cap Originals
            old == lHas \cap Originals
            m   == Latest(new)
<1>1. /\ lSave.pc = "write" /\ lSave.existing = lRow
      /\ B \cap lHas = {} /\ NoOrphans(lHas) /\ NoOrphans(S)
  BY <1>0 DEF SaveIsAlone, WriteBatch
<1>2. /\ UNCHANGED <<lLog, lCuts>> /\ lHas' = S
      /\ lRow' = IF new = {} THEN lRow ELSE Merged(lRow, m)
      /\ lStale' = (lStale /\ lRow'.ts = lRow.ts)
      /\ lSave' = IF NeedsReconcile(B) THEN [lSave EXCEPT !.pc = "history"] ELSE NoSave
  BY <1>1 DEF WriteBatch
<1>3. Ids' = Ids /\ Originals' = Originals
  BY <1>2 DEF Ids, Originals
<1>4. /\ S \subseteq Ids /\ lHas \subseteq Ids /\ S \cap Originals = old \cup new
      /\ (lRow = NoSummary <=> old = {}) /\ lRow \in Summaries /\ lRow.ts \in 0 .. MaxTimes
      /\ lStale \in BOOLEAN
  BY <1>0, SaveTyped DEF TimelineTypeOK, Summaries
<1>5. \A i \in Ids : TimeOf(i) \in 0 .. MaxTimes
  BY <1>0, LogTyped DEF TimeOf
<1>6. old \subseteq Originals /\ new \subseteq Originals /\ S \cap Originals \subseteq Originals
      /\ old \subseteq Ids /\ new \subseteq Ids
  BY <1>4
<1>7. old # {} => /\ Latest(old) \in old /\ \A j \in old : TimeOf(j) <= TimeOf(Latest(old))
                  /\ lRow.ts = TimeOf(Latest(old))
  BY <1>0, <1>6, LatestIsLast DEF RowIsTimed
<1>8. new # {} => m \in new /\ \A j \in new : TimeOf(j) <= TimeOf(m)
  BY <1>0, <1>6, LatestIsLast
<1>. HIDE DEF S, new, old, m, B
<1>9. CASE new = {}
  <2>1. lRow' = lRow /\ lStale' = lStale /\ S \cap Originals = old
    BY <1>2, <1>4, <1>9
  <2>2. TimelineTypeOK'
    <3>1. lRow' \in Summaries /\ (lRow' = NoSummary <=> lHas' \cap Originals' = {})
      BY <1>2, <1>3, <1>4, <2>1
    <3>2. lSave' \in SaveState /\ lSave'.batch \cup lSave'.history \subseteq Ids'
      BY <1>0, <1>2, <1>3, SaveTyped DEF TimelineTypeOK, SaveState
    <3>. QED  BY <1>0, <1>2, <1>3, <1>4, <2>1, <3>1, <3>2 DEF TimelineTypeOK
  <2>3. RowIsTimed'
    BY <1>2, <1>3, <1>7, <2>1 DEF RowIsTimed, Latest, TimeOf
  <2>4. lSave'.pc \in {"history", "idle"}
    BY <1>0, <1>2, SaveTyped DEF TimelineTypeOK, SaveState
  <2>5. SaveIsAlone' /\ ClocksDiffer'
    BY <1>0, <1>1, <1>2, <1>3, <2>4 DEF SaveIsAlone, NoOrphans, ClocksDiffer, TimeOf
  <2>6. RowIsCurrent'
    <3>1. CASE NeedsReconcile(B)
      BY <1>0, <1>2, <3>1 DEF RowIsCurrent, TimelineTypeOK, SaveState
    <3>2. CASE ~ NeedsReconcile(B)
      <4>1. S = lHas
        BY <1>9, <3>2 DEF NeedsReconcile, S, new
      <4>2. Summarize(lHas)' = Summarize(lHas)
        BY <1>2, <1>3, <4>1 DEF Summarize, RowText, IsDeleted, Edits, Chain, Latest, TimeOf, LastOf
      <4>. QED  BY <1>0, <1>1, <1>2, <1>3, <2>1, <4>1, <4>2 DEF RowIsCurrent
    <3>. QED  BY <3>1, <3>2
  <2>. QED  BY <2>2, <2>3, <2>5, <2>6 DEF TimelineInv
<1>10. CASE new # {}
  <2>1. m \in new /\ m \in S \cap Originals /\ TimeOf(m) \in 0 .. MaxTimes /\ TimeOf(m) # 0 /\ m \in Ids
        /\ m \notin lHas
    BY <1>0, <1>1, <1>4, <1>5, <1>6, <1>8, <1>10 DEF ClocksDiffer, new
  <2>2. /\ lRow' = Merged(lRow, m)
    BY <1>2, <1>10
  <2>3. PICK l \in S \cap Originals :
          /\ \A j \in S \cap Originals : TimeOf(j) <= TimeOf(l)
          /\ lRow'.ts = TimeOf(l)
          /\ \/ l = m /\ lRow' = [text |-> m, ts |-> TimeOf(m), deleted |-> FALSE]
             \/ l = Latest(old) /\ l \in old /\ lRow' = lRow
    <3>1. CASE lRow.ts > TimeOf(m)
      <4>1. NoSummary.ts = 0
        BY DEF NoSummary
      <4>2. old # {}
        BY <1>4, <2>1, <3>1, <4>1
      <4>3. lRow' = lRow
        BY <2>2, <3>1 DEF Merged
      <4>4. \A j \in S \cap Originals : TimeOf(j) <= TimeOf(Latest(old))
        <5>1. TAKE j \in S \cap Originals
        <5>2. CASE j \in old
          BY <1>7, <4>2, <5>2
        <5>3. CASE j \in new
          <6>1. TimeOf(j) <= TimeOf(m) /\ TimeOf(j) \in 0 .. MaxTimes
            BY <1>5, <1>6, <1>8, <1>10, <5>3
          <6>. QED  BY <1>4, <1>7, <2>1, <3>1, <4>2, <6>1
        <5>. QED  BY <1>4, <5>2, <5>3
      <4>. QED  BY <1>4, <1>7, <4>2, <4>3, <4>4
    <3>2. CASE ~ (lRow.ts > TimeOf(m))
      <4>1. lRow' = [text |-> m, ts |-> TimeOf(m), deleted |-> FALSE]
        BY <2>2, <3>2 DEF Merged
      <4>2. \A j \in S \cap Originals : TimeOf(j) <= TimeOf(m)
        <5>1. TAKE j \in S \cap Originals
        <5>2. CASE j \in new
          BY <1>8, <1>10, <5>2
        <5>3. CASE j \in old
          <6>1. TimeOf(j) <= TimeOf(Latest(old)) /\ lRow.ts = TimeOf(Latest(old)) /\ TimeOf(j) \in 0 .. MaxTimes
            BY <1>5, <1>6, <1>7, <5>3
          <6>. QED  BY <1>4, <2>1, <3>2, <6>1
        <5>. QED  BY <1>4, <5>2, <5>3
      <4>. QED  BY <2>1, <4>1, <4>2
    <3>. QED  BY <3>1, <3>2
  <2>4. Latest(S \cap Originals) = l
    BY <1>0, <1>6, <2>3, LatestIsOne
  <2>5. l \in Ids /\ TimeOf(l) # 0 /\ lRow'.ts # 0
    BY <1>0, <1>4, <2>3 DEF ClocksDiffer
  <2>6. TimelineTypeOK'
    <3>1. m \in 0 .. MaxLog
      BY <1>0, <2>1, LogTyped
    <3>2. lRow' \in Summaries
      <4>1. [text |-> m, ts |-> TimeOf(m), deleted |-> FALSE] \in Summaries
        BY <2>1, <3>1 DEF Summaries
      <4>. QED  BY <1>4, <2>3, <4>1
    <3>3. lRow' # NoSummary /\ lHas' \cap Originals' # {}
      BY <1>2, <1>3, <2>1, <2>5 DEF NoSummary
    <3>4. lSave' \in SaveState /\ lSave'.batch \cup lSave'.history \subseteq Ids'
      BY <1>0, <1>2, <1>3, SaveTyped DEF TimelineTypeOK, SaveState
    <3>. QED  BY <1>0, <1>2, <1>3, <1>4, <3>2, <3>3, <3>4 DEF TimelineTypeOK
  <2>7. Latest(lHas \cap Originals)' = l /\ TimeOf(l)' = TimeOf(l)
    BY <1>2, <1>3, <2>4 DEF Latest, TimeOf
  <2>8. RowIsTimed'
    BY <2>3, <2>7 DEF RowIsTimed, TimeOf
  <2>9. lSave'.pc \in {"history", "idle"}
    BY <1>0, <1>2, SaveTyped DEF TimelineTypeOK, SaveState
  <2>10. SaveIsAlone' /\ ClocksDiffer'
    BY <1>0, <1>1, <1>2, <1>3, <2>9 DEF SaveIsAlone, NoOrphans, ClocksDiffer, TimeOf
  <2>11. RowIsCurrent'
    <3>1. CASE NeedsReconcile(B)
      BY <1>0, <1>2, <3>1 DEF RowIsCurrent, TimelineTypeOK, SaveState
    <3>2. CASE ~ NeedsReconcile(B)
      <4>1. B \subseteq Originals /\ S \ Originals = lHas \ Originals
        BY <3>2 DEF NeedsReconcile, S
      <4>2. Chain(l, lHas)' = Chain(l, lHas)
        <5>1. lHas' \ Originals' = lHas \ Originals
          BY <1>2, <1>3, <4>1
        <5>. QED  BY <1>2, <5>1 DEF Chain
      <4>3. Summarize(lHas)' = [text |-> IF IsDeleted(l, lHas)' THEN 0 ELSE RowText(l, lHas)',
                                ts |-> TimeOf(l)', deleted |-> IsDeleted(l, lHas)']
        BY <2>7 DEF Summarize
      <4>4. IsDeleted(l, lHas)' = IsDeleted(l, lHas)
        BY <1>2, <4>2 DEF IsDeleted
      <4>5. Edits(l, lHas)' = Edits(l, lHas)
        BY <1>2, <4>2 DEF Edits
      <4>6. RowText(l, lHas)' = RowText(l, lHas)
        BY <1>2, <4>5 DEF RowText
      <4>7. CASE l = m /\ lRow' = [text |-> m, ts |-> TimeOf(m), deleted |-> FALSE]
        <5>1. Chain(m, lHas) = {}
          BY <1>1, <2>1 DEF Chain, NoOrphans
        <5>2. IsDeleted(m, lHas) = FALSE /\ RowText(m, lHas) = m
          BY <5>1 DEF IsDeleted, RowText, Edits
        <5>. QED  BY <2>7, <4>3, <4>4, <4>6, <4>7, <5>2 DEF RowIsCurrent
      <4>8. CASE l = Latest(old) /\ l \in old /\ lRow' = lRow
        <5>1. old = lHas \cap Originals /\ old # {} /\ lStale' = lStale
          BY <1>2, <1>4, <4>8 DEF old
        <5>2. Summarize(lHas) = [text |-> IF IsDeleted(l, lHas) THEN 0 ELSE RowText(l, lHas),
                                 ts |-> TimeOf(l), deleted |-> IsDeleted(l, lHas)]
          BY <4>8, <5>1 DEF Summarize
        <5>3. Summarize(lHas)' = Summarize(lHas)
          BY <2>7, <4>3, <4>4, <4>6, <5>2
        <5>. QED  BY <1>0, <1>1, <4>8, <5>1, <5>3 DEF RowIsCurrent
      <4>. QED  BY <2>3, <4>7, <4>8
    <3>. QED  BY <3>1, <3>2
  <2>. QED  BY <2>6, <2>8, <2>10, <2>11 DEF TimelineInv
<1>. QED  BY <1>9, <1>10

LEMMA SendOriginalKeeps ==
  ASSUME TimelineInv, NEW kind \in {"text", "media"}, NEW ts \in 1 .. MaxTimes, SendOriginal(kind, ts)
  PROVE  TimelineInv'
<1>. USE TimelineAssumption
<1>1. PICK e : e = [kind |-> kind, ts |-> ts, target |-> 0]
  OBVIOUS
<1>2. e \in Logged /\ e.kind \in {"text", "media"} /\ e.target = 0 /\ e.ts = ts /\ e.ts # 0
  BY <1>1 DEF Logged
<1>3. /\ lLog' = Append(lLog, e) /\ Len(lLog) < MaxLog /\ \A i \in Originals : TimeOf(i) # ts
      /\ UNCHANGED <<lHas, lRow, lSave, lCuts, lStale>>
  BY <1>1 DEF SendOriginal
<1>. QED  BY <1>2, <1>3, SentKeeps

LEMMA SendAmendmentKeeps ==
  ASSUME TimelineInv, NEW action \in {"edit", "delete"}, NEW i \in Ids, SendAmendment(action, i)
  PROVE  TimelineInv'
<1>. USE TimelineAssumption
<1>1. PICK e : e = [kind |-> action, ts |-> 0, target |-> i]
  OBVIOUS
<1>2. /\ lLog' = Append(lLog, e) /\ Len(lLog) < MaxLog /\ i \in Originals
      /\ UNCHANGED <<lHas, lRow, lSave, lCuts, lStale>>
  BY <1>1 DEF SendAmendment
<1>3. i \in 1 .. MaxLog
  BY LogTyped DEF TimelineInv
<1>4. e \in Logged /\ e.kind \notin {"text", "media"} /\ e.target = i /\ e.target # 0
  BY <1>1, <1>3 DEF Logged
<1>. QED  BY <1>2, <1>4, SentKeeps

LEMMA TimelineInvInit == ASSUME TimelineInit PROVE TimelineInv
<1>. USE TimelineAssumption
<1>1. lLog \in Seq(Logged) /\ Len(lLog) = 0 /\ Ids = {}
  BY EmptySeq DEF TimelineInit, Ids
<1>2. Originals = {}
  BY <1>1 DEF Originals
<1>3. /\ lSave \in SaveState /\ lSave.pc = "idle" /\ lSave.batch = {} /\ lSave.history = {}
      /\ NoSummary \in Summaries
  BY DEF TimelineInit, SaveState, NoSave, NoSummary, Summaries
<1>4. lHas = {} /\ lRow = NoSummary /\ lStale = FALSE
  BY DEF TimelineInit
<1>5. TimelineTypeOK
  <2>1. lHas \subseteq Ids /\ lHas \cap Originals = {} /\ lStale \in BOOLEAN /\ Len(lLog) <= MaxLog
    <3>1. MaxLog \in Nat
      OBVIOUS
    <3>2. Len(lLog) <= MaxLog
      BY <1>1, <3>1
    <3>. QED  BY <1>4, <3>2
  <2>2. lSave.batch \cup lSave.history \subseteq Ids
    BY <1>3
  <2>3. \A i \in Ids : /\ i \in Originals <=> lLog[i].target = 0
                       /\ i \notin Originals => lLog[i].target \in Originals \cap 1 .. (i - 1)
    BY <1>1
  <2>. QED  BY <1>1, <1>3, <1>4, <2>1, <2>2, <2>3 DEF TimelineTypeOK
<1>6. ClocksDiffer /\ SaveIsAlone
  BY <1>2, <1>3, <1>4 DEF ClocksDiffer, SaveIsAlone, NoOrphans
<1>7. RowIsTimed /\ RowIsCurrent
  BY <1>4 DEF RowIsTimed, RowIsCurrent
<1>. QED  BY <1>5, <1>6, <1>7 DEF TimelineInv

LEMMA TimelineStep == ASSUME TimelineInv, OrphansFirst = FALSE, [TimelineNext]_lVars PROVE TimelineInv'
<1>1. CASE UNCHANGED lVars
  <2>1. UNCHANGED <<lLog, lHas, lRow, lSave, lStale>>
    BY <1>1 DEF lVars
  <2>2. TimelineTypeOK /\ SaveIsAlone
    BY DEF TimelineInv
  <2>3. SaveIsAlone'
    BY <2>1, <2>2 DEF SaveIsAlone, NoOrphans, Originals, Ids
  <2>4. lSave' \in SaveState /\ lSave'.batch \cup lSave'.history \subseteq Ids /\ lStale' \in BOOLEAN
    BY <2>1, <2>2 DEF TimelineTypeOK
  <2>. QED  BY <2>1, <2>3, <2>4, PhaseKeeps
<1>2. CASE TimelineNext
  BY <1>2, SendOriginalKeeps, SendAmendmentKeeps, StartSaveKeeps, ReadSummariesKeeps, WriteBatchKeeps,
     ReadHistoryKeeps, RewriteKeeps, CutSaveKeeps DEF TimelineNext
<1>. QED  BY <1>1, <1>2

LEMMA RowIsTheBubble == ASSUME TimelineInv PROVE SummaryMirrorsLastBubble
<1>1. SUFFICES ASSUME lSave.pc = "idle", lHas \cap Originals # {}, ~lStale
               PROVE  LET i == Latest(lHas \cap Originals)
                          b == Bubble(i, lHas)
                      IN  /\ lRow.ts = TimeOf(i)
                          /\ lRow.deleted = b.deleted
                          /\ lRow.text = IF lLog[i].kind = "media" /\ ~b.deleted THEN i ELSE b.text
  BY DEF SummaryMirrorsLastBubble
<1>. DEFINE i == Latest(lHas \cap Originals)
<1>2. lRow = Summarize(lHas)
  BY <1>1 DEF TimelineInv, RowIsCurrent
<1>3. Summarize(lHas) = [text |-> IF IsDeleted(i, lHas) THEN 0 ELSE RowText(i, lHas), ts |-> TimeOf(i),
                         deleted |-> IsDeleted(i, lHas)]
  BY DEF Summarize
<1>. HIDE DEF i
<1>4. CASE IsDeleted(i, lHas)
  BY <1>2, <1>3, <1>4 DEF Bubble, i
<1>5. CASE ~ IsDeleted(i, lHas)
  <2>1. IsDeleted(i, lHas) = FALSE
    BY <1>5 DEF IsDeleted
  <2>2. lRow.text = RowText(i, lHas) /\ lRow.ts = TimeOf(i) /\ lRow.deleted = FALSE
    BY <1>2, <1>3, <2>1
  <2>3. Bubble(i, lHas) = [text |-> IF Edits(i, lHas) = {} THEN i ELSE LastOf(Edits(i, lHas)), deleted |-> FALSE]
    BY <1>5 DEF Bubble
  <2>4. lRow.text = IF lLog[i].kind = "media" \/ Edits(i, lHas) = {} THEN i ELSE LastOf(Edits(i, lHas))
    BY <2>2 DEF RowText
  <2>5. /\ Bubble(i, lHas).deleted = FALSE
        /\ Bubble(i, lHas).text = IF Edits(i, lHas) = {} THEN i ELSE LastOf(Edits(i, lHas))
    BY <2>3
  <2>. QED  BY <2>2, <2>4, <2>5 DEF i
<1>. QED  BY <1>4, <1>5

(* While no amendment is stored before its original, the chats list shows     *)
(* between saves what the chat shows last, for any messages in any groups      *)
(* (saveMessages, recomputeAmendedSummaries, toMessages).                   *)
THEOREM SummaryIsTheBubble ==
  ASSUME OrphansFirst = FALSE
  PROVE  TimelineSpec => []SummaryMirrorsLastBubble
<1>1. TimelineInit => TimelineInv
  BY TimelineInvInit
<1>2. TimelineInv /\ [TimelineNext]_lVars => TimelineInv'
  BY TimelineStep
<1>3. TimelineInv => SummaryMirrorsLastBubble
  BY RowIsTheBubble
<1>. QED  BY <1>1, <1>2, <1>3, PTL DEF TimelineSpec

-----------------------------------------------------------------------------
(* The read markers keep their types; that the devices agree is liveness.   *)

LEMMA MarkersTyped ==
  ASSUME MarkersTypeOK, NEW d \in ReadDevices
  PROVE  /\ MaxStamp \in Nat /\ wHas[d] \subseteq Stamps /\ wSync[d] \in SyncState /\ wView[d] \in ViewState
         /\ wSync[d].remote \in 0 .. MaxStamp /\ wSync[d].merged \in 0 .. MaxStamp
         /\ wRow[d] \in [exists : BOOLEAN, read : 0 .. MaxStamp] /\ wRow[d].read \in 0 .. MaxStamp
         /\ wView[d].latest \in 0 .. MaxStamp /\ wView[d].shown \subseteq Stamps
<1>1. MaxStamp \in Nat
  BY ReadAssumption
<1>2. /\ wHas[d] \subseteq Stamps /\ wSync[d] \in SyncState /\ wView[d] \in ViewState
      /\ wRow[d] \in [exists : BOOLEAN, read : 0 .. MaxStamp]
  BY DEF MarkersTypeOK
<1>. QED  BY <1>1, <1>2 DEF SyncState, ViewState

LEMMA NewestTyped == ASSUME NEW S, S \subseteq Stamps, S # {} PROVE Newest(S) \in 0 .. MaxStamp
<1>1. MaxStamp \in Nat /\ S \subseteq 0 .. MaxStamp
  BY ReadAssumption DEF Stamps
<1>2. \E x \in S : \A y \in S : y <= x
  BY <1>1, GreatestExists
<1>3. Newest(S) \in S \cup {0}
  BY <1>2 DEF Newest
<1>4. 0 \in 0 .. MaxStamp
  BY <1>1
<1>. QED  BY <1>1, <1>3, <1>4

(* A step of the sync that stores nothing.                                  *)
LEMMA SyncKeeps ==
  ASSUME MarkersTypeOK, NEW d \in ReadDevices, NEW s \in SyncState, SetSync(d, s),
         wRemote' \in 0 .. MaxStamp, wDue' \subseteq ReadDevices, UNCHANGED <<wSent, wHas, wRow, wView>>
  PROVE  MarkersTypeOK'
BY DEF MarkersTypeOK, SetSync

(* A step of the view that stores nothing.                                  *)
LEMMA ViewKeeps ==
  ASSUME MarkersTypeOK, NEW d \in ReadDevices, NEW v \in ViewState, SetView(d, v), v.shown \subseteq wHas[d],
         UNCHANGED <<wSent, wHas, wRow, wRemote, wSync, wDue>>
  PROVE  MarkersTypeOK'
<1>1. wView' \in [ReadDevices -> ViewState] /\ wView'[d] = v /\ \A e \in ReadDevices : e # d => wView'[e] = wView[e]
  BY DEF MarkersTypeOK, SetView
<1>. QED  BY <1>1 DEF MarkersTypeOK

LEMMA StartSyncTyped == ASSUME MarkersTypeOK, NEW d \in ReadDevices, StartSyncAndPublish(d) PROVE MarkersTypeOK'
<1>. DEFINE new == 1 .. wSent \ wHas[d]
            s == [NoSync EXCEPT !.pc = "get"]
<1>1. new \subseteq Stamps
  BY ReadAssumption DEF MarkersTypeOK, Stamps
<1>2. s \in SyncState
  BY ReadAssumption DEF SyncState, NoSync
<1>. HIDE DEF s, new
<1>3. wSync' \in [ReadDevices -> SyncState]
  BY <1>2 DEF StartSyncAndPublish, MarkersTypeOK, SetSync, s
<1>4. wHas' = [wHas EXCEPT ![d] = wHas[d] \cup new]
  BY DEF StartSyncAndPublish, new
<1>5. wHas' \in [ReadDevices -> SUBSET Stamps] /\ wHas'[d] = wHas[d] \cup new
      /\ \A e \in ReadDevices : e # d => wHas'[e] = wHas[e]
  BY <1>1, <1>4 DEF MarkersTypeOK
<1>6. wRow' = IF new = {} THEN wRow ELSE [wRow EXCEPT ![d] = SavedRow(wRow[d])]
  BY DEF StartSyncAndPublish, new
<1>7. SavedRow(wRow[d]) \in [exists : BOOLEAN, read : 0 .. MaxStamp] /\ SavedRow(wRow[d]).exists
  BY ReadAssumption DEF SavedRow
<1>8. wRow' \in [ReadDevices -> [exists : BOOLEAN, read : 0 .. MaxStamp]]
      /\ \A e \in ReadDevices : wHas'[e] # {} => wRow'[e].exists
  BY <1>5, <1>6, <1>7 DEF MarkersTypeOK
<1>9. UNCHANGED <<wSent, wRemote, wView, wDue>>
  BY DEF StartSyncAndPublish
<1>. QED  BY <1>3, <1>5, <1>8, <1>9 DEF MarkersTypeOK

LEMMA MarkTyped ==
  ASSUME MarkersTypeOK, NEW d \in ReadDevices, NEW n \in 0 .. MaxStamp,
         wRow' = [wRow EXCEPT ![d].read = n]
  PROVE  /\ wRow' \in [ReadDevices -> [exists : BOOLEAN, read : 0 .. MaxStamp]]
         /\ \A e \in ReadDevices : wRow'[e].exists = wRow[e].exists
BY DEF MarkersTypeOK

LEMMA SyncStepTyped == ASSUME MarkersTypeOK, NEW d \in ReadDevices, SyncStep(d) PROVE MarkersTypeOK'
<1>. DEFINE s == wSync[d]
<1>0. s \in SyncState /\ wRemote \in 0 .. MaxStamp /\ 0 \in 0 .. MaxStamp /\ wDue \subseteq ReadDevices
      /\ s.remote \in 0 .. MaxStamp /\ s.merged \in 0 .. MaxStamp /\ wRow[d].read \in 0 .. MaxStamp
  BY MarkersTyped, ReadAssumption DEF MarkersTypeOK
<1>1. CASE StartSyncAndPublish(d)
  BY <1>1, StartSyncTyped
<1>2. CASE PushDue(d)
  <2>1. [NoSync EXCEPT !.pc = "get"] \in SyncState
    BY <1>0 DEF SyncState, NoSync
  <2>. QED  BY <1>0, <1>2, <2>1, SyncKeeps DEF PushDue
<1>3. CASE GetRemote(d)
  <2>1. /\ [s EXCEPT !.pc = "merge", !.remote = wRemote] \in SyncState
        /\ [s EXCEPT !.pc = "merge", !.remote = 0] \in SyncState
    BY <1>0 DEF SyncState
  <2>. QED  BY <1>0, <1>3, <2>1, SyncKeeps DEF GetRemote
<1>4. CASE LoadAndMerge(d)
  <2>1. MergeMarkers(wRow[d].read, s.remote) \in 0 .. MaxStamp
    BY <1>0 DEF MergeMarkers
  <2>. DEFINE m  == MergeMarkers(wRow[d].read, s.remote)
              pc == IF m > wRow[d].read /\ wRow[d].exists THEN "mark" ELSE IF m > s.remote THEN "put" ELSE "idle"
  <2>. HIDE DEF m
  <2>2. [s EXCEPT !.merged = m, !.pc = pc] \in SyncState
    BY <1>0, <2>1 DEF SyncState, m
  <2>3. SetSync(d, [s EXCEPT !.merged = m, !.pc = pc]) /\ UNCHANGED <<wSent, wHas, wRow, wRemote, wView, wDue>>
    BY <1>4 DEF LoadAndMerge, m
  <2>. QED  BY <1>0, <2>2, <2>3, SyncKeeps
<1>5. CASE MarkMerged(d)
  <2>1. wRow' = [wRow EXCEPT ![d].read = s.merged]
    BY <1>5 DEF MarkMerged
  <2>2. wRow' \in [ReadDevices -> [exists : BOOLEAN, read : 0 .. MaxStamp]]
        /\ \A e \in ReadDevices : wRow'[e].exists = wRow[e].exists
    BY <1>0, <2>1, MarkTyped
  <2>3. [s EXCEPT !.pc = IF s.merged > s.remote THEN "put" ELSE "idle"] \in SyncState
    BY <1>0 DEF SyncState
  <2>4. wSync' \in [ReadDevices -> SyncState]
    BY <1>5, <2>3 DEF MarkMerged, SetSync, MarkersTypeOK
  <2>5. UNCHANGED <<wSent, wHas, wRemote, wView, wDue>>
    BY <1>5 DEF MarkMerged
  <2>. QED  BY <2>2, <2>4, <2>5 DEF MarkersTypeOK
<1>6. CASE PutRemote(d)
  <2>1. NoSync \in SyncState
    BY <1>0 DEF SyncState, NoSync
  <2>2. wRemote' \in 0 .. MaxStamp /\ SetSync(d, NoSync) /\ UNCHANGED <<wSent, wHas, wRow, wView, wDue>>
    BY <1>0, <1>6 DEF PutRemote
  <2>. QED  BY <1>0, <2>1, <2>2, SyncKeeps
<1>. QED  BY <1>1, <1>2, <1>3, <1>4, <1>5, <1>6 DEF SyncStep

LEMMA ViewStepTyped ==
  ASSUME MarkersTypeOK, NEW d \in ReadDevices, ViewStep(d) \/ OpenChat(d) \/ CloseChat(d)
  PROVE  MarkersTypeOK'
<1>. DEFINE v == wView[d]
<1>0. /\ v \in ViewState /\ v.latest \in 0 .. MaxStamp /\ v.shown \subseteq wHas[d] /\ wHas[d] \subseteq Stamps
      /\ wRow[d].read \in 0 .. MaxStamp /\ 0 \in 0 .. MaxStamp
  BY MarkersTyped, ReadAssumption DEF MarkersTypeOK
<1>n. NoView \in ViewState /\ NoView.shown = {}
  BY <1>0 DEF NoView, ViewState
<1>1. CASE LoadChat(d)
  <2>1. PICK n : n = Newest(wHas[d])
    OBVIOUS
  <2>. DEFINE pc == IF wHas[d] = {} THEN "open" ELSE "mark"
  <2>2. n \in 0 .. MaxStamp
    <3>1. CASE wHas[d] = {}
      <4>1. Newest({}) = 0
        BY DEF Newest
      <4>. QED  BY <1>0, <2>1, <3>1, <4>1
    <3>2. CASE wHas[d] # {}
      BY <1>0, <2>1, <3>2, NewestTyped
    <3>. QED  BY <3>1, <3>2
  <2>3. PICK w : w = [v EXCEPT !.shown = wHas[d], !.latest = n, !.pc = pc]
    OBVIOUS
  <2>4. w \in ViewState /\ w.shown = wHas[d]
    BY <1>0, <2>2, <2>3 DEF ViewState
  <2>5. SetView(d, w) /\ UNCHANGED <<wSent, wHas, wRow, wRemote, wSync, wDue>>
    BY <1>1, <2>1, <2>3 DEF LoadChat
  <2>. QED  BY <2>4, <2>5, ViewKeeps
<1>2. CASE CheckMark(d)
  <2>1. PICK w : w = [v EXCEPT !.pc = IF v.latest > wRow[d].read THEN "write" ELSE "open"]
    OBVIOUS
  <2>2. w \in ViewState /\ w.shown = v.shown
    BY <1>0, <2>1 DEF ViewState
  <2>. QED  BY <1>0, <1>2, <2>1, <2>2, ViewKeeps DEF CheckMark
<1>3. CASE WriteMark(d)
  <2>1. wRow' \in [ReadDevices -> [exists : BOOLEAN, read : 0 .. MaxStamp]]
        /\ \A e \in ReadDevices : wRow'[e].exists = wRow[e].exists
    BY <1>0, <1>3, MarkTyped DEF WriteMark
  <2>2. PICK w : w = [v EXCEPT !.pc = "open"]
    OBVIOUS
  <2>3. w \in ViewState /\ w.shown = v.shown
    BY <1>0, <2>2 DEF ViewState
  <2>4. wView' = [wView EXCEPT ![d] = w]
    BY <1>3, <2>2 DEF WriteMark, SetView
  <2>5. wView' \in [ReadDevices -> ViewState] /\ \A e \in ReadDevices : wView'[e].shown = wView[e].shown
    BY <2>3, <2>4 DEF MarkersTypeOK
  <2>6. UNCHANGED <<wSent, wHas, wRemote, wSync>> /\ wDue' \subseteq ReadDevices
    BY <1>3 DEF WriteMark, MarkersTypeOK
  <2>. QED  BY <2>1, <2>5, <2>6 DEF MarkersTypeOK
<1>4. CASE RefreshChat(d)
  <2>1. PICK w : w = [v EXCEPT !.pc = "load"]
    OBVIOUS
  <2>2. w \in ViewState /\ w.shown = v.shown
    BY <1>0, <2>1 DEF ViewState
  <2>. QED  BY <1>0, <1>4, <2>1, <2>2, ViewKeeps DEF RefreshChat
<1>5. CASE OpenChat(d)
  <2>1. PICK w : w = [NoView EXCEPT !.pc = "load", !.boundary = wRow[d].read]
    OBVIOUS
  <2>2. w \in ViewState /\ w.shown = {}
    BY <1>0, <1>n, <2>1 DEF ViewState
  <2>. QED  BY <1>5, <2>1, <2>2, ViewKeeps DEF OpenChat
<1>6. CASE CloseChat(d)
  BY <1>6, <1>n, ViewKeeps DEF CloseChat
<1>. QED  BY <1>1, <1>2, <1>3, <1>4, <1>5, <1>6 DEF ViewStep

LEMMA MarkersInitTyped == ASSUME MarkersInit PROVE MarkersTypeOK
BY ReadAssumption DEF MarkersInit, MarkersTypeOK, SyncState, ViewState, NoSync, NoView, NoRow, Stamps

LEMMA MarkersStepTyped == ASSUME MarkersTypeOK, [MarkersNext]_wVars PROVE MarkersTypeOK'
<1>1. CASE UNCHANGED wVars
  BY <1>1 DEF wVars, MarkersTypeOK
<1>2. CASE MessageArrives
  BY <1>2, ReadAssumption DEF MessageArrives, MarkersTypeOK
<1>. QED  BY <1>1, <1>2, SyncStepTyped, ViewStepTyped DEF MarkersNext

-----------------------------------------------------------------------------
(* The client as a whole.                                                  *)

(* A behaviour of the client is one of each of its parts: a step of one is  *)
(* a stutter of the others.                                                *)
LEMMA PartsOfTheClient ==
  ClientSpec => /\ SessionsSpec /\ MediaSpec /\ ComposerSpec /\ StoreSpec
                /\ KeyRingSpec /\ TimelineSpec /\ MarkersSpec
<1>1. ClientInit => /\ SessionsInit /\ MediaInit /\ ComposerInit /\ StoreInit
                    /\ KeyRingInit /\ TimelineInit /\ MarkersInit
  BY DEF ClientInit
<1>2. [ClientNext]_clientVars =>
        /\ [SessionsNext]_mVars /\ [MediaNext]_vVars /\ [ComposerNext]_cVars /\ [StoreNext]_oVars
        /\ [KeyRingNext]_kVars /\ [TimelineNext]_lVars /\ [MarkersNext]_wVars
  <2>1. CASE UNCHANGED clientVars
    BY <2>1 DEF clientVars
  <2>2. CASE ClientNext
    BY <2>2 DEF ClientNext
  <2>. QED  BY <2>1, <2>2
<1>. QED
  BY <1>1, <1>2, PTL
  DEF ClientSpec, SessionsSpec, MediaSpec, ComposerSpec, StoreSpec, KeyRingSpec, TimelineSpec, MarkersSpec

(* The safety the runs check of these parts holds of the client: each part   *)
(* keeps its own property, whatever the others do.                          *)
THEOREM ClientIsSound ==
  ASSUME StrayMoves = FALSE, NarrowRaces = FALSE, OrphansFirst = FALSE,
         Overlapping = FALSE, ChainFaults = FALSE
  PROVE  ClientSpec => [](/\ IndexNeverReused /\ MessageComesWithKey
                          /\ ShownIsLive /\ SentAsComposed /\ OneOwner
                          /\ HistoryReachable /\ SummaryMirrorsLastBubble)
<1>1. ComposerSpec => []SentAsComposed
  BY ComposedIsSent
<1>2. StoreSpec => []OneOwner
  BY BrowserHasOneOwner
<1>3. KeyRingSpec => []HistoryReachable
  BY NoBackupIsLost
<1>4. TimelineSpec => []SummaryMirrorsLastBubble
  BY SummaryIsTheBubble
<1>. QED
  BY <1>1, <1>2, <1>3, <1>4, PartsOfTheClient, RatchetsMoveOn, KeysComeFirst, PicturesAreLive, PTL

(* The state of every part of the client stays in its types.                *)
THEOREM ClientTypeCorrect ==
  ASSUME StrayMoves = FALSE, NarrowRaces = FALSE, OrphansFirst = FALSE,
         Overlapping = FALSE, ChainFaults = FALSE
  PROVE  ClientSpec => []ClientTypeOK
<1>1. SessionsSpec => []SessionsInv
  BY SessionsInvInit, SessionsStep, PTL DEF SessionsSpec
<1>2. MediaSpec => []MediaInv
  <2>1. MediaInit => MediaInv
    BY MediaInvInit
  <2>2. MediaInv /\ [MediaNext]_vVars => MediaInv'
    BY MediaStep
  <2>. QED  BY <2>1, <2>2, PTL DEF MediaSpec
<1>3. ComposerSpec => []ComposerInv
  BY ComposerInvInit, ComposerStep, PTL DEF ComposerSpec
<1>4. StoreSpec => []StoreInv
  <2>1. StoreInit => StoreInv
    BY StoreInvInit
  <2>2. StoreInv /\ [StoreNext]_oVars => StoreInv'
    BY StoreStep
  <2>. QED  BY <2>1, <2>2, PTL DEF StoreSpec
<1>5. KeyRingSpec => []KeyRingInv
  <2>1. KeyRingInit => KeyRingInv
    BY KeyRingInvInit
  <2>2. KeyRingInv /\ [KeyRingNext]_kVars => KeyRingInv'
    BY KeyRingStep
  <2>. QED  BY <2>1, <2>2, PTL DEF KeyRingSpec
<1>6. TimelineSpec => []TimelineInv
  <2>1. TimelineInit => TimelineInv
    BY TimelineInvInit
  <2>2. TimelineInv /\ [TimelineNext]_lVars => TimelineInv'
    BY TimelineStep
  <2>. QED  BY <2>1, <2>2, PTL DEF TimelineSpec
<1>7. MarkersSpec => []MarkersTypeOK
  <2>1. MarkersInit => MarkersTypeOK
    BY MarkersInitTyped
  <2>2. MarkersTypeOK /\ [MarkersNext]_wVars => MarkersTypeOK'
    BY MarkersStepTyped
  <2>. QED  BY <2>1, <2>2, PTL DEF MarkersSpec
<1>8. /\ SessionsInv /\ MediaInv /\ ComposerInv /\ StoreInv /\ KeyRingInv /\ TimelineInv /\ MarkersTypeOK
      => ClientTypeOK
  BY DEF SessionsInv, MediaInv, ComposerInv, StoreInv, KeyRingInv, TimelineInv, ClientTypeOK
<1>. QED  BY <1>1, <1>2, <1>3, <1>4, <1>5, <1>6, <1>7, <1>8, PartsOfTheClient, PTL
=============================================================================
