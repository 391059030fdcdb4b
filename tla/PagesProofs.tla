---------------------------- MODULE PagesProofs ----------------------------
(***************************************************************************)
(* What runs in a browser, for every value of the constants: each page's   *)
(* promises follow from an invariant of its own part, which the steps of   *)
(* the other parts leave alone.                                            *)
(***************************************************************************)
EXTENDS Pages, Sequences, FiniteSets, FiniteSetTheorems, TLAPS

-----------------------------------------------------------------------------
(* The friends page: the property is inductive as it stands                 *)

LEMMA PageInits == Page!Init => Page!PollsWhilePending
  BY DEF Page!Init, Page!PollsWhilePending

LEMMA PageStays ==
  ASSUME Page!PollsWhilePending, UNCHANGED Page!browser
  PROVE  Page!PollsWhilePending'
  BY DEF Page!PollsWhilePending, Page!browser

\* What an answer turns the page to.
LEMMA PageApplies ==
  ASSUME NEW user, Page!ApplyMe(user)
  PROVE  Page!PollsWhilePending'
  BY DEF Page!ApplyMe, Page!PollsFor, Page!PollsWhilePending, Page!Statuses

LEMMA PageDelivers ==
  ASSUME Page!PollsWhilePending, NEW call \in Page!Calls, Page!Deliver(call)
  PROVE  Page!PollsWhilePending'
<1> PICK r \in pageRequests :
       IF r.answer = "error"
       THEN page' = Page!AfterFailure(call) /\ UNCHANGED <<cookie, me, polling>>
       ELSE Page!ApplyMe(IF call = "logout" THEN Page!None ELSE r.answer)
  BY DEF Page!Deliver
<1>1. CASE r.answer = "error"
  BY <1>1 DEF Page!PollsWhilePending, Page!AfterFailure
<1>2. CASE r.answer # "error"
  BY <1>2, PageApplies
<1> QED BY <1>1, <1>2

LEMMA PageSteps ==
  ASSUME Page!PollsWhilePending, [Page!Next]_(Page!vars)
  PROVE  Page!PollsWhilePending'
<1>1. CASE Page!Decide
  BY <1>1, PageStays DEF Page!Decide
<1>2. CASE Page!Fail
  BY <1>2, PageStays DEF Page!Fail, Page!browser
<1>3. CASE Page!Turn
  BY <1>3 DEF Page!Turn, Page!PollsWhilePending, Page!Forms
<1>4. CASE Page!Submit \/ Page!Recheck \/ Page!Logout \/ Page!SetStyle
  BY <1>4, PageStays DEF Page!Submit, Page!Recheck, Page!Logout, Page!SetStyle, Page!Click
<1>5. CASE Page!PollFires
  BY <1>5 DEF Page!PollFires, Page!KeepsPolling, Page!PollsWhilePending
<1>6. ASSUME NEW call \in Page!Calls, Page!Serve(call) PROVE Page!PollsWhilePending'
  BY <1>6, PageStays DEF Page!Serve, Page!Answer
<1>7. ASSUME NEW call \in Page!Calls, Page!Deliver(call) PROVE Page!PollsWhilePending'
  BY <1>7, PageDelivers
<1>8. CASE Page!Idle \/ UNCHANGED Page!vars
  BY <1>8, PageStays DEF Page!Idle, Page!vars
<1> QED BY <1>1, <1>2, <1>3, <1>4, <1>5, <1>6, <1>7, <1>8 DEF Page!Next

-----------------------------------------------------------------------------
(* The composer                                                            *)

\* What is under way when nobody has sent a message: one preview at most, the newest,
\* of the text as it is unless the text has just changed.
WritingAsked ==
  /\ textSeq \in Int
  /\ \A r, s \in previews : r = s
  /\ \A r \in previews : r.seq = textSeq
  /\ mails = 0 /\ ~typed => \A r \in previews : body # Composer!Blank /\ r.shows = Composer!Receipt

\* And what the panel shows.
WritingShown ==
  mails = 0 =>
    /\ mail = {}
    /\ ~typed /\ previews = {} => body = Composer!Blank \/ progress \in {"ready", "failed"}
    /\ ~typed /\ progress = "ready" => receipt = {Composer!Receipt} /\ body # Composer!Blank
    /\ ~typed /\ body = Composer!Blank => previews = {} /\ receipt = {}

WritingInv == /\ mails \in Int /\ mails >= 0 /\ WritingAsked /\ WritingShown

LEMMA WritingInits == Composer!Init => WritingInv
  BY DEF Composer!Init, WritingInv, WritingAsked, WritingShown

LEMMA WritingIsSound == WritingInv => Composer!ReadyIsCurrent /\ Composer!SettledIsCurrent
  BY DEF WritingInv, WritingAsked, WritingShown, Composer!ReadyIsCurrent, Composer!SettledIsCurrent

LEMMA WritingTyped == ASSUME WritingInv, Composer!Edit PROVE WritingInv'
  BY DEF WritingInv, WritingAsked, WritingShown, Composer!Edit, Composer!Schedule, Composer!Receipt

LEMMA WritingTimer == ASSUME WritingInv, Composer!TimerFires PROVE WritingInv'
<1>1. CASE body = Composer!Blank
  BY <1>1
     DEF WritingInv, WritingAsked, WritingShown, Composer!TimerFires, Composer!UpdatePreview,
         Composer!Supersede, Composer!Placeholder, Composer!Receipt
<1>2. CASE body # Composer!Blank
  <2> DEFINE q == [seq |-> textSeq + 1, shows |-> Composer!Receipt, done |-> FALSE, ok |-> FALSE]
  <2>1. previews' = {q} /\ textSeq' = textSeq + 1 /\ progress' = "rendering"
    BY <1>2 DEF Composer!TimerFires, Composer!UpdatePreview
  <2>2. q.seq = textSeq + 1 /\ q.shows = Composer!Receipt
    OBVIOUS
  <2>3. Composer!Receipt' = Composer!Receipt /\ UNCHANGED <<body, anon, mail, mails>>
    BY DEF Composer!TimerFires, Composer!Receipt
  <2> HIDE DEF q
  <2> QED BY <1>2, <2>1, <2>2, <2>3 DEF WritingInv, WritingAsked, WritingShown
<1> QED BY <1>1, <1>2

LEMMA WritingServes == ASSUME WritingInv, Composer!ServePreview PROVE WritingInv'
<1> PICK r \in previews, ok \in BOOLEAN :
       previews' = (previews \ {r}) \cup {[r EXCEPT !.done = TRUE, !.ok = ok]}
  BY DEF Composer!ServePreview
<1> DEFINE q == [r EXCEPT !.done = TRUE, !.ok = ok]
<1>1. previews' = {q}
  BY DEF WritingInv, WritingAsked
<1>2. q.seq = r.seq /\ q.shows = r.shows
  OBVIOUS
<1> HIDE DEF q
<1> QED BY <1>1, <1>2
           DEF WritingInv, WritingAsked, WritingShown, Composer!ServePreview, Composer!Receipt

LEMMA WritingAnswers == ASSUME WritingInv, Composer!AnswerPreview PROVE WritingInv'
<1> PICK r \in previews :
       /\ previews' = previews \ {r}
       /\ IF r.seq # textSeq THEN UNCHANGED <<receipt, progress>>
          ELSE IF r.ok THEN receipt' = {r.shows} /\ progress' = "ready"
          ELSE receipt' = {} /\ progress' = "failed"
  BY DEF Composer!AnswerPreview
<1>1. previews' = {} /\ r.seq = textSeq
  BY DEF WritingInv, WritingAsked
<1> QED BY <1>1 DEF WritingInv, WritingAsked, WritingShown, Composer!AnswerPreview, Composer!Receipt

LEMMA WritingSteps == ASSUME Composer!ComposerAssumption, WritingInv, [Composer!Next]_(Composer!vars)
                      PROVE  WritingInv'
<1>1. CASE Composer!ClickSend
  BY <1>1 DEF WritingInv, WritingAsked, WritingShown, Composer!ClickSend
<1>2. CASE Composer!ServeSend
  BY <1>2 DEF WritingInv, WritingAsked, WritingShown, Composer!ServeSend, Composer!Receipt
<1>3. CASE Composer!AnswerSend
  BY <1>3 DEF WritingInv, WritingAsked, WritingShown, Composer!AnswerSend
<1>4. CASE Composer!Rest \/ UNCHANGED Composer!vars
  BY <1>4 DEF WritingInv, WritingAsked, WritingShown, Composer!Rest, Composer!vars, Composer!Receipt
<1> QED BY <1>1, <1>2, <1>3, <1>4, WritingTyped, WritingTimer, WritingServes, WritingAnswers
           DEF Composer!Next

-----------------------------------------------------------------------------
(* The history and its cap                                                 *)

RowStatus == {"scheduled", "queued", "printed", "failed", "cancelled"}

\* The cap's count, and the capsules it counts.
HistoryInv ==
  /\ rows \in Seq(RowStatus)
  /\ capsule \subseteq DOMAIN rows
  /\ \A m \in DOMAIN rows : rows[m] = "scheduled" => m \in capsule
  /\ Cardinality(History!Waiting) <= Cap

LEMMA WaitingIsFinite ==
  ASSUME rows \in Seq(RowStatus), capsule \subseteq DOMAIN rows
  PROVE  IsFiniteSet(History!Waiting) /\ Cardinality(History!Waiting) \in Nat
<1>1. IsFiniteSet(1 .. Len(rows))
  BY FS_Interval
<1> QED BY <1>1, FS_Subset, FS_CardinalityType DEF History!Waiting

\* Before a capsule that waits come only capsules that wait.
\* The count of the page's module is that of the library.
LEMMA HistoryCounts == \A S : History!Cardinality(S) = Cardinality(S)
  BY DEF History!Cardinality, Cardinality

LEMMA HistoryIsSound ==
  ASSUME History!HistoryAssumption, HistoryInv
  PROVE  History!CapsulesListed
<1> SUFFICES ASSUME NEW m \in DOMAIN rows, rows[m] = "scheduled"
             PROVE  Cardinality({a \in DOMAIN rows : History!Before(a, m)}) < Limit
  BY HistoryCounts DEF History!CapsulesListed, History!Page
<1> DEFINE ahead == {a \in DOMAIN rows : History!Before(a, m)}
<1>1. IsFiniteSet(History!Waiting) /\ m \in History!Waiting
  BY WaitingIsFinite DEF HistoryInv, History!Waiting
<1>2. ahead \subseteq History!Waiting \ {m}
  BY DEF HistoryInv, History!Waiting, History!Before
<1>3. /\ Cardinality(History!Waiting \ {m}) = Cardinality(History!Waiting) - 1
      /\ IsFiniteSet(History!Waiting \ {m})
  BY <1>1, FS_RemoveElement
<1>4. Cardinality(ahead) <= Cardinality(History!Waiting) - 1 /\ Cardinality(ahead) \in Nat
  BY <1>2, <1>3, FS_Subset, FS_CardinalityType
<1>5. Cardinality(History!Waiting) \in Nat /\ Cardinality(History!Waiting) <= Cap
  BY WaitingIsFinite DEF HistoryInv
<1> QED BY <1>4, <1>5 DEF History!HistoryAssumption

LEMMA HistoryInits == History!HistoryAssumption /\ History!Init => HistoryInv
<1> SUFFICES ASSUME History!HistoryAssumption, History!Init PROVE HistoryInv
  OBVIOUS
<1>1. History!Waiting = {}
  BY DEF History!Init, History!Waiting
<1> QED BY <1>1, FS_EmptySet DEF History!Init, HistoryInv, History!HistoryAssumption

\* Rows are written, and no capsule begins to wait.
LEMMA HistoryMoves ==
  ASSUME History!HistoryAssumption, HistoryInv, NEW m \in DOMAIN rows, NEW to \in RowStatus,
         rows[m] \in {"scheduled", "queued"}, to # "scheduled",
         rows' = [rows EXCEPT ![m] = to], capsule' = capsule
  PROVE  HistoryInv'
<1>1. rows' \in Seq(RowStatus) /\ DOMAIN rows' = DOMAIN rows
  BY DEF HistoryInv
<1>2. History!Waiting' \subseteq History!Waiting
  BY <1>1 DEF History!Waiting, HistoryInv
<1>3. IsFiniteSet(History!Waiting) /\ Cardinality(History!Waiting) \in Nat
      /\ Cardinality(History!Waiting) <= Cap
  BY WaitingIsFinite DEF HistoryInv
<1>4. Cardinality(History!Waiting') <= Cardinality(History!Waiting) /\ Cardinality(History!Waiting') \in Nat
  BY <1>2, <1>3, FS_Subset, FS_CardinalityType
<1> QED BY <1>1, <1>3, <1>4 DEF HistoryInv, History!HistoryAssumption

LEMMA HistoryStays ==
  ASSUME HistoryInv, UNCHANGED History!server
  PROVE  HistoryInv'
<1>1. History!Waiting' = History!Waiting
  BY DEF History!Waiting, History!server
<1> QED BY <1>1 DEF HistoryInv, History!server

LEMMA HistorySends ==
  ASSUME History!HistoryAssumption, HistoryInv, History!ServeSend
  PROVE  HistoryInv'
<1>1. CASE UNCHANGED History!server
  BY <1>1, HistoryStays
<1> DEFINE n == Len(rows) + 1
<1>2. n \notin DOMAIN rows /\ n \in Nat
  BY DEF HistoryInv
<1>3. CASE rows' = Append(rows, "queued") /\ capsule' = capsule
  <2>1. rows' \in Seq(RowStatus) /\ DOMAIN rows' = DOMAIN rows \cup {n}
        /\ \A a \in DOMAIN rows : rows'[a] = rows[a]
    BY <1>3 DEF HistoryInv, RowStatus
  <2>2. History!Waiting' = History!Waiting /\ rows'[n] = "queued"
    BY <1>2, <1>3, <2>1 DEF History!Waiting, HistoryInv
  <2> QED BY <1>3, <2>1, <2>2 DEF HistoryInv
<1>4. CASE /\ Cardinality(History!Waiting) < Cap
           /\ rows' = Append(rows, "scheduled") /\ capsule' = capsule \cup {n}
  <2>1. rows' \in Seq(RowStatus) /\ DOMAIN rows' = DOMAIN rows \cup {n}
        /\ \A a \in DOMAIN rows : rows'[a] = rows[a]
    BY <1>4 DEF HistoryInv, RowStatus
  <2>2. History!Waiting' = History!Waiting \cup {n} /\ rows'[n] = "scheduled"
    BY <1>2, <1>4, <2>1 DEF History!Waiting, HistoryInv
  <2>3. IsFiniteSet(History!Waiting) /\ Cardinality(History!Waiting) \in Nat /\ n \notin History!Waiting
    BY <1>2, WaitingIsFinite DEF HistoryInv, History!Waiting
  <2>4. Cardinality(History!Waiting') = Cardinality(History!Waiting) + 1
    BY <2>2, <2>3, FS_AddElement
  <2> QED BY <1>4, <2>1, <2>2, <2>3, <2>4 DEF HistoryInv, History!HistoryAssumption
<1> QED BY <1>1, <1>3, <1>4, HistoryCounts DEF History!ServeSend

LEMMA HistorySteps ==
  ASSUME History!HistoryAssumption, HistoryInv, [History!Next]_(History!vars)
  PROVE  HistoryInv'
<1>1. CASE History!Dispatch \/ History!Work
  BY <1>1, HistoryMoves DEF History!Dispatch, History!Work, RowStatus
<1>2. CASE History!ServeCancel
  <2> PICK c \in cancelling :
        /\ rows' = IF rows[c.id] = "scheduled" THEN [rows EXCEPT ![c.id] = "cancelled"] ELSE rows
        /\ UNCHANGED capsule
    BY <1>2 DEF History!ServeCancel
  <2>1. CASE rows' = rows
    BY <2>1, HistoryStays DEF History!server
  <2>2. CASE rows[c.id] = "scheduled" /\ c.id \in DOMAIN rows
    BY <2>2, HistoryMoves DEF RowStatus
  <2>3. CASE c.id \notin DOMAIN rows
    <3>1. [rows EXCEPT ![c.id] = "cancelled"] = rows
      BY <2>3 DEF HistoryInv
    <3> QED BY <3>1, HistoryStays DEF History!server
  <2> QED BY <2>1, <2>2, <2>3
<1>3. CASE History!ClickRefresh \/ History!ClickSend \/ History!AnswerSend \/ History!ClickCancel
           \/ History!AnswerCancel \/ History!AnswerLoad \/ History!TimerFires
  BY <1>3, HistoryStays
     DEF History!ClickRefresh, History!ClickSend, History!AnswerSend, History!ClickCancel,
            History!AnswerCancel, History!AnswerLoad, History!TimerFires
<1>4. CASE History!ServeLoad \/ History!OrphanFires \/ History!Focus \/ History!Blur \/ History!Rest
           \/ UNCHANGED History!vars
  BY <1>4, HistoryStays
     DEF History!ServeLoad, History!OrphanFires, History!Focus, History!Blur, History!Rest, History!vars
<1> QED BY <1>1, <1>2, <1>3, <1>4, HistorySends DEF History!Next

-----------------------------------------------------------------------------
(* The photo booth                                                         *)

\* One thing at a time: the files being decoded, or the submission.
OneAtATime ==
  /\ frames \in Seq(Int) /\ photoEdits \in Int /\ Len(frames) <= MaxFrames
  /\ openingFiles # {} => boothBusy /\ posting = {}
  /\ posting # {} => boothBusy
  /\ \A f, g \in openingFiles : f = g
  /\ \A f \in openingFiles : f.n \in Nat /\ Len(frames) + f.n <= MaxFrames

\* One form of the current revision at most, and none before its timer has fired
\* or after its preview.
Revisions ==
  /\ photoRevision \in Nat /\ photoReady \in Int /\ photoReady <= photoRevision
  /\ \A f \in forms : f.rev \in Nat /\ f.rev <= photoRevision
  /\ \A f, g \in forms : f.rev = photoRevision /\ g.rev = photoRevision => f = g
  /\ \A f \in forms : f.rev = photoRevision =>
        ~photoTimer /\ photoReady # photoRevision /\ f.strip = Booth!Strip
  /\ photoTimer => photoReady # photoRevision

\* What is ready is on view, and what is on view is the editor's.
StripShown ==
  /\ photoReady = photoRevision => strip = {Booth!Strip}
  /\ strip # {} => strip = {Booth!Strip}
  /\ \A s \in posting : s.shown = {s.strip}
  /\ \A s \in sent : s.shown = {s.strip}

StripInv == OneAtATime /\ Revisions /\ StripShown

LEMMA StripInits == Booth!BoothAssumption /\ Booth!Init => StripInv
  BY DEF Booth!BoothAssumption, Booth!Init, StripInv, OneAtATime, Revisions, StripShown

LEMMA StripIsSound == StripInv => Booth!SentWasShown /\ Booth!PaperIsCurrent /\ Booth!FramesFit
  BY
     DEF StripInv, OneAtATime, Revisions, StripShown, Booth!SentWasShown, Booth!PaperIsCurrent,
         Booth!FramesFit

\* What schedulePhotoPreview leaves is about no form and no pixels.
LEMMA StripSchedules ==
  ASSUME Revisions, StripShown, NEW has \in BOOLEAN, Booth!Schedule(has),
         \A s \in posting' : s.shown = {s.strip},
         \A s \in sent' : s.shown = {s.strip}
  PROVE  Revisions' /\ StripShown'
  BY DEF Revisions, StripShown, Booth!Schedule

\* Neither of the two kinds of work changes under a schedule.
LEMMA StripReschedules ==
  ASSUME StripInv, NEW has \in BOOLEAN, Booth!Schedule(has), OneAtATime', UNCHANGED <<posting, sent>>
  PROVE  StripInv'
  BY StripSchedules DEF StripInv, StripShown

LEMMA StripEdits ==
  ASSUME Booth!BoothAssumption, StripInv, Booth!EditFrames
  PROVE  StripInv'
<1>1. PICK i \in DOMAIN frames :
        \/ frames' = [frames EXCEPT ![i] = photoEdits']
        \/ i > 1 /\ frames' = [frames EXCEPT ![i] = frames[i - 1], ![i - 1] = frames[i]]
        \/ frames' = SubSeq(frames, 1, i - 1) \o SubSeq(frames, i + 1, Len(frames))
  BY DEF Booth!EditFrames
<1>2. photoEdits' \in Int /\ ~boothBusy /\ UNCHANGED <<openingFiles, boothBusy, posting>>
  BY DEF Booth!EditFrames, Booth!Free, StripInv, OneAtATime
<1>3. frames' \in Seq(Int) /\ Len(frames') <= Len(frames)
  <2>1. CASE frames' = [frames EXCEPT ![i] = photoEdits']
    BY <1>2, <2>1 DEF StripInv, OneAtATime
  <2>2. CASE i > 1 /\ frames' = [frames EXCEPT ![i] = frames[i - 1], ![i - 1] = frames[i]]
    BY <2>2 DEF StripInv, OneAtATime
  <2>3. CASE frames' = SubSeq(frames, 1, i - 1) \o SubSeq(frames, i + 1, Len(frames))
    <3> DEFINE a == SubSeq(frames, 1, i - 1)
               b == SubSeq(frames, i + 1, Len(frames))
    <3>1. frames \in Seq(Int) /\ i \in 1 .. Len(frames)
      BY DEF StripInv, OneAtATime
    <3>2. a \in Seq(Int) /\ Len(a) = i - 1
      BY <3>1
    <3>3. b \in Seq(Int) /\ Len(b) = Len(frames) - i
      BY <3>1
    <3>4. frames' = a \o b
      BY <2>3
    <3> HIDE DEF a, b
    <3> QED BY <3>1, <3>2, <3>3, <3>4
  <2> QED BY <1>1, <2>1, <2>2, <2>3
<1>4. OneAtATime'
  <2>1. openingFiles = {} /\ posting = {}
    BY <1>2 DEF StripInv, OneAtATime
  <2> QED BY <1>2, <1>3, <2>1 DEF StripInv, OneAtATime, Booth!BoothAssumption
<1> QED BY <1>4, StripReschedules DEF Booth!EditFrames

LEMMA StripLooks ==
  ASSUME Booth!BoothAssumption, StripInv,
         Booth!EditLook \/ Booth!StartOver \/ Booth!Restore \/ Booth!StyleSaved
  PROVE  StripInv'
<1>1. CASE Booth!EditLook \/ Booth!StyleSaved
  <2>1. OneAtATime'
    BY <1>1 DEF Booth!EditLook, Booth!StyleSaved, Booth!Free, StripInv, OneAtATime, Booth!editor
  <2>2. Booth!HasPhotos \in BOOLEAN
    BY DEF Booth!HasPhotos
  <2> QED BY <1>1, <2>1, <2>2, StripReschedules DEF Booth!EditLook, Booth!StyleSaved
<1>2. CASE Booth!StartOver \/ Booth!Restore
  <2> PICK strips : Booth!Reset(strips)
    BY <1>2 DEF Booth!StartOver, Booth!Restore
  <2>1. OneAtATime'
    <3>1. frames' = <<>> /\ Len(<<>>) = 0 /\ openingFiles' = openingFiles /\ openingFiles = {}
          /\ boothBusy' = boothBusy
          /\ posting' = posting /\ photoEdits' \in Int
      BY <1>2
         DEF Booth!StartOver, Booth!Restore, Booth!MayRestore, Booth!Free, Booth!Reset, StripInv,
             OneAtATime
    <3> QED BY <3>1 DEF StripInv, OneAtATime, Booth!BoothAssumption
  <2> QED BY <1>2, <2>1, StripReschedules DEF Booth!StartOver, Booth!Restore, Booth!Reset
<1> QED BY <1>1, <1>2

LEMMA StripOpens ==
  ASSUME Booth!BoothAssumption, StripInv, Booth!OpenFiles \/ Booth!FilesOpened
  PROVE  StripInv'
<1>1. CASE Booth!OpenFiles
  <2>1. OneAtATime'
    BY <1>1
       DEF Booth!OpenFiles, Booth!Free, Booth!OpeningBusy, StripInv, OneAtATime, Booth!editor,
           Booth!BoothAssumption
  <2> QED BY <1>1, <2>1 DEF Booth!OpenFiles, StripInv, Revisions, StripShown, Booth!Strip, Booth!editor
<1>2. CASE Booth!FilesOpened
  <2> PICK files \in openingFiles, ok \in BOOLEAN :
        /\ openingFiles' = openingFiles \ {files}
        /\ IF ok THEN saved' = {} /\ frames' = frames \o [i \in 1..files.n |-> 0]
           ELSE UNCHANGED <<saved, frames>>
    BY <1>2 DEF Booth!FilesOpened
  <2> DEFINE new == [i \in 1..files.n |-> 0]
  <2>1. openingFiles' = {} /\ posting' = {} /\ photoEdits' = photoEdits
    BY <1>2 DEF Booth!FilesOpened, StripInv, OneAtATime
  <2>2. new \in Seq(Int) /\ Len(new) = files.n
    BY DEF StripInv, OneAtATime
  <2>3. frames' \in Seq(Int) /\ Len(frames') <= MaxFrames
    <3>1. CASE ok
      <4> HIDE DEF new
      <4>1. frames' = frames \o new
        BY <3>1 DEF new
      <4> QED BY <2>2, <4>1 DEF StripInv, OneAtATime, Booth!BoothAssumption
    <3>2. CASE ~ok
      BY <3>2 DEF StripInv, OneAtATime
    <3> QED BY <3>1, <3>2
  <2>4. OneAtATime'
    BY <2>1, <2>3 DEF StripInv, OneAtATime
  <2> QED BY <1>2, <2>4, StripReschedules DEF Booth!FilesOpened
<1> QED BY <1>1, <1>2

LEMMA StripPreviews ==
  ASSUME Booth!BoothAssumption, StripInv, Booth!TimerFires \/ Booth!Encoded \/ Booth!Previewed
  PROVE  StripInv'
<1>1. OneAtATime' /\ Booth!Strip' = Booth!Strip /\ UNCHANGED <<posting, sent, photoRevision>>
  BY
     DEF Booth!TimerFires, Booth!Encoded, Booth!Previewed, StripInv, OneAtATime, Booth!Strip,
         Booth!editor
<1>2. CASE Booth!TimerFires
  <2> DEFINE g == [rev |-> photoRevision, strip |-> Booth!Strip, at |-> "encoding"]
  <2>1. photoTimer /\ ~photoTimer' /\ forms' = forms \cup {g} /\ UNCHANGED <<photoReady, strip>>
    BY <1>2 DEF Booth!TimerFires
  <2>2. g.rev = photoRevision /\ g.strip = Booth!Strip
    OBVIOUS
  <2> HIDE DEF g
  <2> QED BY <1>1, <2>1, <2>2 DEF StripInv, Revisions, StripShown
<1>3. CASE Booth!Encoded
  <2> PICK f \in forms :
        forms' = (forms \ {f}) \cup (IF f.rev = photoRevision THEN {[f EXCEPT !.at = "posted"]} ELSE {})
    BY <1>3 DEF Booth!Encoded
  <2> DEFINE g == [f EXCEPT !.at = "posted"]
  <2>1. g.rev = f.rev /\ g.strip = f.strip /\ UNCHANGED <<photoReady, strip, photoTimer>>
    BY <1>3 DEF Booth!Encoded
  <2>2. forms' = (forms \ {f}) \cup (IF f.rev = photoRevision THEN {g} ELSE {})
    OBVIOUS
  <2> HIDE DEF g
  <2> QED BY <1>1, <2>1, <2>2 DEF StripInv, Revisions, StripShown
<1>4. CASE Booth!Previewed
  <2> PICK f \in forms :
        /\ forms' = forms \ {f}
        /\ IF f.rev = photoRevision THEN \/ strip' = {f.strip} /\ photoReady' = f.rev
                                         \/ strip' = {} /\ UNCHANGED photoReady
           ELSE UNCHANGED <<strip, photoReady>>
    BY <1>4 DEF Booth!Previewed
  <2>1. photoTimer' = photoTimer
    BY <1>4 DEF Booth!Previewed
  <2> QED BY <1>1, <2>1 DEF StripInv, Revisions, StripShown
<1> QED BY <1>2, <1>3, <1>4

LEMMA StripSends ==
  ASSUME Booth!BoothAssumption, StripInv, Booth!Submit \/ Booth!ServeSend \/ Booth!AnswerSend
  PROVE  StripInv'
<1>1. CASE Booth!Submit
  <2> DEFINE s == [strip |-> Booth!Strip, shown |-> strip, at |-> "asked"]
  <2>1. posting' = {s} /\ photoReady = photoRevision /\ ~boothBusy /\ boothBusy' = TRUE
        /\ UNCHANGED <<Booth!editor, openingFiles, photoRevision, photoReady, photoTimer, forms, strip,
                       sent, photoEdits>>
    BY <1>1 DEF Booth!Submit, Booth!PrintEnabled
  <2>2. s.shown = {s.strip}
    BY <2>1 DEF StripInv, StripShown
  <2> HIDE DEF s
  <2> QED BY <2>1, <2>2 DEF StripInv, OneAtATime, Revisions, StripShown, Booth!Strip, Booth!editor
<1>2. CASE Booth!ServeSend
  <2> PICK s \in posting :
        \/ /\ posting' = {[s EXCEPT !.at = "queued"]}
           /\ sent' = sent \cup {[strip |-> s.strip, shown |-> s.shown]}
        \/ posting' = {[s EXCEPT !.at = "refused"]} /\ UNCHANGED sent
    BY <1>2 DEF Booth!ServeSend
  <2>1. UNCHANGED <<Booth!editor, boothBusy, openingFiles, photoRevision, photoReady, photoTimer, forms,
                    strip, photoEdits>>
    BY <1>2 DEF Booth!ServeSend
  <2> DEFINE queued == [s EXCEPT !.at = "queued"]
             refused == [s EXCEPT !.at = "refused"]
             took == [strip |-> s.strip, shown |-> s.shown]
  <2>2. /\ queued.shown = s.shown /\ queued.strip = s.strip
        /\ refused.shown = s.shown /\ refused.strip = s.strip
        /\ took.shown = s.shown /\ took.strip = s.strip
    OBVIOUS
  <2>4. posting' \in {{queued}, {refused}} /\ (sent' = sent \/ sent' = sent \cup {took})
    OBVIOUS
  <2> HIDE DEF queued, refused, took
  <2>3. (\A r \in posting' : r.shown = {r.strip}) /\ (\A r \in sent' : r.shown = {r.strip})
    BY <2>2, <2>4 DEF StripInv, StripShown
  <2> QED BY <2>1, <2>3 DEF StripInv, OneAtATime, Revisions, StripShown, Booth!Strip, Booth!editor
<1>3. CASE Booth!AnswerSend
  <2>1. PICK s \in posting :
          /\ boothBusy' = Booth!Released(s.at)
          /\ \/ Booth!Reset({})
             \/ UNCHANGED <<Booth!editor, photoRevision, photoReady, photoTimer, forms, strip>>
    BY <1>3 DEF Booth!AnswerSend
  <2>2. posting' = {} /\ UNCHANGED <<openingFiles, sent, photoEdits>> /\ openingFiles = {}
    BY <1>3, <2>1 DEF Booth!AnswerSend, StripInv, OneAtATime
  <2>3. CASE Booth!Reset({})
    <3>1. OneAtATime'
      BY <2>2, <2>3 DEF Booth!Reset, StripInv, OneAtATime, Booth!BoothAssumption
    <3> QED BY <2>2, <2>3, <3>1, StripSchedules DEF Booth!Reset, StripInv, StripShown
  <2>4. CASE UNCHANGED <<Booth!editor, photoRevision, photoReady, photoTimer, forms, strip>>
    BY <2>2, <2>4 DEF StripInv, OneAtATime, Revisions, StripShown, Booth!Strip, Booth!editor
  <2> QED BY <2>1, <2>3, <2>4
<1> QED BY <1>1, <1>2, <1>3

LEMMA StripSteps ==
  ASSUME Booth!BoothAssumption, StripInv, [Booth!Next]_(Booth!vars)
  PROVE  StripInv'
<1>1. CASE Booth!Rest \/ UNCHANGED Booth!vars
  BY <1>1
     DEF Booth!Rest, Booth!vars, Booth!editor, StripInv, OneAtATime, Revisions, StripShown, Booth!Strip
<1> QED BY <1>1, StripEdits, StripLooks, StripOpens, StripPreviews, StripSends DEF Booth!Next

-----------------------------------------------------------------------------
(* The drawing canvas                                                      *)

DoodleAction ==
  [kind : {"stroke", "clear", "image"}, id : Int \cup SavedDrawings, points : Int, broken : BOOLEAN]

\* The history: what is drawn has ink of its own, and a clear follows ink.
HistorySound(history) ==
  /\ history \in Seq(DoodleAction)
  /\ \A i \in 1 .. Len(history) :
       IF history[i].kind = "clear" THEN i > 1 /\ history[i - 1].kind # "clear" ELSE history[i].points >= 1
  /\ \A i, j \in 1 .. Len(history) :
       history[i].kind # "clear" /\ history[j].kind # "clear" /\ history[i].id = history[j].id => i = j

\* The strokes that are drawn are those begun, and the one under the pointer is none of them.
StrokesSound ==
  /\ strokes \in 0 .. MaxStrokes /\ index \in 0 .. Len(actions)
  /\ \A i \in 1 .. Len(actions) :
       actions[i].kind # "clear" => actions[i].id \in (1 .. strokes) \cup SavedDrawings
  /\ active = {} \/ \E s \in DoodleAction :
       /\ active = {s} /\ s.kind = "stroke" /\ s.points >= 1 /\ s.id \in 1 .. strokes
       /\ \A i \in 1 .. Len(actions) : actions[i].kind # "clear" => actions[i].id # s.id

\* The canvas: the history's, and the stroke under the pointer, which only what is
\* drawn over it may have taken marks from.
CanvasSound ==
  /\ canvas \subseteq Canvas!Replay(actions, index) \cup UNION {Canvas!Marks(s) : s \in active}
  /\ (\A i \in 1 .. index : ~actions[i].broken) /\ (\A s \in active : ~s.broken) =>
       canvas = Canvas!Replay(actions, index) \cup UNION {Canvas!Marks(s) : s \in active}

DrawingInv == HistorySound(actions) /\ StrokesSound /\ CanvasSound

\* Nothing is drawn before the first action.
LEMMA ReplayOfNothing == ASSUME NEW h PROVE Canvas!Replay(h, 0) = {}
  BY DEF Canvas!Replay

\* What a replay shows is up to the last clear.
LEMMA ReplayOfClear ==
  ASSUME NEW h, NEW n \in Nat \ {0}, h[n].kind = "clear"
  PROVE  Canvas!Replay(h, n) = {}
<1>1. \A j \in 1 .. n : n \in j .. n
  OBVIOUS
<1> QED BY <1>1 DEF Canvas!Replay

LEMMA ReplayOfInk ==
  ASSUME NEW h, NEW n \in Nat \ {0}, h[n].kind # "clear"
  PROVE  Canvas!Replay(h, n) = Canvas!Replay(h, n - 1) \cup Canvas!Marks(h[n])
<1> DEFINE Drawn(m) == {j \in 1 .. m : \A k \in j .. m : h[k].kind # "clear"}
<1>1. Drawn(n) = Drawn(n - 1) \cup {n}
  <2>1. 1 .. n = (1 .. (n - 1)) \cup {n} /\ n .. n = {n}
    OBVIOUS
  <2>2. \A j \in 1 .. (n - 1) : j .. n = (j .. (n - 1)) \cup {n}
    OBVIOUS
  <2> QED BY <2>1, <2>2
<1>2. Canvas!Replay(h, n) = UNION {Canvas!Marks(h[i]) : i \in Drawn(n)}
      /\ Canvas!Replay(h, n - 1) = UNION {Canvas!Marks(h[i]) : i \in Drawn(n - 1)}
  BY DEF Canvas!Replay
<1> HIDE DEF Drawn
<1> QED BY <1>1, <1>2

\* A replay is of the actions before it, whatever comes after.
LEMMA ReplayOfPrefix ==
  ASSUME NEW h, NEW g, NEW n \in Nat, \A i \in 1 .. n : h[i] = g[i]
  PROVE  Canvas!Replay(h, n) = Canvas!Replay(g, n)
<1> DEFINE Drawn(f) == {j \in 1 .. n : \A k \in j .. n : f[k].kind # "clear"}
<1>1. \A j \in 1 .. n : \A k \in j .. n : h[k] = g[k]
  OBVIOUS
<1>2. Drawn(h) = Drawn(g)
  BY <1>1
<1>3. \A i \in Drawn(g) : h[i] = g[i]
  OBVIOUS
<1>4. Canvas!Replay(h, n) = UNION {Canvas!Marks(h[i]) : i \in Drawn(h)}
      /\ Canvas!Replay(g, n) = UNION {Canvas!Marks(g[i]) : i \in Drawn(g)}
  BY DEF Canvas!Replay
<1> HIDE DEF Drawn
<1> QED BY <1>2, <1>3, <1>4

\* A mark of a replay is an action's.
LEMMA ReplayHasActions ==
  ASSUME NEW h, NEW n \in Nat, NEW mark \in Canvas!Replay(h, n)
  PROVE  \E i \in 1 .. n : h[i].kind # "clear" /\ mark[1] = h[i].id
<1> PICK i \in 1 .. n : (\A k \in i .. n : h[k].kind # "clear") /\ mark \in Canvas!Marks(h[i])
  BY DEF Canvas!Replay
<1>1. i \in i .. n /\ mark[1] = h[i].id
  BY DEF Canvas!Marks
<1> QED BY <1>1

\* Every undo of a sound history shows.
LEMMA UndoShows ==
  ASSUME NEW h, HistorySound(h), NEW i \in 1 .. Len(h)
  PROVE  Canvas!Replay(h, i) # Canvas!Replay(h, i - 1)
<1>1. i \in Nat \ {0} /\ i - 1 \in Nat /\ h[i] \in DoodleAction
  BY DEF HistorySound
<1>2. \A j \in 1 .. Len(h) : h[j].kind # "clear" => <<h[j].id, 1>> \in Canvas!Marks(h[j])
  BY DEF HistorySound, Canvas!Marks, DoodleAction
<1>3. CASE h[i].kind = "clear"
  <2>1. i - 1 \in 1 .. Len(h) /\ h[i - 1].kind # "clear"
    BY <1>1, <1>3 DEF HistorySound
  <2>2. Canvas!Replay(h, i) = {} /\ <<h[i - 1].id, 1>> \in Canvas!Replay(h, i - 1)
    BY <1>1, <1>2, <1>3, <2>1, ReplayOfClear, ReplayOfInk
  <2> QED BY <2>2
<1>4. CASE h[i].kind # "clear"
  <2>1. <<h[i].id, 1>> \in Canvas!Replay(h, i)
    BY <1>1, <1>2, <1>4, ReplayOfInk
  <2>2. ASSUME <<h[i].id, 1>> \in Canvas!Replay(h, i - 1) PROVE FALSE
    <3> PICK j \in 1 .. (i - 1) : h[j].kind # "clear" /\ <<h[i].id, 1>>[1] = h[j].id
      BY <1>1, <2>2, ReplayHasActions
    <3>1. h[i].id = h[j].id /\ j \in 1 .. Len(h) /\ i # j
      BY <1>1
    <3> QED BY <1>4, <3>1 DEF HistorySound
  <2> QED BY <2>1, <2>2
<1> QED BY <1>3, <1>4

LEMMA DrawingIsSound ==
  ASSUME Canvas!DoodleAssumption, DrawingInv
  PROVE  Canvas!EveryMarkCanBeUndone /\ Canvas!UndoIsVisible /\ Canvas!CanvasIsHistory
<1>1. Canvas!UndoIsVisible
  BY UndoShows DEF Canvas!UndoIsVisible, DrawingInv
<1> QED BY <1>1 DEF DrawingInv, CanvasSound, Canvas!EveryMarkCanBeUndone, Canvas!CanvasIsHistory

LEMMA DrawingInits == Canvas!DoodleAssumption /\ Canvas!Init => DrawingInv
  BY ReplayOfNothing
     DEF Canvas!DoodleAssumption, Canvas!Init, DrawingInv, HistorySound, StrokesSound, CanvasSound

\* A new timeline keeps the actions up to the index.
LEMMA CommitKeeps ==
  ASSUME HistorySound(actions), index \in 0 .. Len(actions), NEW a \in DoodleAction, Canvas!Commit(a)
  PROVE  /\ actions' \in Seq(DoodleAction) /\ index' = index + 1 /\ Len(actions') = index + 1
         /\ actions'[index + 1] = a
         /\ \A i \in 1 .. index : i \in 1 .. Len(actions) /\ actions'[i] = actions[i]
<1>1. /\ Canvas!Timeline \in Seq(DoodleAction) /\ Len(Canvas!Timeline) = index
      /\ \A i \in 1 .. index : Canvas!Timeline[i] = actions[i]
  BY DEF HistorySound, Canvas!Timeline
<1> QED BY <1>1 DEF Canvas!Commit

LEMMA CommitReplays ==
  ASSUME HistorySound(actions), index \in 0 .. Len(actions), NEW a \in DoodleAction, Canvas!Commit(a)
  PROVE  Canvas!Replay(actions', index') =
           IF a.kind = "clear" THEN {} ELSE Canvas!Replay(actions, index) \cup Canvas!Marks(a)
<1>1. index \in Nat /\ index + 1 \in Nat \ {0} /\ (index + 1) - 1 = index
  OBVIOUS
<1>2. Canvas!Replay(actions', index) = Canvas!Replay(actions, index)
  BY <1>1, CommitKeeps, ReplayOfPrefix
<1>3. index' = index + 1 /\ actions'[index + 1] = a
  BY CommitKeeps
<1> QED BY <1>1, <1>2, <1>3, ReplayOfClear, ReplayOfInk

LEMMA CommitIsSound ==
  ASSUME HistorySound(actions), index \in 0 .. Len(actions), NEW a \in DoodleAction, Canvas!Commit(a),
         IF a.kind = "clear" THEN Canvas!HasInk
         ELSE /\ a.points >= 1
              /\ \A i \in 1 .. Len(actions) : actions[i].kind # "clear" => actions[i].id # a.id
  PROVE  HistorySound(actions')
<1>1. /\ actions' \in Seq(DoodleAction) /\ Len(actions') = index + 1 /\ actions'[index + 1] = a
      /\ \A i \in 1 .. index : i \in 1 .. Len(actions) /\ actions'[i] = actions[i]
  BY CommitKeeps
<1>2. \A i \in 1 .. Len(actions') : i = index + 1 \/ i \in 1 .. index
  BY <1>1
<1>3. ASSUME NEW i \in 1 .. Len(actions')
      PROVE  IF actions'[i].kind = "clear" THEN i > 1 /\ actions'[i - 1].kind # "clear"
             ELSE actions'[i].points >= 1
  <2>1. CASE i = index + 1
    BY <1>1, <2>1 DEF Canvas!HasInk
  <2>2. CASE i \in 1 .. index
    <3>1. i > 1 => i - 1 \in 1 .. index
      BY <2>2
    <3> QED BY <1>1, <2>2, <3>1 DEF HistorySound
  <2> QED BY <1>2, <2>1, <2>2
<1>4. ASSUME NEW i \in 1 .. Len(actions'), NEW j \in 1 .. Len(actions'),
             actions'[i].kind # "clear", actions'[j].kind # "clear", actions'[i].id = actions'[j].id
      PROVE  i = j
  BY <1>1, <1>2, <1>4 DEF HistorySound
<1> QED BY <1>1, <1>3, <1>4 DEF HistorySound

\* The stroke under the pointer, when something else draws on the canvas.
LEMMA BreaksStrokes ==
  ASSUME active = {} \/ \E s \in DoodleAction : active = {s}, active' = Canvas!Broken
  PROVE  /\ active' = {} <=> active = {}
         /\ \A s \in active' : s.broken
         /\ UNION {Canvas!Marks(s) : s \in active'} = UNION {Canvas!Marks(s) : s \in active}
         /\ \A s \in DoodleAction : active = {s} =>
              \E t \in DoodleAction : active' = {t} /\ t.kind = s.kind /\ t.points = s.points /\ t.id = s.id
<1>1. CASE active = {}
  BY <1>1 DEF Canvas!Broken
<1>2. CASE active # {}
  <2> PICK s \in DoodleAction : active = {s}
    BY <1>2
  <2> DEFINE t == [s EXCEPT !.broken = TRUE]
  <2>1. t \in DoodleAction /\ t.kind = s.kind /\ t.points = s.points /\ t.id = s.id /\ t.broken
    BY DEF DoodleAction
  <2>2. active' = {t}
    BY DEF Canvas!Broken
  <2>3. Canvas!Marks(t) = Canvas!Marks(s)
    BY <2>1 DEF Canvas!Marks
  <2> HIDE DEF t
  <2> QED BY <2>1, <2>2, <2>3
<1> QED BY <1>1, <1>2

\* The canvas is redrawn: it shows the history's marks, and perhaps the stroke is broken.
LEMMA Redraws ==
  ASSUME DrawingInv, HistorySound(actions'), UNCHANGED strokes, index' \in 0 .. Len(actions'),
         \A i \in 1 .. Len(actions') : actions'[i].kind # "clear" =>
            \/ actions'[i].id \in SavedDrawings
            \/ \E j \in 1 .. Len(actions) : actions[j].kind # "clear" /\ actions[j].id = actions'[i].id,
         canvas' = Canvas!Replay(actions', index'), active' = Canvas!Broken, Canvas!DoodleAssumption
  PROVE  DrawingInv'
<1>1. active = {} \/ \E s \in DoodleAction : active = {s}
  BY DEF DrawingInv, StrokesSound
<1>2. /\ active' = {} <=> active = {}
      /\ \A s \in active' : s.broken
      /\ \A s \in DoodleAction : active = {s} =>
           \E t \in DoodleAction : active' = {t} /\ t.kind = s.kind /\ t.points = s.points /\ t.id = s.id
  BY <1>1, BreaksStrokes
<1>3. \A i \in 1 .. Len(actions') :
        actions'[i].kind # "clear" => actions'[i].id \in (1 .. strokes') \cup SavedDrawings
  BY DEF DrawingInv, StrokesSound
<1> DEFINE Under(t) ==
      /\ active' = {t} /\ t.kind = "stroke" /\ t.points >= 1 /\ t.id \in 1 .. strokes'
      /\ \A i \in 1 .. Len(actions') : actions'[i].kind # "clear" => actions'[i].id # t.id
<1>4. active' = {} \/ \E t \in DoodleAction : Under(t)
  <2>1. CASE active = {}
    BY <1>2, <2>1
  <2>2. ASSUME NEW s \in DoodleAction, active = {s}, s.kind = "stroke",
               s.points >= 1, s.id \in 1 .. strokes,
               \A i \in 1 .. Len(actions) : actions[i].kind # "clear" => actions[i].id # s.id
        PROVE  \E t \in DoodleAction : Under(t)
    <3> PICK t \in DoodleAction : active' = {t} /\ t.kind = s.kind /\ t.points = s.points /\ t.id = s.id
      BY <1>2, <2>2
    <3>1. s.id \notin SavedDrawings /\ s.id \in 1 .. strokes'
      BY <2>2 DEF Canvas!DoodleAssumption, DrawingInv, StrokesSound
    <3>2. \A i \in 1 .. Len(actions') : actions'[i].kind # "clear" => actions'[i].id # s.id
      BY <2>2, <3>1
    <3> QED BY <2>2, <3>1, <3>2
  <2> QED BY <2>1, <2>2 DEF DrawingInv, StrokesSound
<1>5. CanvasSound'
  <2>1. CASE active' = {}
    BY <2>1 DEF CanvasSound
  <2>2. CASE active' # {}
    <3>1. \E s \in active' : s.broken
      BY <1>2, <2>2
    <3> QED BY <3>1 DEF CanvasSound
  <2> QED BY <2>1, <2>2
<1> QED BY <1>3, <1>4, <1>5 DEF DrawingInv, StrokesSound

LEMMA DrawingMoves ==
  ASSUME Canvas!DoodleAssumption, DrawingInv, Canvas!Undo \/ Canvas!Redo
  PROVE  DrawingInv'
<1> PICK n \in 0 .. Len(actions) : Canvas!MoveTo(n) /\ UNCHANGED strokes
  BY DEF Canvas!Undo, Canvas!Redo, DrawingInv, StrokesSound, HistorySound
<1> QED BY Redraws DEF Canvas!MoveTo, DrawingInv

LEMMA DrawingClears ==
  ASSUME Canvas!DoodleAssumption, DrawingInv, Canvas!Clear
  PROVE  DrawingInv'
<1>1. Canvas!Clearing \in DoodleAction /\ Canvas!Clearing.kind = "clear"
      /\ Canvas!Commit(Canvas!Clearing) /\ Canvas!HasInk
  BY DEF Canvas!Clear, Canvas!Clearing, DoodleAction
<1>2. HistorySound(actions) /\ index \in 0 .. Len(actions)
  BY DEF DrawingInv, StrokesSound
<1>3. HistorySound(actions') /\ Canvas!Replay(actions', index') = {}
  BY <1>1, <1>2, CommitIsSound, CommitReplays
<1>4. /\ index' = index + 1 /\ Len(actions') = index + 1 /\ actions'[index + 1] = Canvas!Clearing
      /\ \A i \in 1 .. index : i \in 1 .. Len(actions) /\ actions'[i] = actions[i]
  BY <1>1, <1>2, CommitKeeps
<1>5. \A i \in 1 .. Len(actions') : actions'[i].kind # "clear" =>
        \E j \in 1 .. Len(actions) : actions[j].kind # "clear" /\ actions[j].id = actions'[i].id
  BY <1>1, <1>2, <1>4
<1> QED BY <1>2, <1>3, <1>4, <1>5, Redraws DEF Canvas!Clear

LEMMA DrawingLifts ==
  ASSUME Canvas!DoodleAssumption, DrawingInv, Canvas!PointerUp
  PROVE  DrawingInv'
<1> PICK s \in active : Canvas!Commit(s) /\ active' = {} /\ UNCHANGED <<canvas, strokes>>
  BY DEF Canvas!PointerUp, Canvas!FinishStroke
<1>1. /\ s \in DoodleAction /\ active = {s} /\ s.kind = "stroke" /\ s.points >= 1 /\ s.id \in 1 .. strokes
      /\ \A i \in 1 .. Len(actions) : actions[i].kind # "clear" => actions[i].id # s.id
  BY DEF DrawingInv, StrokesSound
<1>2. HistorySound(actions) /\ index \in 0 .. Len(actions)
  BY DEF DrawingInv, StrokesSound
<1>3. HistorySound(actions')
      /\ Canvas!Replay(actions', index') = Canvas!Replay(actions, index) \cup Canvas!Marks(s)
  BY <1>1, <1>2, CommitIsSound, CommitReplays
<1>4. /\ index' = index + 1 /\ Len(actions') = index + 1 /\ actions'[index + 1] = s
      /\ \A i \in 1 .. index : i \in 1 .. Len(actions) /\ actions'[i] = actions[i]
  BY <1>1, <1>2, CommitKeeps
<1>5. StrokesSound'
  <2>1. ASSUME NEW i \in 1 .. Len(actions'), actions'[i].kind # "clear"
        PROVE  actions'[i].id \in (1 .. strokes) \cup SavedDrawings
    <3>1. i = index + 1 \/ i \in 1 .. index
      BY <1>2, <1>4
    <3> QED BY <1>1, <1>4, <2>1, <3>1 DEF DrawingInv, StrokesSound
  <2>2. index' \in 0 .. Len(actions') /\ strokes' \in 0 .. MaxStrokes
    BY <1>2, <1>4 DEF DrawingInv, StrokesSound
  <2> QED BY <2>1, <2>2 DEF StrokesSound
<1>6. CanvasSound'
  <2>1. canvas' \subseteq Canvas!Replay(actions', index')
    BY <1>1, <1>3 DEF DrawingInv, CanvasSound
  <2>2. ASSUME \A i \in 1 .. index' : ~actions'[i].broken
        PROVE  canvas' = Canvas!Replay(actions', index')
    <3>1. (\A i \in 1 .. index : ~actions[i].broken) /\ ~s.broken
      BY <1>2, <1>4, <2>2
    <3> QED BY <1>1, <1>3, <3>1 DEF DrawingInv, CanvasSound
  <2> QED BY <2>1, <2>2 DEF CanvasSound
<1> QED BY <1>3, <1>5, <1>6 DEF DrawingInv

LEMMA DrawingDraws ==
  ASSUME Canvas!DoodleAssumption, DrawingInv, Canvas!PointerDown \/ Canvas!PointerMove
  PROVE  DrawingInv'
<1>1. CASE Canvas!PointerDown
  <2> DEFINE s == Canvas!Stroke(strokes + 1, 1, FALSE)
  <2>1. /\ active = {} /\ active' = {s} /\ canvas' = canvas \cup {<<strokes + 1, 1>>}
        /\ strokes < MaxStrokes /\ strokes' = strokes + 1 /\ UNCHANGED <<actions, index>>
    BY <1>1 DEF Canvas!PointerDown
  <2>2. strokes \in 0 .. MaxStrokes /\ MaxStrokes \in Nat
    BY DEF Canvas!DoodleAssumption, DrawingInv, StrokesSound
  <2>3. s \in DoodleAction /\ s.kind = "stroke" /\ s.points = 1 /\ s.id = strokes + 1 /\ ~s.broken
    BY <2>2 DEF Canvas!Stroke, DoodleAction
  <2> HIDE DEF s
  <2>4. Canvas!Marks(s) = {<<strokes + 1, 1>>}
    <3>1. 1 .. 1 = {1}
      OBVIOUS
    <3>2. Canvas!Marks(s) = {s.id} \X (1 .. s.points)
      BY DEF Canvas!Marks
    <3>3. Canvas!Marks(s) = {strokes + 1} \X {1}
      BY <2>3, <3>1, <3>2
    <3> QED BY <3>3
  <2>5. strokes + 1 \in 1 .. strokes' /\ strokes' \in 0 .. MaxStrokes
    BY <2>1, <2>2
  <2>6. \A i \in 1 .. Len(actions) : actions[i].kind # "clear" =>
          actions[i].id \in (1 .. strokes') \cup SavedDrawings /\ actions[i].id # strokes + 1
    BY <2>1, <2>2, <2>5 DEF DrawingInv, StrokesSound, Canvas!DoodleAssumption
  <2>7. StrokesSound'
    BY <2>1, <2>3, <2>5, <2>6 DEF DrawingInv, StrokesSound
  <2>8. CanvasSound'
    BY <2>1, <2>3, <2>4 DEF DrawingInv, CanvasSound
  <2> QED BY <2>1, <2>7, <2>8 DEF DrawingInv
<1>2. CASE Canvas!PointerMove
  <2> PICK s \in active : /\ active' = {[s EXCEPT !.points = @ + 1]} /\ canvas' = canvas \cup {<<s.id,
                                                                                                 s.points + 1>>}
                          /\ UNCHANGED <<actions, index, strokes>>
    BY <1>2 DEF Canvas!PointerMove
  <2> DEFINE t == [s EXCEPT !.points = @ + 1]
  <2>1. /\ s \in DoodleAction /\ active = {s} /\ s.kind = "stroke" /\ s.points >= 1 /\ s.id \in 1 .. strokes
        /\ \A i \in 1 .. Len(actions) : actions[i].kind # "clear" => actions[i].id # s.id
    BY DEF DrawingInv, StrokesSound
  <2>2. t \in DoodleAction /\ t.kind = s.kind /\ t.id = s.id /\ t.points = s.points + 1 /\ t.broken = s.broken
    BY <2>1 DEF DoodleAction
  <2>3. Canvas!Marks(t) = Canvas!Marks(s) \cup {<<s.id, s.points + 1>>}
    <3>1. s.points \in Int
      BY <2>1 DEF DoodleAction
    <3>2. 1 .. (s.points + 1) = (1 .. s.points) \cup {s.points + 1}
      BY <2>1, <3>1
    <3> QED BY <2>2, <3>2 DEF Canvas!Marks
  <2>4. active' = {t}
    OBVIOUS
  <2>5. t.points >= 1
    BY <2>1, <2>2 DEF DoodleAction
  <2> HIDE DEF t
  <2>6. StrokesSound'
    BY <2>1, <2>2, <2>4, <2>5 DEF DrawingInv, StrokesSound
  <2>7. CanvasSound'
    BY <2>1, <2>2, <2>3, <2>4 DEF DrawingInv, CanvasSound
  <2> QED BY <2>6, <2>7 DEF DrawingInv
<1> QED BY <1>1, <1>2

LEMMA DrawingStays ==
  ASSUME DrawingInv, UNCHANGED <<Canvas!drawing, strokes>>
  PROVE  DrawingInv'
  BY DEF DrawingInv, HistorySound, StrokesSound, CanvasSound, Canvas!Replay, Canvas!drawing

LEMMA DrawingAnswers ==
  ASSUME Canvas!DoodleAssumption, DrawingInv, openingImage \subseteq SavedDrawings,
         Canvas!ClickSend \/ Canvas!AnswerSend \/ Canvas!ClickRestore \/ Canvas!AnswerRestore
  PROVE  DrawingInv'
<1>1. CASE UNCHANGED Canvas!drawing
  BY <1>1, DrawingStays
     DEF Canvas!ClickSend, Canvas!AnswerSend, Canvas!ClickRestore, Canvas!AnswerRestore
<1>2. CASE Canvas!AnswerSend /\ actions' = <<>> /\ index' = 0 /\ canvas' = {} /\ active' = Canvas!Broken
  <2>1. HistorySound(<<>>) /\ Len(<<>>) = 0
    BY DEF HistorySound
  <2> QED BY <1>2, <2>1, Redraws, ReplayOfNothing DEF Canvas!AnswerSend
<1>3. ASSUME NEW i \in SavedDrawings, Canvas!AnswerRestore, actions' = <<Canvas!Image(i)>>, index' = 1,
             canvas' = Canvas!Marks(Canvas!Image(i)), active' = Canvas!Broken
      PROVE  DrawingInv'
  <2> DEFINE a == Canvas!Image(i)
  <2>1. a \in DoodleAction /\ a.kind = "image" /\ a.id = i /\ a.points = 1
    BY DEF Canvas!Image, DoodleAction
  <2>2. actions' = <<a>> /\ canvas' = Canvas!Marks(a)
    BY <1>3
  <2> HIDE DEF a
  <2>3. actions' \in Seq(DoodleAction) /\ Len(actions') = 1 /\ actions'[1] = a
        /\ \A j \in 1 .. Len(actions') : j = 1
    BY <2>1, <2>2
  <2>4. HistorySound(actions')
    BY <2>1, <2>3 DEF HistorySound
  <2>5. Canvas!Replay(actions', 1) = Canvas!Replay(actions', 1 - 1) \cup Canvas!Marks(a)
    BY <2>1, <2>3, ReplayOfInk
  <2>6. Canvas!Replay(actions', 1) = Canvas!Marks(a)
    <3>1. 1 - 1 = 0
      OBVIOUS
    <3> QED BY <2>5, <3>1, ReplayOfNothing
  <2>7. UNCHANGED strokes
    BY <1>3 DEF Canvas!AnswerRestore
  <2> QED BY <1>3, <2>1, <2>2, <2>3, <2>4, <2>6, <2>7, Redraws
<1> QED BY <1>1, <1>2, <1>3
           DEF Canvas!AnswerSend, Canvas!AnswerRestore, Canvas!ClickSend, Canvas!ClickRestore

\* With the saved drawings that are asked for.
CanvasInv == DrawingInv /\ openingImage \subseteq SavedDrawings

LEMMA CanvasInits == Canvas!DoodleAssumption /\ Canvas!Init => CanvasInv
  BY DrawingInits DEF CanvasInv, Canvas!Init

LEMMA CanvasSteps ==
  ASSUME Canvas!DoodleAssumption, CanvasInv, [Canvas!Next]_(Canvas!vars)
  PROVE  CanvasInv'
<1>1. CASE UNCHANGED Canvas!vars
  BY <1>1, DrawingStays DEF Canvas!vars, CanvasInv
<1>2. openingImage' \subseteq SavedDrawings
  BY
     DEF CanvasInv, Canvas!Next, Canvas!Undo, Canvas!Redo, Canvas!Clear, Canvas!PointerDown,
         Canvas!PointerMove, Canvas!PointerUp, Canvas!ClickSend, Canvas!AnswerSend,
         Canvas!ClickRestore, Canvas!AnswerRestore, Canvas!vars
<1> QED BY <1>1, <1>2, DrawingMoves, DrawingClears, DrawingLifts, DrawingDraws, DrawingAnswers
           DEF Canvas!Next, CanvasInv

-----------------------------------------------------------------------------
(* The console's preview panel, for any cards                               *)

PanelTypes(C) ==
  /\ seq \in Int /\ version \in [C -> Int] /\ trigger \in Panel(C)!Tools \cup {Panel(C)!None}
  /\ timers \subseteq C
  /\ "file" \in timers => version["file"] > 0

\* What was rendered at v is the card as it is, or is about to be asked for again,
\* or is of a widget that lags behind.
Fresh(C, c, v) == v = version[c] \/ Panel(C)!Due(c) \/ (pane = "widgets" /\ c \notin Panel(C)!Auto)

\* The trigger is the tool that is shown or asked for.
Triggers(C, c) == c \in Panel(C)!Tools => trigger = c

\* An answer that previewIsCurrent will let through.
AnswersFresh(C) ==
  \A r \in requests :
    /\ r.card \in C /\ r.seq \in Int /\ r.seq <= seq
    /\ r.seq = seq /\ owner = pane /\ Panel(C)!PaneOf[r.card] = pane =>
         Triggers(C, r.card) /\ Fresh(C, r.card, r.version)

\* And one that it has let through.
Shows(C, f) ==
  /\ f.card \in C /\ Panel(C)!PaneOf[f.card] = pane /\ shows = Panel(C)!Freshness(f.card)
  /\ Triggers(C, f.card) /\ Fresh(C, f.card, f.version)
  /\ f.card \notin Panel(C)!Stamped => f = Panel(C)!Prints(f.card, f.version, minute)
PanelFresh(C) == Panel(C)!Finished => owner = pane /\ \E f : frame = {f} /\ Shows(C, f)

PanelInv(C) == PanelTypes(C) /\ AnswersFresh(C) /\ PanelFresh(C)

\* The cards and their panes.
LEMMA CardFacts ==
  ASSUME NEW C, Panel(C)!PreviewAssumption
  PROVE  /\ "body" \in C /\ Panel(C)!None \notin C
         /\ \A c \in C : Panel(C)!PaneOf[c] = "widgets" => c \in {"calendar", "now", "weather"}
         /\ \A c \in C : c \in Panel(C)!Tools <=> Panel(C)!PaneOf[c] \in {"widgets", "labs"}
  BY DEF Panel!PreviewAssumption, Panel!PaneOf, Panel!None, Panel!Tools

LEMMA FreshnessFacts ==
  ASSUME NEW C, NEW c
  PROVE  /\ Panel(C)!Freshness(c) \in {"ready", "sample", "snapshot"}
         /\ (Panel(C)!Freshness(c) = "ready" <=> c \notin {"weather", "now"})
  BY DEF Panel!Freshness, Panel!Network

LEMMA PanelInits ==
  ASSUME NEW C, Panel(C)!PreviewAssumption, Panel(C)!Init
  PROVE  PanelInv(C)
<1>1. PanelTypes(C)
  BY DEF Panel!Init, PanelTypes
<1>2. AnswersFresh(C)
  <2> DEFINE q == [card |-> "body", seq |-> 1, version |-> 0, answer |-> Panel(C)!None, minute |-> 0]
  <2>1. requests = {q}
    BY DEF Panel!Init
  <2>2. q.card = "body" /\ q.seq = 1 /\ q.version = 0
    OBVIOUS
  <2> HIDE DEF q
  <2>3. "body" \in C /\ "body" \notin Panel(C)!Tools /\ version["body"] = 0
    BY CardFacts DEF Panel!Init, Panel!PaneOf
  <2> QED BY <2>1, <2>2, <2>3 DEF Panel!Init, AnswersFresh, Triggers, Fresh
<1>3. PanelFresh(C)
  BY DEF Panel!Init, PanelFresh, Panel!Finished
<1> QED BY <1>1, <1>2, <1>3 DEF PanelInv

LEMMA PanelIsSound == ASSUME NEW C, Panel(C)!PreviewAssumption, PanelInv(C)
                      PROVE  Panel(C)!ReadyIsCurrent /\ Panel(C)!ReadyPrintsIt
<1> SUFFICES ASSUME Panel(C)!Finished PROVE Panel(C)!ReadyIsCurrent /\ Panel(C)!ReadyPrintsIt
  BY DEF Panel!ReadyIsCurrent, Panel!ReadyPrintsIt
<1> PICK f : frame = {f} /\ Shows(C, f)
  BY DEF PanelInv, PanelFresh
<1>1. Panel(C)!ReadyIsCurrent
  BY DEF Shows, Fresh, Panel!ReadyIsCurrent
<1>2. ASSUME shows = "ready", f.card # "receipt", ~Panel(C)!Due(f.card)
      PROVE  f = Panel(C)!Prints(f.card, version[f.card], minute)
  <2>1. f.card \notin {"weather", "now"}
    BY <1>2, FreshnessFacts DEF Shows
  <2>2. f.card \notin Panel(C)!Stamped
    BY <1>2, <2>1 DEF Panel!Stamped
  <2>3. ~(pane = "widgets" /\ f.card \notin Panel(C)!Auto)
    BY <2>1, CardFacts DEF Shows, Panel!Auto
  <2> QED BY <1>2, <2>2, <2>3 DEF Shows, Fresh
<1> QED BY <1>1, <1>2 DEF Panel!ReadyPrintsIt

\* A preview is asked for: nothing that was on its way is current any more.
LEMMA PanelAsks ==
  ASSUME NEW C, Panel(C)!PreviewAssumption, PanelInv(C), PanelTypes(C)', NEW c \in C, NEW n \in Int,
         n > seq, NEW versions,
         Panel(C)!Ask(c, n, versions), versions[c] = version'[c]
  PROVE  AnswersFresh(C)' /\ PanelFresh(C)'
<1> DEFINE q == [card |-> c, seq |-> n, version |-> versions[c], answer |-> Panel(C)!None, minute |-> 0]
<1>1. /\ seq' = n /\ owner' = Panel(C)!PaneOf[c] /\ trigger' = (IF c \in Panel(C)!Tools THEN c ELSE trigger)
      /\ shows' \in {"waiting", "loading"} /\ (requests' = requests \/ requests' = requests \cup {q})
  BY DEF Panel!Ask
<1>2. q.card = c /\ q.seq = n /\ q.version = versions[c]
  OBVIOUS
<1> HIDE DEF q
<1>3. AnswersFresh(C)'
  <2> SUFFICES ASSUME NEW r \in requests'
               PROVE  /\ r.card \in C /\ r.seq \in Int /\ r.seq <= seq'
                      /\ r.seq = seq' => Triggers(C, r.card)' /\ Fresh(C, r.card, r.version)'
    BY DEF AnswersFresh
  <2>1. CASE r = q
    BY <1>1, <1>2, <2>1 DEF Triggers, Fresh
  <2>2. CASE r \in requests
    BY <1>1, <2>2 DEF PanelInv, PanelTypes, AnswersFresh
  <2> QED BY <1>1, <2>1, <2>2
<1>4. ~Panel(C)!Finished'
  BY <1>1 DEF Panel!Finished
<1> QED BY <1>3, <1>4 DEF PanelFresh

\* Nothing is asked for, and what was fresh is fresh.
LEMMA PanelKeeps ==
  ASSUME NEW C, PanelInv(C), UNCHANGED <<pane, frame, shows, minute>>, Panel(C)!AskNothing,
         \A c \in C : \A v :
            Panel(C)!PaneOf[c] = pane /\ owner = pane /\ Triggers(C, c) /\ Fresh(C, c, v) => Fresh(C, c, v)'
  PROVE  AnswersFresh(C)' /\ PanelFresh(C)'
<1>1. UNCHANGED <<seq, owner, trigger, buttons, requests, frame, shows, pane>>
  BY DEF Panel!AskNothing, Panel!asking
<1>2. AnswersFresh(C)'
  BY <1>1 DEF PanelInv, AnswersFresh, Triggers
<1>3. ASSUME Panel(C)!Finished PROVE owner' = pane' /\ \E f : frame' = {f} /\ Shows(C, f)'
  <2> PICK f : frame = {f} /\ Shows(C, f) /\ owner = pane
    BY <1>3 DEF PanelInv, PanelFresh
  <2>1. Shows(C, f)'
    BY <1>1 DEF Shows, Triggers
  <2> QED BY <1>1, <2>1
<1>4. Panel(C)!Finished' => Panel(C)!Finished
  BY <1>1 DEF Panel!Finished
<1> QED BY <1>1, <1>2, <1>3, <1>4 DEF PanelFresh

LEMMA PanelClicks ==
  ASSUME NEW C, Panel(C)!PreviewAssumption, PanelInv(C), Panel(C)!Click \/ Panel(C)!Change
  PROVE  PanelInv(C)'
<1>1. CASE Panel(C)!Click
  <2> PICK c \in C \ buttons :
         /\ Panel(C)!PaneOf[c] = pane /\ UNCHANGED <<pane, timers, toolTimer, version, empty>>
         /\ IF Panel(C)!CanAsk(c, version)
            THEN Panel(C)!Ask(c, seq + 1, version) ELSE Panel(C)!AskNothing
    BY <1>1 DEF Panel!Click
  <2>1. PanelTypes(C)'
    BY CardFacts DEF PanelInv, PanelTypes, Panel!Ask, Panel!AskNothing, Panel!asking
  <2>2. CASE Panel(C)!CanAsk(c, version)
    <3>1. seq + 1 \in Int /\ seq + 1 > seq
      BY DEF PanelInv, PanelTypes
    <3> QED BY <2>1, <2>2, <3>1, PanelAsks DEF PanelInv
  <2>3. CASE ~Panel(C)!CanAsk(c, version)
    BY <1>1, <2>1, <2>3, PanelKeeps
       DEF PanelInv, Fresh, Panel!Due, Panel!AskNothing, Panel!asking, Panel!Click, Panel!Input
  <2> QED BY <2>2, <2>3
<1>2. CASE Panel(C)!Change
  <2> PICK c \in C \cap {"body", "file"} :
         version' = [version EXCEPT ![c] = @ + 1] /\ Panel(C)!Ask(c, seq + 1, version')
    BY <1>2 DEF Panel!Change
  <2>1. PanelTypes(C)'
    BY <1>2, CardFacts DEF PanelInv, PanelTypes, Panel!Ask, Panel!Change
  <2>2. seq + 1 \in Int /\ seq + 1 > seq
    BY DEF PanelInv, PanelTypes
  <2> QED BY <2>1, <2>2, PanelAsks DEF PanelInv
<1> QED BY <1>1, <1>2

LEMMA PanelTypesIn ==
  ASSUME NEW C, Panel(C)!PreviewAssumption, PanelInv(C), Panel(C)!Type
  PROVE  PanelInv(C)'
<1> PICK c \in C :
      /\ Panel(C)!PaneOf[c] = pane /\ (c = "file" => version["file"] > 0)
      /\ version' = [version EXCEPT ![c] = @ + 1]
      /\ IF c \in Panel(C)!Tools
         THEN toolTimer' = (IF Panel(C)!KeepsInSync(c) THEN pane ELSE toolTimer) /\ UNCHANGED timers
         ELSE timers' = timers \cup {c} /\ UNCHANGED toolTimer
  BY DEF Panel!Type
<1>1. UNCHANGED pane /\ Panel(C)!AskNothing /\ UNCHANGED <<trigger, owner, seq, frame, shows, minute>>
  BY DEF Panel!Type, Panel!AskNothing, Panel!asking, Panel!Input
<1>2. PanelTypes(C)'
  BY <1>1 DEF PanelInv, PanelTypes
<1>3. ASSUME NEW d \in C, NEW v, owner = pane, Triggers(C, d), Fresh(C, d, v)
      PROVE  Fresh(C, d, v)'
  <2>1. CASE d # c
    BY <1>1, <1>3, <2>1 DEF Fresh, Panel!Due, PanelInv, PanelTypes
  <2>2. CASE d = c /\ c \notin Panel(C)!Tools
    BY <2>2 DEF Fresh, Panel!Due
  <2>3. CASE d = c /\ c \in Panel(C)!Tools
    BY <1>1, <1>3, <2>3 DEF Fresh, Panel!Due, Triggers, Panel!KeepsInSync
  <2> QED BY <2>1, <2>2, <2>3
<1> QED BY <1>1, <1>2, <1>3, PanelKeeps DEF PanelInv

LEMMA PanelTimers ==
  ASSUME NEW C, Panel(C)!PreviewAssumption, PanelInv(C), Panel(C)!TimerFires
  PROVE  PanelInv(C)'
<1> PICK c \in timers :
      /\ timers' = timers \ {c}
      /\ IF Panel(C)!PaneOf[c] = pane /\ Panel(C)!CanAsk(c, version)
         THEN Panel(C)!Ask(c, seq + 1, version) ELSE Panel(C)!AskNothing
  BY DEF Panel!TimerFires
<1>1. UNCHANGED <<pane, toolTimer, version, empty, Panel(C)!clock>> /\ c \in C /\ UNCHANGED minute
  BY DEF Panel!TimerFires, PanelInv, PanelTypes, Panel!clock
<1>2. PanelTypes(C)'
  BY <1>1, CardFacts DEF PanelInv, PanelTypes, Panel!Ask, Panel!AskNothing, Panel!asking
<1>3. Panel(C)!CanAsk(c, version)
  BY DEF Panel!CanAsk, PanelInv, PanelTypes
<1>4. CASE Panel(C)!PaneOf[c] = pane
  <2>1. seq + 1 \in Int /\ seq + 1 > seq
    BY DEF PanelInv, PanelTypes
  <2> QED BY <1>1, <1>2, <1>3, <1>4, <2>1, PanelAsks DEF PanelInv
<1>5. CASE Panel(C)!PaneOf[c] # pane
  <2>1. Panel(C)!AskNothing /\ UNCHANGED <<frame, shows, trigger>>
    BY <1>5 DEF Panel!AskNothing, Panel!asking
  <2>2. \A d \in C : \A v : Panel(C)!PaneOf[d] = pane /\ Fresh(C, d, v) => Fresh(C, d, v)'
    BY <1>1, <1>5, <2>1 DEF Fresh, Panel!Due
  <2> QED BY <1>1, <1>2, <2>1, <2>2, PanelKeeps DEF PanelInv
<1> QED BY <1>4, <1>5

LEMMA PanelToolTimer ==
  ASSUME NEW C, Panel(C)!PreviewAssumption, PanelInv(C), Panel(C)!ToolTimerFires
  PROVE  PanelInv(C)'
<1>1. /\ toolTimer # Panel(C)!None /\ toolTimer' = Panel(C)!None
      /\ UNCHANGED <<pane, timers, version, empty, Panel(C)!clock, minute>>
      /\ IF pane = toolTimer /\ trigger # Panel(C)!None
         THEN Panel(C)!Ask(trigger, seq + 1, version) ELSE Panel(C)!AskNothing
  BY DEF Panel!ToolTimerFires, Panel!clock
<1>2. PanelTypes(C)'
  BY <1>1, CardFacts DEF PanelInv, PanelTypes, Panel!Ask, Panel!AskNothing, Panel!asking
<1>3. CASE pane = toolTimer /\ trigger # Panel(C)!None
  <2>1. seq + 1 \in Int /\ seq + 1 > seq /\ trigger \in C
    BY <1>3 DEF PanelInv, PanelTypes, Panel!Tools
  <2> QED BY <1>1, <1>2, <1>3, <2>1, PanelAsks DEF PanelInv
<1>4. CASE ~(pane = toolTimer /\ trigger # Panel(C)!None)
  <2>1. Panel(C)!AskNothing /\ UNCHANGED <<frame, shows, trigger>>
    BY <1>1, <1>4 DEF Panel!AskNothing, Panel!asking
  <2>2. \A d \in C : \A v : Fresh(C, d, v) => Fresh(C, d, v)'
    BY <1>1, <1>4, <2>1, CardFacts DEF Fresh, Panel!Due
  <2> QED BY <1>1, <1>2, <2>1, <2>2, PanelKeeps DEF PanelInv
<1> QED BY <1>3, <1>4

\* A tab asks anew, or has nothing on view that could be taken for a preview.
LEMMA PanelSwitches ==
  ASSUME NEW C, Panel(C)!PreviewAssumption, PanelInv(C), Panel(C)!Switch
  PROVE  PanelInv(C)'
<1>1. UNCHANGED <<timers, version>> /\ trigger' = Panel(C)!None
  BY DEF Panel!Switch
<1>2. ASSUME NEW c \in C \cap {"body", "file"}, seq' = seq + 2, shows' = "loading",
             requests' = requests \cup {[card |-> c, seq |-> seq + 2, version |-> version[c],
                                         answer |-> Panel(C)!None, minute |-> 0]}
      PROVE  PanelInv(C)'
  <2> DEFINE q == [card |-> c, seq |-> seq + 2, version |-> version[c], answer |-> Panel(C)!None, minute |-> 0]
  <2>1. requests' = requests \cup {q} /\ q.card = c /\ q.seq = seq + 2 /\ q.version = version[c]
    BY <1>2
  <2> HIDE DEF q
  <2>2. c \notin Panel(C)!Tools
    BY <1>2 DEF Panel!Tools, Panel!PaneOf
  <2>3. AnswersFresh(C)'
    BY <1>1, <1>2, <2>1, <2>2 DEF PanelInv, PanelTypes, AnswersFresh, Triggers, Fresh
  <2>4. PanelTypes(C)' /\ ~Panel(C)!Finished'
    BY <1>1, <1>2 DEF PanelInv, PanelTypes, Panel!Finished
  <2> QED BY <2>3, <2>4 DEF PanelInv, PanelFresh
<1>3. ASSUME seq' = seq + 1, UNCHANGED requests, pane' \in Panel(C)!Previewed => shows' = "waiting"
      PROVE  PanelInv(C)'
  <2>1. AnswersFresh(C)'
    BY <1>3 DEF PanelInv, PanelTypes, AnswersFresh
  <2>2. PanelTypes(C)' /\ ~Panel(C)!Finished'
    BY <1>1, <1>3 DEF PanelInv, PanelTypes, Panel!Finished
  <2> QED BY <2>1, <2>2 DEF PanelInv, PanelFresh
<1> QED BY <1>2, <1>3 DEF Panel!Switch, Panel!Waits

LEMMA PanelAnswers ==
  ASSUME NEW C, Panel(C)!PreviewAssumption, PanelInv(C), Panel(C)!Serve \/ Panel(C)!Deliver
  PROVE  PanelInv(C)'
<1>1. UNCHANGED <<pane, timers, toolTimer, version, empty, seq, owner, trigger, minute>>
  BY DEF Panel!Serve, Panel!Deliver, Panel!clock
<1>2. PanelTypes(C)'
  BY <1>1 DEF PanelInv, PanelTypes
<1>3. \A c, v : (Fresh(C, c, v)' <=> Fresh(C, c, v)) /\ (Triggers(C, c)' <=> Triggers(C, c))
  BY <1>1 DEF Fresh, Panel!Due, Triggers
<1>4. CASE Panel(C)!Serve
  <2> PICK r \in requests, answer \in {"ok", "error"} :
         requests' = (requests \ {r}) \cup {[r EXCEPT !.answer = answer, !.minute = minute]}
    BY <1>4 DEF Panel!Serve
  <2> DEFINE q == [r EXCEPT !.answer = answer, !.minute = minute]
  <2>1. q.card = r.card /\ q.seq = r.seq /\ q.version = r.version /\ requests' = (requests \ {r}) \cup {q}
    OBVIOUS
  <2> HIDE DEF q
  <2>2. AnswersFresh(C)'
    BY <1>1, <1>3, <2>1 DEF PanelInv, AnswersFresh
  <2>3. PanelFresh(C)'
    BY <1>1, <1>3, <1>4 DEF Panel!Serve, PanelInv, PanelFresh, Panel!Finished, Shows
  <2> QED BY <1>2, <2>2, <2>3 DEF PanelInv
<1>5. CASE Panel(C)!Deliver
  <2> PICK r \in requests :
         /\ requests' = requests \ {r}
         /\ IF ~Panel(C)!IsCurrent(r) THEN UNCHANGED <<frame, shows>>
            ELSE IF r.answer = "ok"
            THEN frame' = {Panel(C)!Prints(r.card, r.version, r.minute)} /\ shows' = Panel(C)!Freshness(r.card)
            ELSE frame' = {} /\ shows' = "failed"
    BY <1>5 DEF Panel!Deliver
  <2>1. AnswersFresh(C)'
    BY <1>1, <1>3 DEF PanelInv, AnswersFresh
  <2>2. CASE ~Panel(C)!IsCurrent(r)
    <3>1. PanelFresh(C)'
      BY <1>1, <1>3, <2>2 DEF PanelInv, PanelFresh, Panel!Finished, Shows
    <3> QED BY <1>2, <2>1, <3>1 DEF PanelInv
  <2>3. CASE Panel(C)!IsCurrent(r) /\ r.answer = "ok"
    <3> DEFINE f == Panel(C)!Prints(r.card, r.version, r.minute)
    <3>1. f.card = r.card /\ f.version = r.version
          /\ (r.card \notin Panel(C)!Stamped => f = Panel(C)!Prints(r.card, r.version, minute))
      BY DEF Panel!Prints
    <3>2. frame' = {f} /\ shows' = Panel(C)!Freshness(r.card)
      BY <2>3
    <3> HIDE DEF f
    <3>3. owner = pane /\ r.card \in C /\ Panel(C)!PaneOf[r.card] = pane /\ Triggers(C, r.card)
          /\ Fresh(C, r.card, r.version)
      BY <2>3 DEF Panel!IsCurrent, PanelInv, AnswersFresh
    <3>4. Shows(C, f)'
      BY <1>1, <1>3, <3>1, <3>2, <3>3 DEF Shows
    <3> QED BY <1>1, <1>2, <2>1, <3>2, <3>3, <3>4 DEF PanelInv, PanelFresh
  <2>4. CASE Panel(C)!IsCurrent(r) /\ r.answer # "ok"
    <3>1. ~Panel(C)!Finished'
      BY <2>4 DEF Panel!Finished
    <3> QED BY <1>2, <2>1, <3>1 DEF PanelInv, PanelFresh
  <2> QED BY <2>2, <2>3, <2>4
<1> QED BY <1>4, <1>5

LEMMA PanelTicks ==
  ASSUME NEW C, Panel(C)!PreviewAssumption, PanelInv(C),
         Panel(C)!Tick \/ Panel(C)!Idle \/ UNCHANGED Panel(C)!vars
  PROVE  PanelInv(C)'
<1>1. UNCHANGED <<pane, timers, toolTimer, version, empty, frame, shows, seq, owner, trigger, buttons,
                  requests>>
  BY DEF Panel!Tick, Panel!Idle, Panel!vars, Panel!asking
<1>2. \A c, v : (Fresh(C, c, v)' <=> Fresh(C, c, v)) /\ (Triggers(C, c)' <=> Triggers(C, c))
  BY <1>1 DEF Fresh, Panel!Due, Triggers
<1>3. PanelTypes(C)' /\ AnswersFresh(C)'
  BY <1>1, <1>2 DEF PanelInv, PanelTypes, AnswersFresh
<1>4. \A c, v : c \notin Panel(C)!Stamped => Panel(C)!Prints(c, v, minute') = Panel(C)!Prints(c, v, minute)
  BY DEF Panel!Prints
<1>5. PanelFresh(C)'
  BY <1>1, <1>2, <1>4 DEF PanelInv, PanelFresh, Panel!Finished, Shows
<1> QED BY <1>3, <1>5 DEF PanelInv

LEMMA PanelSteps ==
  ASSUME NEW C, Panel(C)!PreviewAssumption, PanelInv(C), [Panel(C)!Next]_(Panel(C)!vars)
  PROVE  PanelInv(C)'
  BY PanelClicks, PanelTypesIn, PanelTimers, PanelToolTimer, PanelSwitches, PanelAnswers, PanelTicks
     DEF Panel!Next

-----------------------------------------------------------------------------
(* The print log                                                           *)

LogStatuses == {"scheduled", "queued", "cancelled", "printed", "failed"}
LogEntries     == [msg : Message, status : LogStatuses]
LogCards    == [msg : Message, status : LogStatuses, revision : Int, shown : SUBSET LogEntries, busy : BOOLEAN]
LogCalls ==
  [what : {"list", "failed", "reveal", "retry"}, msg : SUBSET Message, include : BOOLEAN,
   revision : Int, done : BOOLEAN, ok : BOOLEAN,
   gives : SUBSET LogEntries]

LogTypes ==
  /\ logRequests \subseteq LogCalls /\ logList \subseteq LogCards
  /\ status \in [Message -> LogStatuses]
  /\ include \in BOOLEAN /\ open \in BOOLEAN /\ onAdmin \in BOOLEAN
  /\ hidden \in BOOLEAN /\ confirm \in BOOLEAN /\ toggled \in BOOLEAN
  /\ logRevision \in Int /\ failedRev \in Int
  /\ retrying \in SUBSET Message /\ banner \in SUBSET Message

\* The log is open only where the owner sees it, and holds and waits for nothing elsewhere.
OpenInView == open => onAdmin /\ ~hidden
NothingOpen == ~open /\ ~toggled => logList = {} /\ ~include /\ ~confirm

\* What the log waits for was asked for as it stands: by this revision, with this scope.
AskedAsIs ==
  \A r \in logRequests : r.what \in {"list", "reveal"} =>
    /\ r.revision = logRevision /\ (r.include => include)
    /\ ~r.include => \A row \in r.gives : row.status \in Log!Delivered

\* One retry moves paper, the one whose buttons are disabled.
RetryHeld ==
  /\ \A r, s \in logRequests : r.what = "retry" /\ s.what = "retry" => r = s
  /\ retrying = {} => \A r \in logRequests : r.what # "retry"

\* A print the banner offers in vain, and why it will not do so for long.
RetryOut   == \E r \in logRequests : r.what = "retry"
ReloadOut  == \E r \in logRequests : r.what = "failed" /\ r.revision = failedRev /\ (r.done => r.ok)
BannerSound ==
  /\ \A r \in logRequests : r.what = "failed" => r.revision <= failedRev /\ (r.ok => r.done)
  /\ \A r \in logRequests : r.what = "failed" /\ r.revision = failedRev /\ r.done =>
       \A row \in r.gives : status[row.msg] = "failed" \/ RetryOut
  /\ \A m \in banner : status[m] = "failed" \/ RetryOut \/ ReloadOut

LogInv == LogTypes /\ OpenInView /\ NothingOpen /\ AskedAsIs /\ Log!NoSurprise /\ RetryHeld

LEMMA LogInits == Log!Init => LogInv /\ BannerSound
<1> SUFFICES ASSUME Log!Init PROVE LogInv /\ BannerSound
  OBVIOUS
<1>1. status \in [Message -> LogStatuses]
  BY DEF Log!Init, LogStatuses
<1>2. logRequests \subseteq LogCalls /\ 0 \in Int
  BY DEF Log!Init
<1>3. include \in BOOLEAN /\ open \in BOOLEAN /\ onAdmin \in BOOLEAN /\ hidden \in BOOLEAN
      /\ confirm \in BOOLEAN /\ toggled \in BOOLEAN
  BY DEF Log!Init
<1>4. LogTypes
  BY <1>1, <1>2, <1>3 DEF Log!Init, LogTypes
<1>5. OpenInView /\ NothingOpen /\ AskedAsIs /\ Log!NoSurprise /\ RetryHeld
  BY DEF Log!Init, OpenInView, NothingOpen, AskedAsIs, Log!NoSurprise, RetryHeld
<1> QED BY <1>4, <1>5 DEF Log!Init, BannerSound, LogInv

\* The count of the log's module is that of the library.
LEMMA LogCounts == \A S : Log!Cardinality(S) = Cardinality(S)
  BY DEF Log!Cardinality, Cardinality

LEMMA LogIsSound == LogInv => Log!NothingBehind /\ Log!NoSurprise /\ Log!OneRetry
<1> SUFFICES ASSUME LogInv PROVE Log!NothingBehind /\ Log!NoSurprise /\ Log!OneRetry
  OBVIOUS
<1> DEFINE retries == {r \in logRequests : r.what = "retry"}
<1>1. retries = {} \/ \E r \in logRequests : retries = {r}
  BY DEF LogInv, RetryHeld
<1> HIDE DEF retries
<1>2. Cardinality(retries) <= 1
  <2>1. CASE retries = {}
    <3>1. Cardinality({}) = 0
      BY FS_EmptySet
    <3> QED BY <2>1, <3>1
  <2>2. ASSUME NEW r, retries = {r} PROVE Cardinality(retries) <= 1
    <3>1. Cardinality({r}) = 1
      BY FS_Singleton
    <3> QED BY <2>2, <3>1
  <2> QED BY <1>1, <2>1, <2>2
<1>3. Log!OneRetry
  BY <1>2, LogCounts DEF Log!OneRetry, retries
<1>4. Log!NothingBehind
  BY DEF LogInv, OpenInView, NothingOpen, Log!NothingBehind
<1> QED BY <1>3, <1>4 DEF LogInv

LEMMA BannerIsHonest == BannerSound => Log!BannerHonest
  BY DEF BannerSound, Log!BannerHonest, RetryOut, ReloadOut

\* A request as it is answered.
LogReply(r, works) == [r EXCEPT !.done = TRUE, !.ok = works, !.gives = IF works THEN Log!Found(r) ELSE {}]

LEMMA ReplyIs ==
  ASSUME LogTypes, NEW r \in logRequests, NEW works \in BOOLEAN
  PROVE  /\ Log!Replied(r, works) = (logRequests \ {r}) \cup {LogReply(r, works)}
         /\ LogReply(r, works) \in LogCalls
         /\ LogReply(r, works).what = r.what /\ LogReply(r, works).include = r.include
         /\ LogReply(r, works).revision = r.revision
         /\ LogReply(r, works).done /\ (LogReply(r, works).ok <=> works)
         /\ LogReply(r, works).gives = IF works THEN Log!Found(r) ELSE {}
<1>1. Log!Found(r) \in SUBSET LogEntries
  BY DEF LogTypes, LogCalls, Log!Found, Log!Row, Log!Visible, LogEntries, LogStatuses
<1> DEFINE found == IF works THEN Log!Found(r) ELSE {}
<1>2. found \in SUBSET LogEntries
  BY <1>1
<1> HIDE DEF found
<1>3. r \in LogCalls
  BY DEF LogTypes
<1>4. LogReply(r, works) = [[[r EXCEPT !.done = TRUE] EXCEPT !.ok = works] EXCEPT !.gives = found]
  BY DEF LogReply, found
<1>5. Log!Replied(r, works) = (logRequests \ {r}) \cup {LogReply(r, works)}
  BY DEF Log!Replied, LogReply
<1> QED BY <1>2, <1>3, <1>4, <1>5 DEF LogCalls, found

\* What is not the log's own in two sets of requests.
OthersOf(rs) == {r \in rs : r.what \notin {"list", "reveal"}}

\* What the log asks for anew is all that it waits for.
LEMMA LogLoads ==
  ASSUME LogInv, NEW rs \in SUBSET LogCalls, NEW included \in BOOLEAN, Log!LoadMessages(rs, included),
         include' = included
  PROVE  /\ logRequests' \subseteq LogCalls /\ logRevision' \in Int /\ logList' = {}
         /\ AskedAsIs' /\ Log!NoSurprise' /\ OthersOf(logRequests') = OthersOf(rs)
<1> DEFINE q == Log!Request("list", {}, included, logRevision + 1)
<1>1. logRequests' = Log!Unaborted(rs) \cup {q} /\ logRevision' = logRevision + 1 /\ logList' = {}
      /\ logRevision + 1 \in Int
  BY DEF Log!LoadMessages, LogInv, LogTypes
<1>2. q \in LogCalls /\ q.what = "list" /\ q.include = included /\ q.revision = logRevision + 1 /\ q.gives = {}
  BY <1>1 DEF Log!Request, LogCalls
<1> HIDE DEF q
<1> QED BY <1>1, <1>2 DEF Log!Unaborted, AskedAsIs, Log!NoSurprise, OthersOf

LEMMA LogClears ==
  ASSUME LogInv, NEW rs \in SUBSET LogCalls, Log!Clear(rs)
  PROVE  /\ logRequests' \subseteq LogCalls /\ logRevision' \in Int /\ logList' = {}
         /\ include' = FALSE /\ confirm' = FALSE
         /\ AskedAsIs' /\ Log!NoSurprise' /\ OthersOf(logRequests') = OthersOf(rs)
<1>1. logRequests' = Log!Unaborted(rs) /\ logRevision' = logRevision + 1 /\ logList' = {}
      /\ logRevision + 1 \in Int
      /\ include' = FALSE /\ confirm' = FALSE
  BY DEF Log!Clear, Log!SetScope, LogInv, LogTypes
<1> QED BY <1>1 DEF Log!Unaborted, AskedAsIs, Log!NoSurprise, OthersOf

\* Retries are none of the log's own requests.
LEMMA RetriesStay ==
  ASSUME LogInv, OthersOf(logRequests') = OthersOf(logRequests), retrying' = retrying
  PROVE  RetryHeld'
<1>1. \A r : r.what = "retry" => (r \in logRequests' <=> r \in logRequests)
  BY DEF OthersOf
<1> QED BY <1>1 DEF LogInv, RetryHeld

\* Nor are the banner's.
LEMMA BannerStays ==
  ASSUME BannerSound, OthersOf(logRequests') = OthersOf(logRequests),
         UNCHANGED <<banner, status, failedRev>>
  PROVE  BannerSound'
<1>1. \A r : r.what \in {"retry", "failed"} => (r \in logRequests' <=> r \in logRequests)
  BY DEF OthersOf
<1> QED BY <1>1 DEF BannerSound, RetryOut, ReloadOut

\* The banner is asked for again, unless a retry will do so.
LEMMA BannerReloads ==
  ASSUME LogInv, logRequests' = Log!WithFailed(logRequests), failedRev' = Log!FailedRevNext,
         UNCHANGED <<banner, status, retrying>>
  PROVE  /\ logRequests' \subseteq LogCalls /\ failedRev' \in Int /\ RetryHeld' /\ (BannerSound => BannerSound')
         /\ \A r \in logRequests' : r.what \in {"list", "reveal"} => r \in logRequests
<1>1. CASE retrying # {}
  BY <1>1
     DEF Log!WithFailed, Log!FailedRevNext, LogInv, LogTypes, RetryHeld, BannerSound, RetryOut,
         ReloadOut
<1>2. CASE retrying = {}
  <2> DEFINE q == Log!Request("failed", {}, FALSE, failedRev + 1)
  <2>1. logRequests' = logRequests \cup {q} /\ failedRev' = failedRev + 1 /\ failedRev \in Int
    BY <1>2 DEF Log!WithFailed, Log!FailedRevNext, LogInv, LogTypes
  <2>2. q \in LogCalls /\ q.what = "failed" /\ q.revision = failedRev + 1 /\ ~q.done /\ ~q.ok
    BY <2>1 DEF Log!Request, LogCalls
  <2> HIDE DEF q
  <2>3. \A r \in logRequests : r.revision \in Int
    BY DEF LogInv, LogTypes, LogCalls
  <2> QED BY <2>1, <2>2, <2>3 DEF LogInv, LogTypes, RetryHeld, BannerSound, RetryOut, ReloadOut
<1> QED BY <1>1, <1>2

LEMMA LogRows ==
  ASSUME LogInv, Log!RowMoves
  PROVE  LogInv' /\ (BannerSound => BannerSound')
<1>1. PICK m \in Message, to \in {"queued", "cancelled", "printed", "failed"} :
        status[m] # "failed" /\ status' = [status EXCEPT ![m] = to]
  BY DEF Log!RowMoves, Log!Delivered
<1>2. UNCHANGED <<logClicks, onAdmin, hidden, Log!logVars, Log!errVars, logRequests>>
  BY DEF Log!RowMoves
<1>3. /\ status' \in [Message -> LogStatuses]
      /\ \A n : status[n] = "failed" => status'[n] = "failed" \/ n \notin Message
  BY <1>1 DEF LogInv, LogTypes, LogStatuses
<1>4. LogInv'
  BY <1>2, <1>3
     DEF LogInv, LogTypes, OpenInView, NothingOpen, AskedAsIs, Log!NoSurprise, RetryHeld, Log!logVars,
         Log!errVars
<1>5. \A r \in logRequests : \A row \in r.gives : row.msg \in Message
  BY DEF LogInv, LogTypes, LogCalls, LogEntries
<1>6. \A m1 \in banner : m1 \in Message
  BY DEF LogInv, LogTypes
<1>7. ASSUME BannerSound PROVE BannerSound'
  BY <1>2, <1>3, <1>5, <1>6, <1>7 DEF BannerSound, RetryOut, ReloadOut, Log!errVars
<1> QED BY <1>4, <1>7

LEMMA LogServes ==
  ASSUME LogInv, Log!Serve
  PROVE  LogInv'
<1> PICK r \in logRequests, works \in BOOLEAN :
      /\ logRequests' = Log!Replied(r, works)
      /\ status' = [m \in Message |-> IF works /\ r.what = "retry" /\ m \in r.msg /\ status[m] = "failed"
                                      THEN "printed" ELSE status[m]]
  BY DEF Log!Serve
<1> DEFINE q == LogReply(r, works)
<1>1. /\ logRequests' = (logRequests \ {r}) \cup {q} /\ q \in LogCalls
      /\ q.what = r.what /\ q.include = r.include /\ q.revision = r.revision
      /\ q.gives = IF works THEN Log!Found(r) ELSE {}
  BY ReplyIs DEF LogInv
<1>2. UNCHANGED <<logClicks, onAdmin, hidden, Log!logVars, Log!errVars>>
  BY DEF Log!Serve
<1>3. status' \in [Message -> LogStatuses]
  BY DEF LogInv, LogTypes, LogStatuses
<1>4. ASSUME r.what \in {"list", "reveal"}, ~r.include
      PROVE  \A row \in Log!Found(r) : row.status \in Log!Delivered
  <2>1. Log!Found(r) = IF r.what = "list" THEN {Log!Row(m) : m \in {m \in Message : Log!Visible(m, r.include)}}
                       ELSE {Log!Row(m) : m \in {m \in r.msg : Log!Visible(m, r.include)}}
    BY <1>4 DEF Log!Found
  <2>2. \A m : Log!Visible(m, r.include) => status[m] \in Log!Delivered
    BY <1>4 DEF Log!Visible
  <2>3. \A row \in Log!Found(r) : \E m : Log!Visible(m, r.include) /\ row = Log!Row(m)
    BY <2>1
  <2> QED BY <2>2, <2>3 DEF Log!Row
<1> HIDE DEF q
<1>5. LogTypes'
  BY <1>1, <1>2, <1>3 DEF LogInv, LogTypes, Log!logVars, Log!errVars
<1>6. AskedAsIs'
  BY <1>1, <1>2, <1>4 DEF LogInv, AskedAsIs, Log!logVars
<1>7. RetryHeld'
  BY <1>1, <1>2 DEF LogInv, RetryHeld, Log!errVars
<1> QED BY <1>2, <1>5, <1>6, <1>7 DEF LogInv, OpenInView, NothingOpen, Log!NoSurprise, Log!logVars

\* A listing that gets through names what has failed by now.
LEMMA BannerServes ==
  ASSUME LogInv, BannerSound, "failed" \notin Failing, Log!Serve
  PROVE  BannerSound'
<1> PICK r \in logRequests, works \in BOOLEAN :
      /\ ~r.done /\ (works \/ r.what \in Failing)
      /\ logRequests' = Log!Replied(r, works)
      /\ status' = [m \in Message |-> IF works /\ r.what = "retry" /\ m \in r.msg /\ status[m] = "failed"
                                      THEN "printed" ELSE status[m]]
  BY DEF Log!Serve
<1> DEFINE q == LogReply(r, works)
<1>1. /\ logRequests' = (logRequests \ {r}) \cup {q}
      /\ q.what = r.what /\ q.revision = r.revision /\ q.done /\ (q.ok <=> works)
      /\ q.gives = IF works THEN Log!Found(r) ELSE {}
  BY ReplyIs DEF LogInv
<1> HIDE DEF q
<1>2. UNCHANGED <<banner, failedRev>>
  BY DEF Log!Serve, Log!errVars
<1>3. RetryOut' <=> RetryOut
  BY <1>1 DEF RetryOut
<1>4. \A m \in Message : status[m] = "failed" => status'[m] = "failed" \/ RetryOut
  BY DEF RetryOut
<1>5. r.what = "failed" => works
  OBVIOUS
<1>6. ASSUME r.what = "failed"
      PROVE  \A row \in Log!Found(r) : row.msg \in Message /\ status'[row.msg] = "failed"
  <2>1. Log!Found(r) = {Log!Row(m) : m \in {m \in Message : status[m] = "failed"}}
    BY <1>6 DEF Log!Found
  <2>2. status' = [m \in Message |-> status[m]]
    BY <1>6
  <2> QED BY <2>1, <2>2 DEF Log!Row
<1>7. \A s \in logRequests : \A row \in s.gives : row.msg \in Message
  BY DEF LogInv, LogTypes, LogCalls, LogEntries
<1>8. banner \subseteq Message
  BY DEF LogInv, LogTypes
<1>9. ASSUME ReloadOut PROVE ReloadOut'
  BY <1>1, <1>2, <1>5, <1>9 DEF ReloadOut
<1>10. ASSUME NEW s \in logRequests', s.what = "failed"
       PROVE  s.revision <= failedRev' /\ (s.ok => s.done)
  BY <1>1, <1>2, <1>10 DEF BannerSound
<1>11. ASSUME NEW s \in logRequests', s.what = "failed", s.revision = failedRev', s.done,
              NEW row \in s.gives
       PROVE  status'[row.msg] = "failed" \/ RetryOut'
  <2>1. CASE s = q
    BY <1>1, <1>5, <1>6, <1>11, <2>1
  <2>2. CASE s \in logRequests
    BY <1>2, <1>3, <1>4, <1>7, <1>11, <2>2 DEF BannerSound
  <2> QED BY <1>1, <2>1, <2>2
<1>12. ASSUME NEW m \in banner' PROVE status'[m] = "failed" \/ RetryOut' \/ ReloadOut'
  BY <1>2, <1>3, <1>4, <1>8, <1>9 DEF BannerSound
<1> QED BY <1>10, <1>11, <1>12 DEF BannerSound

\* The log is closed, or on its way to be.
LEMMA LogCloses ==
  ASSUME LogInv, Log!ClosePrintLog(logRequests), UNCHANGED <<status, retrying, banner, failedRev>>,
         onAdmin' \in BOOLEAN, hidden' \in BOOLEAN
  PROVE  LogInv' /\ (BannerSound => BannerSound')
<1>1. Log!Clear(logRequests) /\ open' = FALSE /\ toggled' = (open \/ toggled)
  BY DEF Log!ClosePrintLog
<1>2. logRequests \in SUBSET LogCalls
  BY DEF LogInv, LogTypes
<1>3. /\ logRequests' \subseteq LogCalls /\ logRevision' \in Int /\ logList' = {} /\ include' = FALSE
      /\ confirm' = FALSE
      /\ AskedAsIs' /\ Log!NoSurprise' /\ OthersOf(logRequests') = OthersOf(logRequests)
  BY <1>1, <1>2, LogClears
<1>4. LogTypes'
  BY <1>1, <1>3 DEF LogInv, LogTypes
<1>5. OpenInView' /\ NothingOpen'
  BY <1>1, <1>3 DEF OpenInView, NothingOpen
<1> QED BY <1>3, <1>4, <1>5, RetriesStay, BannerStays DEF LogInv

LEMMA LogSwitches ==
  ASSUME LogInv, Log!SwitchTab \/ Log!HidePage \/ Log!ShowPage
  PROVE  LogInv' /\ (BannerSound => BannerSound')
<1>1. CASE Log!HidePage \/ (Log!SwitchTab /\ onAdmin)
  BY <1>1, LogCloses DEF Log!HidePage, Log!SwitchTab, Log!errVars, LogInv, LogTypes
<1>2. CASE Log!ShowPage \/ (Log!SwitchTab /\ ~onAdmin)
  <2>1. /\ UNCHANGED <<status, Log!logVars, retrying, banner>> /\ ~open
        /\ onAdmin' \in BOOLEAN /\ hidden' \in BOOLEAN
    BY <1>2 DEF Log!ShowPage, Log!SwitchTab, LogInv, LogTypes, OpenInView
  <2>2. CASE logRequests' = Log!WithFailed(logRequests) /\ failedRev' = Log!FailedRevNext
    <3>1. /\ logRequests' \subseteq LogCalls /\ failedRev' \in Int /\ RetryHeld' /\ (BannerSound => BannerSound')
          /\ \A r \in logRequests' : r.what \in {"list", "reveal"} => r \in logRequests
      BY <2>1, <2>2, BannerReloads
    <3> QED BY <2>1, <3>1
               DEF LogInv, LogTypes, OpenInView, NothingOpen, AskedAsIs, Log!NoSurprise, Log!logVars
  <2>3. CASE UNCHANGED <<logRequests, failedRev>>
    BY <2>1, <2>3, RetriesStay, BannerStays
       DEF LogInv, LogTypes, OpenInView, NothingOpen, AskedAsIs, Log!NoSurprise, Log!logVars
  <2> QED BY <1>2, <2>2, <2>3 DEF Log!ShowPage, Log!SwitchTab
<1> QED BY <1>1, <1>2

LEMMA LogFolds ==
  ASSUME LogInv, Log!FoldLog \/ Log!ToggleEvent
  PROVE  LogInv' /\ (BannerSound => BannerSound')
<1>1. CASE Log!FoldLog
  <2>1. /\ UNCHANGED <<status, onAdmin, hidden, logRevision, include, confirm, logList, Log!errVars,
                       logRequests>>
        /\ onAdmin /\ ~hidden /\ open' \in BOOLEAN /\ toggled' = TRUE
    BY <1>1 DEF Log!FoldLog, Log!AtAdmin
  <2> QED BY <2>1, RetriesStay, BannerStays
          DEF LogInv, LogTypes, OpenInView, NothingOpen, AskedAsIs, Log!NoSurprise, Log!errVars
<1>2. CASE Log!ToggleEvent
  <2>1. UNCHANGED <<status, onAdmin, hidden, open, Log!errVars>> /\ toggled' = FALSE
    BY <1>2 DEF Log!ToggleEvent
  <2>2. logRequests \in SUBSET LogCalls /\ include \in BOOLEAN /\ confirm \in BOOLEAN
    BY DEF LogInv, LogTypes
  <2>3. /\ logRequests' \subseteq LogCalls /\ logRevision' \in Int /\ logList' = {}
        /\ AskedAsIs' /\ Log!NoSurprise' /\ OthersOf(logRequests') = OthersOf(logRequests)
        /\ include' \in BOOLEAN /\ confirm' \in BOOLEAN /\ (~open => include' = FALSE /\ confirm' = FALSE)
    <3>1. CASE open
      BY <1>2, <2>2, <3>1, LogLoads DEF Log!ToggleEvent
    <3>2. CASE ~open
      BY <1>2, <2>2, <3>2, LogClears DEF Log!ToggleEvent
    <3> QED BY <3>1, <3>2
  <2> QED BY <2>1, <2>3, RetriesStay, BannerStays
          DEF LogInv, LogTypes, OpenInView, NothingOpen, Log!errVars
<1> QED BY <1>1, <1>2

\* What the owner does in the log that is open.
LEMMA LogRefreshes ==
  ASSUME LogInv, Log!RefreshLog \/ Log!ClickInclude \/ Log!KeepSurprises \/ Log!ShowUndelivered
  PROVE  LogInv' /\ (BannerSound => BannerSound')
<1>1. /\ UNCHANGED <<status, onAdmin, hidden, open, toggled, Log!errVars>> /\ open
      /\ onAdmin /\ ~hidden
  BY
     DEF Log!RefreshLog, Log!ClickInclude, Log!KeepSurprises, Log!ShowUndelivered, Log!InLog,
         Log!AtAdmin, LogInv, LogTypes
<1>2. logRequests \in SUBSET LogCalls /\ include \in BOOLEAN /\ confirm \in BOOLEAN
  BY DEF LogInv, LogTypes
<1>3. CASE UNCHANGED <<include, logRevision, logList, logRequests>> /\ confirm' \in BOOLEAN
  BY <1>1, <1>3, RetriesStay, BannerStays
     DEF LogInv, LogTypes, OpenInView, NothingOpen, AskedAsIs, Log!NoSurprise, Log!errVars
<1>4. ASSUME NEW included \in BOOLEAN, Log!LoadMessages(logRequests, included), include' = included,
             confirm' \in BOOLEAN
      PROVE  LogInv' /\ (BannerSound => BannerSound')
  <2>1. /\ logRequests' \subseteq LogCalls /\ logRevision' \in Int /\ logList' = {}
        /\ AskedAsIs' /\ Log!NoSurprise' /\ OthersOf(logRequests') = OthersOf(logRequests)
    BY <1>2, <1>4, LogLoads
  <2> QED BY <1>1, <1>4, <2>1, RetriesStay, BannerStays
          DEF LogInv, LogTypes, OpenInView, NothingOpen, Log!errVars
<1>5. CASE Log!RefreshLog
  BY <1>2, <1>4, <1>5 DEF Log!RefreshLog
<1>6. CASE Log!ClickInclude
  BY <1>2, <1>3, <1>4, <1>6 DEF Log!ClickInclude, Log!HideUndelivered, Log!SetScope
<1>7. CASE Log!KeepSurprises
  BY <1>3, <1>7 DEF Log!KeepSurprises
<1>8. CASE Log!ShowUndelivered
  BY <1>4, <1>8 DEF Log!ShowUndelivered, Log!SetScope
<1> QED BY <1>5, <1>6, <1>7, <1>8

LEMMA LogReveals ==
  ASSUME LogInv, Log!ClickReveal
  PROVE  LogInv' /\ (BannerSound => BannerSound')
<1>1. UNCHANGED <<status, onAdmin, hidden, open, toggled, logRevision, include, confirm, Log!errVars>> /\ open
  BY DEF Log!ClickReveal, Log!InLog
<1> PICK card \in logList :
       IF card.shown # {} THEN logList' = Log!With(card, {}, FALSE) /\ UNCHANGED logRequests
       ELSE /\ logList' = Log!With(card, {}, TRUE)
            /\ logRequests' = logRequests \cup {Log!Request("reveal", {card.msg}, include, logRevision)}
  BY DEF Log!ClickReveal
<1> DEFINE q == Log!Request("reveal", {card.msg}, include, logRevision)
           Hid(b) == [[card EXCEPT !.shown = {}] EXCEPT !.busy = b]
<1>2. card \in LogCards
  BY DEF LogInv, LogTypes
<1>3. \A b \in BOOLEAN : Hid(b) \in LogCards /\ Hid(b).status = card.status /\ Hid(b).shown = {}
  BY <1>2 DEF LogCards
<1>4. \A b : Log!With(card, {}, b) = (logList \ {card}) \cup {Hid(b)}
  BY DEF Log!With
<1>5. q \in LogCalls /\ q.what = "reveal" /\ q.include = include /\ q.revision = logRevision /\ q.gives = {}
  BY <1>2 DEF Log!Request, LogCalls, LogCards, LogInv, LogTypes
<1>6. logRequests' \in {logRequests, logRequests \cup {q}}
  OBVIOUS
<1>7. PICK b \in BOOLEAN : logList' = (logList \ {card}) \cup {Hid(b)}
  BY <1>4
<1> HIDE DEF q, Hid
<1>8. OthersOf(logRequests') = OthersOf(logRequests)
  BY <1>5, <1>6 DEF OthersOf
<1>9. LogTypes' /\ Log!NoSurprise'
  BY <1>1, <1>3, <1>5, <1>6, <1>7 DEF LogInv, LogTypes, Log!NoSurprise, Log!errVars
<1>10. AskedAsIs' /\ OpenInView' /\ NothingOpen'
  BY <1>1, <1>5, <1>6 DEF LogInv, AskedAsIs, OpenInView, NothingOpen
<1> QED BY <1>1, <1>8, <1>9, <1>10, RetriesStay, BannerStays DEF LogInv, Log!errVars

LEMMA LogRetries ==
  ASSUME LogInv, Log!RefreshFailed \/ Log!ClickRetry
  PROVE  LogInv' /\ (BannerSound => BannerSound')
<1>1. UNCHANGED <<status, onAdmin, hidden, Log!logVars, banner>>
  BY DEF Log!RefreshFailed, Log!ClickRetry
<1>2. CASE Log!RefreshFailed
  <2>1. /\ logRequests' \subseteq LogCalls /\ failedRev' \in Int /\ RetryHeld' /\ (BannerSound => BannerSound')
        /\ \A r \in logRequests' : r.what \in {"list", "reveal"} => r \in logRequests
    BY <1>1, <1>2, BannerReloads DEF Log!RefreshFailed
  <2> QED BY <1>1, <1>2, <2>1
          DEF Log!RefreshFailed, LogInv, LogTypes, OpenInView, NothingOpen, AskedAsIs, Log!NoSurprise,
                 Log!logVars
<1>3. CASE Log!ClickRetry
  <2>0. PICK m \in banner \cup {card.msg : card \in {c \in logList : open /\ c.status = "failed"}} :
         /\ Log!MayRetry(m) /\ retrying' = {m} /\ failedRev' = failedRev + 1
         /\ logRequests' = logRequests \cup {Log!Request("retry", {m}, FALSE, 0)}
    BY <1>3 DEF Log!ClickRetry
  <2> DEFINE q == Log!Request("retry", {m}, FALSE, 0)
  <2>1. m \in Message
    BY <2>0 DEF LogInv, LogTypes, LogCards
  <2>2. q \in LogCalls /\ q.what = "retry"
    BY <2>1 DEF Log!Request, LogCalls
  <2>3. /\ retrying = {} /\ retrying' = {m} /\ retrying' # {}
        /\ logRequests' = logRequests \cup {q} /\ failedRev' = failedRev + 1 /\ failedRev \in Int
    BY <2>0 DEF Log!MayRetry, LogInv, LogTypes
  <2> HIDE DEF q
  <2>9. LogTypes'
    BY <1>1, <2>1, <2>2, <2>3 DEF LogInv, LogTypes, Log!logVars
  <2>4. OpenInView' /\ NothingOpen' /\ AskedAsIs' /\ Log!NoSurprise'
    BY <1>1, <2>2, <2>3 DEF LogInv, OpenInView, NothingOpen, AskedAsIs, Log!NoSurprise, Log!logVars
  <2>5. RetryHeld'
    BY <2>2, <2>3 DEF LogInv, RetryHeld
  <2>6. \A r \in logRequests : r.revision \in Int
    BY DEF LogInv, LogTypes, LogCalls
  <2>7. RetryOut'
    BY <2>2, <2>3 DEF RetryOut
  <2>8. ASSUME BannerSound PROVE BannerSound'
    BY <1>1, <2>2, <2>3, <2>6, <2>7, <2>8 DEF BannerSound
  <2> QED BY <2>4, <2>5, <2>8, <2>9 DEF LogInv
<1> QED BY <1>2, <1>3

\* An answer is read, and is not in flight any more.
LEMMA LogListed ==
  ASSUME LogInv, Log!AnswerList
  PROVE  LogInv' /\ (BannerSound => BannerSound')
<1>1. UNCHANGED <<status, logClicks, onAdmin, hidden, open, toggled, logRevision, include, confirm,
                  Log!errVars>>
  BY DEF Log!AnswerList
<1>2. PICK r \in logRequests :
        /\ r.what = "list" /\ logRequests' = logRequests \ {r}
        /\ logList' = IF r.ok /\ Log!PrintLogIsCurrent(r.revision)
                      THEN {[msg |-> row.msg, status |-> row.status, revision |-> r.revision,
                             shown |-> {}, busy |-> FALSE] : row \in r.gives}
                      ELSE logList
  BY DEF Log!AnswerList, Log!Answered
<1>3. OthersOf(logRequests') = OthersOf(logRequests) /\ logRequests' \subseteq logRequests
  BY <1>2 DEF OthersOf
<1>4. ASSUME logList' # logList
      PROVE  /\ open /\ \A card \in logList' :
                  /\ card \in LogCards /\ (~include => card.status \in Log!Delivered) /\ card.shown = {}
  <2>1. open
    BY <1>2, <1>4 DEF Log!PrintLogIsCurrent
  <2>2. r.gives \subseteq LogEntries /\ r.revision \in Int
    BY DEF LogInv, LogTypes, LogCalls
  <2>3. ~include => \A row \in r.gives : row.status \in Log!Delivered
    BY <1>2 DEF LogInv, AskedAsIs
  <2>4. ASSUME NEW card \in logList' PROVE \E row \in r.gives :
          card = [msg |-> row.msg, status |-> row.status, revision |-> r.revision, shown |-> {}, busy |-> FALSE]
    BY <1>2, <1>4
  <2>5. ASSUME NEW row \in r.gives
        PROVE  [msg |-> row.msg, status |-> row.status, revision |-> r.revision,
                shown |-> {}, busy |-> FALSE] \in LogCards
    BY <2>2 DEF LogEntries, LogCards
  <2>6. ASSUME NEW card \in logList'
        PROVE  card \in LogCards /\ (~include => card.status \in Log!Delivered) /\ card.shown = {}
    <3> PICK row \in r.gives :
          card = [msg |-> row.msg, status |-> row.status, revision |-> r.revision, shown |-> {}, busy |-> FALSE]
      BY <2>4
    <3> QED BY <2>3, <2>5
  <2> QED BY <2>1, <2>6
<1>5. LogTypes'
  BY <1>1, <1>3, <1>4 DEF LogInv, LogTypes, Log!errVars
<1>6. Log!NoSurprise' /\ NothingOpen'
  BY <1>1, <1>4 DEF LogInv, Log!NoSurprise, NothingOpen
<1>7. AskedAsIs' /\ OpenInView'
  BY <1>1, <1>3 DEF LogInv, AskedAsIs, OpenInView
<1> QED BY <1>1, <1>3, <1>5, <1>6, <1>7, RetriesStay, BannerStays DEF LogInv, Log!errVars

LEMMA LogRevealed ==
  ASSUME LogInv, Log!AnswerReveal
  PROVE  LogInv' /\ (BannerSound => BannerSound')
<1>1. UNCHANGED <<status, logClicks, onAdmin, hidden, open, toggled, logRevision, include, confirm,
                  Log!errVars>>
  BY DEF Log!AnswerReveal
<1> DEFINE Put(card, r) == [[card EXCEPT !.busy = FALSE] EXCEPT
                              !.shown = IF Log!PrintLogIsCurrent(r.revision) THEN r.gives ELSE card.shown]
<1>2. PICK r \in logRequests :
        /\ r.what = "reveal" /\ logRequests' = logRequests \ {r}
        /\ logList' = {IF card.msg \in r.msg /\ card.revision = r.revision THEN Put(card, r) ELSE card :
                         card \in logList}
  BY DEF Log!AnswerReveal, Log!Answered
<1>3. OthersOf(logRequests') = OthersOf(logRequests) /\ logRequests' \subseteq logRequests
  BY <1>2 DEF OthersOf
<1>4. r.gives \subseteq LogEntries /\ (~include => \A row \in r.gives : row.status \in Log!Delivered)
  BY <1>2 DEF LogInv, LogTypes, LogCalls, AskedAsIs
<1>5. ASSUME NEW card \in logList
      PROVE  /\ Put(card, r) \in LogCards /\ Put(card, r).status = card.status
             /\ Put(card, r).shown \in {r.gives, card.shown}
  BY <1>4 DEF LogInv, LogTypes, LogCards
<1>6. ASSUME NEW card \in logList'
      PROVE  /\ card \in LogCards
             /\ ~include => /\ card.status \in Log!Delivered
                            /\ \A row \in card.shown : row.status \in Log!Delivered
  <2>1. PICK old \in logList : card = old \/ card = Put(old, r)
    BY <1>2
  <2>2. ~include => old.status \in Log!Delivered /\ \A row \in old.shown : row.status \in Log!Delivered
    BY DEF LogInv, Log!NoSurprise
  <2>3. old \in LogCards
    BY DEF LogInv, LogTypes
  <2> HIDE DEF Put
  <2> QED BY <1>4, <1>5, <2>1, <2>2, <2>3
<1>7. logList = {} => logList' = {}
  BY <1>2
<1>8. LogTypes'
  BY <1>1, <1>3, <1>6 DEF LogInv, LogTypes, Log!errVars
<1>9. Log!NoSurprise' /\ NothingOpen' /\ AskedAsIs' /\ OpenInView'
  BY <1>1, <1>3, <1>6, <1>7 DEF LogInv, Log!NoSurprise, NothingOpen, AskedAsIs, OpenInView
<1> QED BY <1>1, <1>3, <1>8, <1>9, RetriesStay, BannerStays DEF LogInv, Log!errVars

\* The banner takes the newest answer.
LEMMA LogNamed ==
  ASSUME LogInv, Log!AnswerFailed
  PROVE  LogInv' /\ (BannerSound => BannerSound')
<1>1. UNCHANGED <<status, logClicks, onAdmin, hidden, Log!logVars, failedRev, retrying>>
  BY DEF Log!AnswerFailed
<1>2. PICK r \in logRequests :
        /\ r.what = "failed" /\ r.done /\ logRequests' = logRequests \ {r}
        /\ banner' = IF r.ok /\ Log!IsNewest(r.revision) THEN {row.msg : row \in r.gives} ELSE banner
  BY DEF Log!AnswerFailed, Log!Answered
<1>3. LogTypes'
  <2>1. r.gives \subseteq LogEntries
    BY DEF LogInv, LogTypes, LogCalls
  <2>2. banner' \in SUBSET Message
    BY <1>2, <2>1 DEF LogInv, LogTypes, LogEntries
  <2> QED BY <1>1, <1>2, <2>2 DEF LogInv, LogTypes, Log!logVars
<1>4. OpenInView' /\ NothingOpen' /\ AskedAsIs' /\ Log!NoSurprise' /\ RetryHeld'
  BY <1>1, <1>2 DEF LogInv, OpenInView, NothingOpen, AskedAsIs, Log!NoSurprise, RetryHeld, Log!logVars
<1>5. ASSUME BannerSound PROVE BannerSound'
  <2>1. RetryOut' <=> RetryOut
    BY <1>2 DEF RetryOut
  <2>2. ASSUME NEW m \in banner' PROVE status'[m] = "failed" \/ RetryOut' \/ ReloadOut'
    <3>1. CASE r.ok /\ Log!IsNewest(r.revision)
      <4>1. \E row \in r.gives : m = row.msg
        BY <1>2, <2>2, <3>1
      <4> QED BY <1>1, <1>2, <1>5, <2>1, <3>1, <4>1 DEF BannerSound, Log!IsNewest
    <3>2. CASE ~(r.ok /\ Log!IsNewest(r.revision))
      <4>1. ReloadOut => ReloadOut'
        BY <1>1, <1>2, <3>2 DEF ReloadOut, Log!IsNewest
      <4> QED BY <1>1, <1>2, <1>5, <2>1, <2>2, <3>2, <4>1 DEF BannerSound
    <3> QED BY <3>1, <3>2
  <2> QED BY <1>1, <1>2, <1>5, <2>1, <2>2 DEF BannerSound
<1> QED BY <1>3, <1>4, <1>5 DEF LogInv

\* A retry ends, and the banner is asked for once more.
LEMMA LogRetried ==
  ASSUME LogInv, Log!AnswerRetry
  PROVE  LogInv' /\ (BannerSound => BannerSound')
<1>1. UNCHANGED <<status, logClicks, onAdmin, hidden, open, toggled, include, confirm, banner>>
  BY DEF Log!AnswerRetry
<1> DEFINE q == Log!Request("failed", {}, FALSE, failedRev + 1)
           Rest(r) == (logRequests \ {r}) \cup {q}
<1>2. PICK r \in logRequests :
        /\ r.what = "retry" /\ retrying' = {} /\ failedRev' = failedRev + 1
        /\ IF Log!PrintLogIsCurrent(logRevision) THEN Log!LoadMessages(Rest(r), include)
           ELSE logRequests' = Rest(r) /\ UNCHANGED <<logRevision, logList>>
  BY DEF Log!AnswerRetry, Log!Answered
<1>3. failedRev \in Int /\ include \in BOOLEAN /\ logRequests \subseteq LogCalls
  BY DEF LogInv, LogTypes
<1>4. q \in LogCalls /\ q.what = "failed" /\ q.revision = failedRev + 1 /\ ~q.done /\ ~q.ok
  BY <1>3 DEF Log!Request, LogCalls
<1> HIDE DEF q
<1>5. Rest(r) \in SUBSET LogCalls
  BY <1>3, <1>4
<1>6. /\ logRequests' \subseteq LogCalls /\ logRevision' \in Int /\ logList' \subseteq LogCards
      /\ AskedAsIs' /\ Log!NoSurprise' /\ OthersOf(logRequests') = OthersOf(Rest(r))
      /\ (logList = {} => logList' = {})
  <2>1. CASE Log!PrintLogIsCurrent(logRevision)
    BY <1>1, <1>2, <1>3, <1>5, <2>1, LogLoads
  <2>2. CASE ~Log!PrintLogIsCurrent(logRevision)
    BY <1>1, <1>2, <1>3, <1>4, <1>5, <2>2 DEF LogInv, LogTypes, AskedAsIs, Log!NoSurprise
  <2> QED BY <2>1, <2>2
<1>7. \A s : s.what \in {"retry", "failed"} => (s \in logRequests' <=> s \in Rest(r))
  BY <1>6 DEF OthersOf
<1>8. LogTypes' /\ OpenInView' /\ NothingOpen'
  BY <1>1, <1>2, <1>3, <1>6 DEF LogInv, LogTypes, OpenInView, NothingOpen
<1>9. RetryHeld'
  BY <1>2, <1>4, <1>7 DEF LogInv, RetryHeld
<1>10. \A s \in logRequests : s.revision \in Int
  BY DEF LogInv, LogTypes, LogCalls
<1>11. ReloadOut'
  BY <1>2, <1>4, <1>7 DEF ReloadOut
<1>12. ASSUME BannerSound PROVE BannerSound'
  BY <1>1, <1>2, <1>3, <1>4, <1>7, <1>10, <1>11, <1>12 DEF BannerSound
<1> QED BY <1>6, <1>8, <1>9, <1>12 DEF LogInv

LEMMA LogSteps ==
  ASSUME LogInv, [Log!Next]_(Log!vars)
  PROVE  LogInv'
<1>1. CASE Log!Quiet \/ UNCHANGED Log!vars
  BY <1>1
     DEF Log!Quiet, Log!vars, LogInv, LogTypes, OpenInView, NothingOpen, AskedAsIs, Log!NoSurprise,
         RetryHeld, Log!logVars, Log!errVars
<1>2. CASE Log!RowMoves
  BY <1>2, LogRows
<1> QED BY <1>1, <1>2, LogServes, LogSwitches, LogFolds, LogRefreshes, LogReveals, LogRetries,
           LogListed, LogRevealed, LogNamed, LogRetried DEF Log!Next

LEMMA BannerSteps ==
  ASSUME LogInv, BannerSound, "failed" \notin Failing, [Log!Next]_(Log!vars)
  PROVE  BannerSound'
<1>1. CASE Log!Quiet \/ UNCHANGED Log!vars
  BY <1>1 DEF Log!Quiet, Log!vars, BannerSound, RetryOut, ReloadOut, Log!logVars, Log!errVars
<1> QED BY <1>1, LogRows, BannerServes, LogSwitches, LogFolds, LogRefreshes, LogReveals, LogRetries,
           LogListed, LogRevealed, LogNamed, LogRetried DEF Log!Next

-----------------------------------------------------------------------------
(* The arcade tab                                                          *)

\* A puzzle's picture is that of its token, its QR code with the address it was made under.
Pictured(tok) == [seed |-> tok.seed, width |-> tok.width, qr |-> <<tok.tag, tok>>]
Made(puzzles)   == \A p \in puzzles : p.picture = Pictured(p.token)

PuzzlesMade ==
  /\ Made(arcade)
  /\ \A r \in arcadeRequests : Made(r.puzzle) /\ Made(r.gives)

ReceiptsMade == \A p \in printed : p.picture = p.shown /\ p.picture = Pictured(p.picture.qr[2])

ArcadeInv == PuzzlesMade /\ ReceiptsMade /\ Arcade!ReadyIsCurrent

LEMMA ArcadeInits == Arcade!Init => ArcadeInv
  BY DEF Arcade!Init, ArcadeInv, PuzzlesMade, Made, ReceiptsMade, Arcade!ReadyIsCurrent

LEMMA PicturedOf ==
  ASSUME NEW tok
  PROVE  Pictured(tok).seed = tok.seed /\ Pictured(tok).qr[2] = tok
  BY DEF Pictured

LEMMA ArcadeIsSound ==
  ArcadeInv => Arcade!PrintsWhatWasShown /\ Arcade!ReceiptsKeepSolutions /\ Arcade!ReadyIsCurrent
<1> SUFFICES ASSUME ArcadeInv, NEW p \in printed, p.picture.qr[2].key = key
             PROVE  Arcade!Solution(p.picture.qr[2]) = {p.picture.seed}
  BY DEF ArcadeInv, ReceiptsMade, Arcade!PrintsWhatWasShown, Arcade!ReceiptsKeepSolutions
<1> DEFINE tok == p.picture.qr[2]
<1>1. p.picture = Pictured(tok)
  BY DEF ArcadeInv, ReceiptsMade
<1>2. p.picture.seed = tok.seed
  BY <1>1, PicturedOf
<1> QED BY <1>2 DEF Arcade!Solution

\* Requests are answered, and what they carry stays.
LEMMA ArcadeAnswers ==
  ASSUME PuzzlesMade, NEW r \in arcadeRequests, NEW answer, NEW gives, Made(gives),
         Arcade!Answer(r, answer, gives),
         UNCHANGED arcade
  PROVE  PuzzlesMade'
<1> DEFINE q == [[r EXCEPT !.answer = answer] EXCEPT !.gives = gives]
<1>1. arcadeRequests' = (arcadeRequests \ {r}) \cup {q}
  BY DEF Arcade!Answer
<1>2. q.puzzle = r.puzzle /\ (q.gives = gives \/ q.gives = r.gives)
  OBVIOUS
<1> HIDE DEF q
<1> QED BY <1>1, <1>2 DEF PuzzlesMade, Made

LEMMA ArcadeServes ==
  ASSUME ArcadeInv, Arcade!ServeNew \/ Arcade!ServePrint \/ Arcade!ServeCompose
  PROVE  ArcadeInv'
<1>1. UNCHANGED <<Arcade!server, Arcade!preview, arcadePane, arcade>>
  BY DEF Arcade!ServeNew, Arcade!ServePrint, Arcade!ServeCompose
<1>2. Arcade!ReadyIsCurrent'
  BY <1>1 DEF ArcadeInv, Arcade!ReadyIsCurrent, Arcade!preview
<1>3. CASE Arcade!ServeNew
  <2> DEFINE puzzle == [token |-> Arcade!Token, picture |-> Arcade!Picture(Arcade!Token)]
  <2> PICK r \in arcadeRequests : Arcade!Answer(r, "ok", {puzzle})
    BY <1>3 DEF Arcade!ServeNew, Arcade!Waiting
  <2>1. Arcade!Token.seed = made /\ Arcade!Token.width = width /\ Arcade!Token.tag = base
    BY DEF Arcade!Token
  <2>2. Arcade!Picture(Arcade!Token) = Pictured(Arcade!Token)
    BY <2>1 DEF Arcade!Picture, Pictured
  <2>3. Made({puzzle})
    BY <2>2 DEF Made
  <2>4. PuzzlesMade'
    BY <1>1, <2>3, ArcadeAnswers DEF ArcadeInv
  <2> QED BY <1>2, <1>3, <2>4 DEF Arcade!ServeNew, ArcadeInv, ReceiptsMade
<1>4. CASE Arcade!ServePrint
  <2> PICK r \in arcadeRequests :
         \/ Arcade!Answer(r, "error", {}) /\ UNCHANGED printed
         \/ \E puzzle \in r.puzzle :
              /\ Arcade!Printable(puzzle.token) /\ Arcade!Answer(r, "ok", {})
              /\ printed' = printed \cup {[picture |-> Arcade!Picture(puzzle.token), shown |-> puzzle.picture]}
    BY <1>4 DEF Arcade!ServePrint, Arcade!Waiting
  <2>1. Made({})
    BY DEF Made
  <2>2. PuzzlesMade'
    BY <1>1, <2>1, ArcadeAnswers DEF ArcadeInv
  <2>3. ASSUME NEW puzzle \in r.puzzle, Arcade!Printable(puzzle.token)
        PROVE  /\ Arcade!Picture(puzzle.token) = puzzle.picture
               /\ puzzle.picture = Pictured(puzzle.picture.qr[2])
    <3>1. puzzle.picture = Pictured(puzzle.token)
      BY DEF ArcadeInv, PuzzlesMade, Made
    <3>2. Arcade!Picture(puzzle.token) = Pictured(puzzle.token)
      BY <2>3 DEF Arcade!Printable, Arcade!Picture, Pictured
    <3>3. puzzle.picture.qr[2] = puzzle.token
      BY <3>1, PicturedOf
    <3> QED BY <3>1, <3>2, <3>3
  <2>4. ReceiptsMade'
    <3>1. CASE UNCHANGED printed
      BY <3>1 DEF ArcadeInv, ReceiptsMade
    <3>2. ASSUME NEW puzzle \in r.puzzle, Arcade!Printable(puzzle.token),
                 printed' = printed \cup {[picture |-> Arcade!Picture(puzzle.token), shown |-> puzzle.picture]}
          PROVE  ReceiptsMade'
      <4> DEFINE p == [picture |-> Arcade!Picture(puzzle.token), shown |-> puzzle.picture]
      <4>1. p.picture = p.shown /\ p.picture = Pictured(p.picture.qr[2])
        BY <2>3, <3>2
      <4>2. printed' = printed \cup {p}
        BY <3>2
      <4> HIDE DEF p
      <4> QED BY <4>1, <4>2 DEF ArcadeInv, ReceiptsMade
    <3> QED BY <3>1, <3>2
  <2> QED BY <1>2, <2>2, <2>4 DEF ArcadeInv
<1>5. CASE Arcade!ServeCompose
  <2>1. Made({})
    BY DEF Made
  <2>2. PuzzlesMade'
    BY <1>1, <1>5, <2>1, ArcadeAnswers DEF ArcadeInv, Arcade!ServeCompose, Arcade!Waiting
  <2> QED BY <1>2, <1>5, <2>2 DEF Arcade!ServeCompose, ArcadeInv, ReceiptsMade
<1> QED BY <1>3, <1>4, <1>5

\* The tab: what is under way there stays as it was made.
LEMMA ArcadeClicks ==
  ASSUME ArcadeInv, Arcade!ChooseKind \/ Arcade!ClickNew \/ Arcade!ClickPrint
  PROVE  ArcadeInv'
<1>1. ReceiptsMade'
  BY DEF ArcadeInv, ReceiptsMade, Arcade!ChooseKind, Arcade!ClickNew, Arcade!ClickPrint
<1>2. CASE Arcade!ChooseKind
  BY <1>1, <1>2
     DEF Arcade!ChooseKind, Arcade!ShowArcade, ArcadeInv, PuzzlesMade, Made, Arcade!ReadyIsCurrent
<1>3. CASE Arcade!ClickNew
  <2> DEFINE q == [what |-> "new", puzzle |-> {}, seq |-> 0, answer |-> Arcade!None, gives |-> {}]
  <2>1. arcadeRequests' = arcadeRequests \cup {q} /\ arcade' = {} /\ arcadePane = "arcade"
        /\ arcadePane' = arcadePane /\ arcadeShows' # "ready"
    BY <1>3 DEF Arcade!ClickNew, Arcade!Send, Arcade!ShowArcade
  <2>2. Made(q.puzzle) /\ Made(q.gives)
    BY DEF Made
  <2> HIDE DEF q
  <2> QED BY <1>1, <2>1, <2>2 DEF ArcadeInv, PuzzlesMade, Made, Arcade!ReadyIsCurrent
<1>4. CASE Arcade!ClickPrint
  <2> DEFINE q == [what |-> "print", puzzle |-> arcade, seq |-> 0, answer |-> Arcade!None, gives |-> {}]
  <2>1. arcadeRequests' = arcadeRequests \cup {q} /\ UNCHANGED <<arcade, arcadePane, Arcade!preview>>
    BY <1>4 DEF Arcade!ClickPrint, Arcade!Send
  <2>2. Made(q.puzzle) /\ Made(q.gives)
    BY DEF Made, ArcadeInv, PuzzlesMade
  <2> HIDE DEF q
  <2> QED BY <1>1, <2>1, <2>2 DEF ArcadeInv, PuzzlesMade, Made, Arcade!ReadyIsCurrent, Arcade!preview
<1> QED BY <1>2, <1>3, <1>4

LEMMA ArcadeDelivers ==
  ASSUME ArcadeInv, Arcade!AnswerNew \/ Arcade!AnswerPrint \/ Arcade!AnswerCompose
  PROVE  ArcadeInv'
<1>1. ReceiptsMade'
  BY DEF ArcadeInv, ReceiptsMade, Arcade!AnswerNew, Arcade!AnswerPrint, Arcade!AnswerCompose
<1>2. CASE Arcade!AnswerNew
  <2> PICK r \in arcadeRequests : /\ arcadeRequests' = arcadeRequests \ {r} /\ arcade' = r.gives
                                  /\ Arcade!ShowArcade(arcade', Arcade!None, arcadePane)
                                  /\ arcadePane' = arcadePane
    BY <1>2 DEF Arcade!AnswerNew, Arcade!Answered
  <2>1. PuzzlesMade'
    BY DEF ArcadeInv, PuzzlesMade
  <2>2. Arcade!ReadyIsCurrent'
    BY DEF ArcadeInv, Arcade!ReadyIsCurrent, Arcade!ShowArcade, Arcade!preview
  <2> QED BY <1>1, <2>1, <2>2 DEF ArcadeInv
<1>3. CASE Arcade!AnswerPrint
  BY <1>1, <1>3
     DEF Arcade!AnswerPrint, Arcade!Answered, ArcadeInv, PuzzlesMade, Arcade!ReadyIsCurrent,
         Arcade!preview
<1>4. CASE Arcade!AnswerCompose
  BY <1>1, <1>4
     DEF Arcade!AnswerCompose, Arcade!Answered, ArcadeInv, PuzzlesMade, Arcade!ReadyIsCurrent,
         Arcade!preview, Arcade!IsCurrent
<1> QED BY <1>2, <1>3, <1>4

LEMMA ArcadeSwitches == ASSUME ArcadeInv, Arcade!Switch PROVE ArcadeInv'
<1>1. ReceiptsMade'
  BY DEF ArcadeInv, ReceiptsMade, Arcade!Switch
<1> DEFINE q == [what |-> "compose", puzzle |-> {}, seq |-> arcadeSeq + 2, answer |-> Arcade!None, gives |-> {}]
<1>2. Made(q.puzzle) /\ Made(q.gives)
  BY DEF Made
<1>3. arcadeRequests' = arcadeRequests \/ arcadeRequests' = arcadeRequests \cup {q}
  BY DEF Arcade!Switch, Arcade!Send
<1>4. arcade' = arcade
  BY DEF Arcade!Switch
<1> HIDE DEF q
<1>5. PuzzlesMade'
  BY <1>2, <1>3, <1>4 DEF ArcadeInv, PuzzlesMade
<1>6. Arcade!ReadyIsCurrent'
  BY <1>4 DEF Arcade!Switch, Arcade!ReadyIsCurrent
<1> QED BY <1>1, <1>5, <1>6 DEF ArcadeInv

LEMMA ArcadeRestarts == ASSUME ArcadeInv, Arcade!Restart PROVE ArcadeInv'
<1>1. ASSUME NEW q \in arcadeRequests'
      PROVE  \E r \in arcadeRequests : q.puzzle = r.puzzle /\ q.gives = r.gives
  <2> PICK r \in arcadeRequests : q = IF r.answer = Arcade!None THEN [r EXCEPT !.answer = "error"] ELSE r
    BY <1>1 DEF Arcade!Restart
  <2> QED OBVIOUS
<1>2. PuzzlesMade'
  BY <1>1 DEF Arcade!Restart, ArcadeInv, PuzzlesMade
<1> QED BY <1>2 DEF Arcade!Restart, ArcadeInv, ReceiptsMade, Arcade!ReadyIsCurrent, Arcade!preview

LEMMA ArcadeSteps == ASSUME ArcadeInv, [Arcade!Next]_(Arcade!vars) PROVE ArcadeInv'
<1>1. CASE Arcade!Idle \/ UNCHANGED Arcade!vars
  BY <1>1
     DEF Arcade!Idle, Arcade!vars, ArcadeInv, PuzzlesMade, ReceiptsMade, Arcade!ReadyIsCurrent,
         Arcade!preview
<1> QED BY <1>1, ArcadeServes, ArcadeClicks, ArcadeDelivers, ArcadeSwitches, ArcadeRestarts
           DEF Arcade!Next

-----------------------------------------------------------------------------
(* One part moves, and the others stay                                      *)

LEMMA PartsMove ==
  ASSUME [PagesNext]_pagesVars
  PROVE  /\ part' = part
         /\ Page!Next \/ UNCHANGED pageVars
         /\ Composer!Next \/ UNCHANGED writingVars
         /\ History!Next \/ UNCHANGED historyVars
         /\ Booth!Next \/ UNCHANGED photoVars
         /\ Canvas!Next \/ UNCHANGED canvasVars
         /\ part = "auto" => Panel(AutoCard)!Next \/ UNCHANGED consoleVars
         /\ part = "tools" => Panel(ToolCard)!Next \/ UNCHANGED consoleVars
         /\ Log!Next \/ UNCHANGED logVars
         /\ Arcade!Next \/ UNCHANGED arcadeVars
  BY DEF PagesNext, OthersStay, pagesVars

\* The pending card's poll runs under it and no other: setPendingPolling is called
\* wherever the page turns.
THEOREM PendingPolls == PagesSpec => []PollsWhilePending
<1>1. PagesInit => Page!PollsWhilePending
  BY PageInits DEF PagesInit
<1>2. Page!PollsWhilePending /\ [PagesNext]_pagesVars => Page!PollsWhilePending'
  BY PartsMove, PageSteps DEF pageVars, Page!vars, Page!server, Page!browser
<1> QED BY <1>1, <1>2, PTL DEF PagesSpec, PollsWhilePending

\* updatePreview of friends.js: whatever is typed while previews are on their way.
THEOREM WritingStaysCurrent == PagesSpec => []WritingIsCurrent
<1>1. PagesInit => WritingInv
  BY WritingInits DEF PagesInit
<1>2. WritingInv /\ [PagesNext]_pagesVars => WritingInv'
  BY PartsMove, WritingSteps, PagesAssumption DEF writingVars, Composer!vars
<1>3. WritingInv => WritingIsCurrent
  BY WritingIsSound DEF WritingIsCurrent
<1> QED BY <1>1, <1>2, <1>3, PTL DEF PagesSpec

\* list_messages_for_user: a capsule that waits is on the page, however many rows
\* there are, as long as the cap on waiting capsules is within the page's limit.
THEOREM CapsulesAreListed == PagesSpec => []CapsulesListed
<1>1. PagesInit => HistoryInv
  BY HistoryInits, PagesAssumption DEF PagesInit
<1>2. HistoryInv /\ [PagesNext]_pagesVars => HistoryInv'
  BY PartsMove, HistorySteps, PagesAssumption DEF historyVars, History!vars, History!server, History!page
<1>3. HistoryInv => CapsulesListed
  BY HistoryIsSound, PagesAssumption DEF CapsulesListed
<1> QED BY <1>1, <1>2, <1>3, PTL DEF PagesSpec

\* photo.js: what was sent was on view, and what is on view is the editor's.
THEOREM StripsWereShown == PagesSpec => []StripWasShown
<1>1. PagesInit => StripInv
  BY StripInits, PagesAssumption DEF PagesInit
<1>2. StripInv /\ [PagesNext]_pagesVars => StripInv'
  BY PartsMove, StripSteps, PagesAssumption DEF photoVars, Booth!vars, Booth!editor
<1>3. StripInv => StripWasShown
  BY StripIsSound DEF StripWasShown
<1> QED BY <1>1, <1>2, <1>3, PTL DEF PagesSpec

\* commitDoodleAction and renderDoodleHistory: undo is sound for drawings of any length.
THEOREM UndoStaysSound == PagesSpec => []UndoSound
<1>1. PagesInit => CanvasInv
  BY CanvasInits, PagesAssumption DEF PagesInit
<1>2. CanvasInv /\ [PagesNext]_pagesVars => CanvasInv'
  BY PartsMove, CanvasSteps, PagesAssumption DEF canvasVars, Canvas!vars, Canvas!drawing
<1>3. CanvasInv => UndoSound
  BY DrawingIsSound, PagesAssumption DEF UndoSound, CanvasInv
<1> QED BY <1>1, <1>2, <1>3, PTL DEF PagesSpec

\* The panel of the part at hand, with that part's cards.
PanelsInv ==
  /\ part \in Parts
  /\ part = "auto" => PanelInv(AutoCard)
  /\ part = "tools" => PanelInv(ToolCard)

LEMMA PanelStays ==
  ASSUME NEW C, Panel(C)!PreviewAssumption, PanelInv(C), UNCHANGED consoleVars
  PROVE  PanelInv(C)'
<1>1. [Panel(C)!Next]_(Panel(C)!vars)
  BY DEF consoleVars, Panel!vars, Panel!asking, Panel!clock
<1> QED BY <1>1, PanelSteps

\* previewIsCurrent: whatever is typed, clicked, switched and answered in whatever
\* order, a finished preview is of the card as it is.
THEOREM PanelStaysCurrent == PagesSpec => []PanelIsCurrent
<1>1. PagesInit => PanelsInv
  BY PanelInits, PagesAssumption DEF PagesInit, PanelsInv
<1>2. PanelsInv /\ [PagesNext]_pagesVars => PanelsInv'
  <2> SUFFICES ASSUME PanelsInv, [PagesNext]_pagesVars PROVE PanelsInv'
    OBVIOUS
  <2>1. part' = part
    BY PartsMove
  <2>2. ASSUME part = "auto" PROVE PanelInv(AutoCard)'
    <3>1. PanelInv(AutoCard) /\ Panel(AutoCard)!PreviewAssumption
      BY <2>2, PagesAssumption DEF PanelsInv
    <3>2. Panel(AutoCard)!Next \/ UNCHANGED consoleVars
      BY <2>2, PartsMove
    <3> QED BY <3>1, <3>2, PanelSteps, PanelStays
  <2>3. ASSUME part = "tools" PROVE PanelInv(ToolCard)'
    <3>1. PanelInv(ToolCard) /\ Panel(ToolCard)!PreviewAssumption
      BY <2>3, PagesAssumption DEF PanelsInv
    <3>2. Panel(ToolCard)!Next \/ UNCHANGED consoleVars
      BY <2>3, PartsMove
    <3> QED BY <3>1, <3>2, PanelSteps, PanelStays
  <2> QED BY <2>1, <2>2, <2>3 DEF PanelsInv
<1>3. PanelsInv => PanelIsCurrent
  BY PanelIsSound, PagesAssumption DEF PanelsInv, PanelIsCurrent
<1> QED BY <1>1, <1>2, <1>3, PTL DEF PagesSpec

\* The print log: what is revealed is never left behind, nothing undelivered is on
\* view without consent, and one retry moves paper, whichever requests are lost.
THEOREM LogKeepsSurprises == PagesSpec => [](Log!NothingBehind /\ Log!NoSurprise /\ Log!OneRetry)
<1>1. PagesInit => LogInv
  BY LogInits DEF PagesInit
<1>2. LogInv /\ [PagesNext]_pagesVars => LogInv'
  BY PartsMove, LogSteps DEF logVars, Log!vars, Log!logVars, Log!errVars
<1>3. LogInv => Log!NothingBehind /\ Log!NoSurprise /\ Log!OneRetry
  BY LogIsSound
<1> QED BY <1>1, <1>2, <1>3, PTL DEF PagesSpec

\* The whole of it, with the banner, where the listing of failed prints is not lost:
\* a lost one leaves the banner as it was, and nothing asks again.
THEOREM LogStaysHonest ==
  ASSUME "failed" \notin Failing
  PROVE  PagesSpec => []LogHonest
<1>1. PagesInit => LogInv /\ BannerSound
  BY LogInits DEF PagesInit
<1>2. LogInv /\ BannerSound /\ [PagesNext]_pagesVars => (LogInv /\ BannerSound)'
  BY PartsMove, LogSteps, BannerSteps DEF logVars, Log!vars, Log!logVars, Log!errVars
<1>3. LogInv /\ BannerSound => LogHonest
  BY LogIsSound, BannerIsHonest DEF LogHonest
<1> QED BY <1>1, <1>2, <1>3, PTL DEF PagesSpec

\* arcade_print: for any number of puzzles, restarts and changes of the configuration.
THEOREM ArcadePrintsWhatWasShown == PagesSpec => []PrintsWhatWasShown
<1>1. PagesInit => ArcadeInv
  BY ArcadeInits DEF PagesInit
<1>2. ArcadeInv /\ [PagesNext]_pagesVars => ArcadeInv'
  BY PartsMove, ArcadeSteps DEF arcadeVars, Arcade!vars, Arcade!server, Arcade!preview
<1>3. ArcadeInv => PrintsWhatWasShown
  BY ArcadeIsSound DEF PrintsWhatWasShown
<1> QED BY <1>1, <1>2, <1>3, PTL DEF PagesSpec
=============================================================================
