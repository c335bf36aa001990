------------------------------- MODULE CallLog -------------------------------
(***************************************************************************)
(* Voice calls and their history.  The modem's calls are objects of        *)
(* ModemManager or lines of AT+CLCC; active_calls remembers by path which  *)
(* row of call_history a call has, from the request that dialled or        *)
(* answered it to the one that hangs up.  Nothing listens to the modem:    *)
(* what the other side does is seen only by requests that look.            *)
(***************************************************************************)
EXTENDS Naturals, Sequences, FiniteSets

CONSTANTS
  Phones,        \* tasks of the HTTP server
  MaxVoice,      \* bound on calls of the modem
  MaxRows,       \* bound on rows of call_history
  MaxVoiceAsks   \* bound on requests

ASSUME CallAssumption == {MaxVoice, MaxRows, MaxVoiceAsks} \subseteq Nat

VARIABLES
  voice,     \* the modem's calls by path
  lastCall,  \* calls so far
  rows,      \* call_history by id
  tracked,   \* active_calls
  voiceLock, \* DBUS_LOCK
  phone,     \* what a request does
  voiceAsks,
  spoken     \* history: calls that were active at some time

callLog == <<voice, lastCall, rows, tracked, voiceLock, phone, voiceAsks, spoken>>

-----------------------------------------------------------------------------
\* The line of AT+CLCC, whose path is given again, and objects of ModemManager,
\* whose path is not.
Line    == 0
Paths   == 0..MaxVoice
NoVoice == [no |-> 0, dir |-> "none", state |-> "gone"]
NoRecord == [id |-> 0, answered |-> FALSE]
Resting  == [op |-> "none", step |-> "rest", path |-> Line, seen |-> {}, no |-> 0, id |-> 0]

Voices == [no : 0..MaxVoice, dir : {"incoming", "outgoing", "none"},
           state : {"dialing", "ringing", "active", "terminated", "gone"}]

CallTypeOK ==
  /\ voice \in [Paths -> Voices]
  /\ lastCall \in 0..MaxVoice
  /\ rows \in Seq([dir : {"incoming", "outgoing", "missed"}, answered : BOOLEAN,
                   ended : BOOLEAN, there : BOOLEAN, call : 0..MaxVoice, path : Paths])
  /\ Len(rows) <= MaxRows
  /\ tracked \in [Paths -> [id : 0..MaxRows, answered : BOOLEAN]]
  /\ voiceLock \in Phones \cup {"free"}
  /\ \A p \in Phones :
       /\ phone[p].op \in {"none", "dial", "answer", "hangup", "hangupAll", "list"}
       /\ phone[p].step \in {"rest", "look", "act", "row", "track", "log"}
       /\ phone[p].path \in Paths /\ phone[p].no \in 0..MaxVoice /\ phone[p].id \in 0..MaxRows
       /\ \A c \in phone[p].seen : c.path \in Paths /\ c.no \in 0..MaxVoice
  /\ voiceAsks \in 0..MaxVoiceAsks
  /\ spoken \subseteq 1..MaxVoice

CallInit ==
  /\ voice = [p \in Paths |-> NoVoice]
  /\ lastCall = 0
  /\ rows = <<>>
  /\ tracked = [p \in Paths |-> NoRecord]
  /\ voiceLock = "free"
  /\ phone = [p \in Phones |-> Resting]
  /\ voiceAsks = 0
  /\ spoken = {}

-----------------------------------------------------------------------------
(* The modem and the other side. *)

Live(p)  == voice[p].state \in {"dialing", "ringing", "active"}
Objects  == {p \in Paths \ {Line} : Live(p)}

\* list_current_calls: AT is asked only if ModemManager knows of no call.
ListedCalls == IF Objects # {} THEN Objects ELSE {p \in {Line} : Live(p)}

Shown(P) == {[path |-> p, no |-> voice[p].no, dir |-> voice[p].dir, state |-> voice[p].state]
              : p \in P}

\* A new call at the line, or at the path its number gives it.
NewVoice(at, dir) ==
  /\ lastCall < MaxVoice /\ lastCall' = lastCall + 1
  /\ at \in {Line, lastCall + 1} /\ voice[at] = NoVoice
  /\ voice' = [voice EXCEPT ![at] =
       [no |-> lastCall + 1, dir |-> dir,
        state |-> IF dir = "outgoing" THEN "dialing" ELSE "ringing"]]

Ring == \E at \in Paths : NewVoice(at, "incoming") /\ UNCHANGED spoken

PickUp(p) ==
  /\ voice[p].state = "dialing"
  /\ voice' = [voice EXCEPT ![p].state = "active"]
  /\ spoken' = spoken \cup {voice[p].no}
  /\ UNCHANGED lastCall

\* ModemManager keeps the object of an ended call until it is deleted.
OverCall(p) == IF p = Line THEN NoVoice ELSE [voice[p] EXCEPT !.state = "terminated"]

OtherHangsUp(p) ==
  /\ Live(p)
  /\ voice' = [voice EXCEPT ![p] = OverCall(p)]
  /\ UNCHANGED <<lastCall, spoken>>

Otherwise == UNCHANGED <<rows, tracked, voiceLock, phone, voiceAsks>>

VoiceStep == (Ring \/ \E p \in Paths : PickUp(p) \/ OtherHangsUp(p)) /\ Otherwise

-----------------------------------------------------------------------------
(* The requests.  Each await is a step; a request may be dropped at one.   *)

At(p, op, step) == phone[p].op = op /\ phone[p].step = step
Goes(p, step)   == phone' = [phone EXCEPT ![p].step = step]
Finishes(p)      == phone' = [phone EXCEPT ![p] = Resting]

AskPhone(p) ==
  /\ phone[p] = Resting
  /\ voiceAsks < MaxVoiceAsks /\ voiceAsks' = voiceAsks + 1
  /\ \E op \in {"dial", "answer", "hangup", "hangupAll", "list"}, at \in Paths :
       /\ op \in {"answer", "hangup"} => at <= lastCall
       /\ op \notin {"answer", "hangup"} => at = Line
       /\ phone' = [phone EXCEPT ![p] =
            [Resting EXCEPT !.op = op, !.path = at,
                            !.step = IF op = "dial" THEN "act" ELSE "look"]]
  /\ UNCHANGED <<voice, lastCall, rows, tracked, voiceLock, spoken>>

\* What the request finds before it acts; listing deletes ended objects.
Look(p) ==
  /\ phone[p].step = "look"
  /\ LET single == phone[p].op \in {"answer", "hangup"}
         found  == IF single THEN Shown({phone[p].path} \cap {q \in Paths : voice[q] # NoVoice})
                             ELSE Shown(ListedCalls)
     IN  \E seen \in {found, {}} :
           /\ phone' = [phone EXCEPT ![p].seen = seen,
                                     ![p].step = IF phone[p].op = "list" THEN "log" ELSE "act"]
           /\ voice' = IF single THEN voice
                       ELSE [q \in Paths |-> IF voice[q].state = "terminated" THEN NoVoice
                                                                            ELSE voice[q]]
  /\ UNCHANGED <<lastCall, rows, tracked, voiceLock, voiceAsks, spoken>>

\* The modem refuses, or the connection of the client is closed at an await;
\* after the calls that act the first await is the lock of active_calls.
GivesUp(p) ==
  /\ phone[p].step \in {"look", "act", "track", "log"}
  /\ Finishes(p)
  /\ voiceLock' = IF voiceLock = p THEN "free" ELSE voiceLock
  /\ UNCHANGED <<voice, lastCall, rows, tracked, voiceAsks, spoken>>

TakeLock(p) ==
  /\ phone[p].step = "act" /\ phone[p].op # "hangup"
  /\ voiceLock = "free" /\ voiceLock' = p
  /\ UNCHANGED <<voice, lastCall, rows, tracked, phone, voiceAsks, spoken>>

\* make_call: the call that is there already, or a new one through AT, which may
\* be started and not found, or through ModemManager.
Dial(p) ==
  /\ At(p, "dial", "act") /\ voiceLock = p
  /\ \/ /\ \E q \in ListedCalls :
             /\ voice[q].dir = "outgoing"
             /\ phone' = [phone EXCEPT ![p].step = "row", ![p].path = q, ![p].no = voice[q].no]
        /\ voiceLock' = "free"
        /\ UNCHANGED <<voice, lastCall>>
     \/ /\ ListedCalls = {}
        /\ \E at \in Paths :
             /\ NewVoice(at, "outgoing")
             /\ \/ phone' = [phone EXCEPT ![p].step = "row", ![p].path = at, ![p].no = lastCall']
                   /\ voiceLock' = "free"
                \/ at = Line /\ UNCHANGED <<phone, voiceLock>>
  /\ UNCHANGED <<rows, tracked, voiceAsks, spoken>>

\* An AT command that gets no answer, or no other than NO CARRIER, counts as done.
AnsweredAnyway(at) == at = Line /\ voice[at].state # "ringing"

AnswerCall(p) ==
  /\ At(p, "answer", "act") /\ voiceLock = p /\ voiceLock' = "free"
  /\ LET at == phone[p].path
     IN  \/ /\ voice[at].state = "ringing"
            /\ voice' = [voice EXCEPT ![at].state = "active"]
            /\ spoken' = spoken \cup {voice[at].no}
         \/ AnsweredAnyway(at) /\ UNCHANGED <<voice, spoken>>
  /\ IF phone[p].seen = {} THEN Finishes(p)
     ELSE \E c \in phone[p].seen : phone' = [phone EXCEPT ![p].step = "row", ![p].no = c.no]
  /\ UNCHANGED <<lastCall, rows, tracked, voiceAsks>>

Unseen(at) == [path |-> at, no |-> 0, dir |-> "none", state |-> "gone"]

\* ATH ends the call of the line; an object is hung up and deleted.
HangUp(p) ==
  /\ At(p, "hangup", "act")
  /\ phone[p].path = Line \/ voice[phone[p].path] # NoVoice
  /\ voice' = [voice EXCEPT ![phone[p].path] = NoVoice]
  /\ phone' = [phone EXCEPT ![p].step = "log",
                            ![p].seen = IF @ = {} THEN {Unseen(phone[p].path)} ELSE @]
  /\ UNCHANGED <<lastCall, rows, tracked, voiceLock, voiceAsks, spoken>>

HangUpAll(p) ==
  /\ At(p, "hangupAll", "act") /\ voiceLock = p /\ voiceLock' = "free"
  /\ voice' = IF Live(Line) THEN [voice EXCEPT ![Line] = NoVoice]
                            ELSE [q \in Paths |-> NoVoice]
  /\ IF phone[p].seen = {} THEN Finishes(p) ELSE Goes(p, "log")
  /\ UNCHANGED <<lastCall, rows, tracked, voiceAsks, spoken>>

-----------------------------------------------------------------------------
(* The history. *)

CallRow(dir, answered, ended, no, at) ==
  [dir |-> dir, answered |-> answered, ended |-> ended, there |-> TRUE, call |-> no, path |-> at]

\* track_call_start in its two steps: the row, and the entry under the lock of
\* active_calls, which replaces the one of an earlier call at the path.
WriteRow(p) ==
  /\ phone[p].step = "row"
  /\ \/ /\ Len(rows) < MaxRows
        /\ LET answered == phone[p].op = "answer"
           IN  rows' = Append(rows, CallRow(IF answered THEN "incoming" ELSE "outgoing", answered,
                                        FALSE, phone[p].no, phone[p].path))
        /\ phone' = [phone EXCEPT ![p].step = "track", ![p].id = Len(rows')]
     \/ Finishes(p) /\ UNCHANGED rows
  /\ UNCHANGED <<voice, lastCall, tracked, voiceLock, voiceAsks, spoken>>

Track(p) ==
  /\ phone[p].step = "track"
  /\ tracked' = [tracked EXCEPT ![phone[p].path] =
                   [id |-> phone[p].id, answered |-> phone[p].op = "answer"]]
  /\ Finishes(p)
  /\ UNCHANGED <<voice, lastCall, rows, voiceLock, voiceAsks, spoken>>

\* mark_tracked_call_answered, for each call that the list shows as active.
Mark(p) ==
  /\ At(p, "list", "log")
  /\ tracked' = [q \in Paths |->
       IF tracked[q].id # 0 /\ \E c \in phone[p].seen : c.path = q /\ c.state = "active"
       THEN [tracked[q] EXCEPT !.answered = TRUE] ELSE tracked[q]]
  /\ Finishes(p)
  /\ UNCHANGED <<voice, lastCall, rows, voiceLock, voiceAsks, spoken>>

\* update_call_end, which finds no row if it was deleted
EndRow(i, answered) == IF rows[i].there
                      THEN [rows EXCEPT ![i].ended = TRUE, ![i].answered = answered] ELSE rows

\* Mutant: the entry is read and stays.
FinishKeeps(c) ==
  LET record == tracked[c.path]
  IN  [rows |-> IF record.id = 0 THEN rows
                ELSE EndRow(record.id, record.answered \/ c.state = "active"),
       tracked |-> tracked]

\* finish_tracked_call
Finish(c) ==
  LET record == tracked[c.path]
  IN  [rows |-> IF record.id = 0 THEN rows
                ELSE EndRow(record.id, record.answered \/ c.state = "active"),
       tracked |-> [tracked EXCEPT ![c.path] = NoRecord]]

\* The handlers finish what they had seen, one call after the other, and add a
\* row for a call that was still ringing then.
Close(p) ==
  /\ phone[p].step = "log" /\ phone[p].op # "list"
  /\ \E c \in phone[p].seen :
       /\ tracked' = Finish(c).tracked
       /\ \/ c.state = "ringing" /\ Len(rows) < MaxRows
             /\ rows' = Append(Finish(c).rows, CallRow("missed", FALSE, FALSE, c.no, c.path))
          \/ rows' = Finish(c).rows
       /\ IF phone[p].seen = {c} THEN Finishes(p)
          ELSE phone' = [phone EXCEPT ![p].seen = @ \ {c}]
  /\ UNCHANGED <<voice, lastCall, voiceLock, voiceAsks, spoken>>

\* delete_call and clear_all_calls
DeleteRows ==
  /\ voiceAsks < MaxVoiceAsks /\ voiceAsks' = voiceAsks + 1
  /\ \E I \in {1..Len(rows)} \cup {{i} : i \in 1..Len(rows)} :
       rows' = [i \in 1..Len(rows) |-> IF i \in I THEN [rows[i] EXCEPT !.there = FALSE]
                                                 ELSE rows[i]]
  /\ UNCHANGED <<voice, lastCall, tracked, voiceLock, phone, spoken>>

Request(p) ==
  \/ AskPhone(p) \/ Look(p) \/ TakeLock(p) \/ GivesUp(p)
  \/ Dial(p) \/ AnswerCall(p) \/ HangUp(p) \/ HangUpAll(p)
  \/ WriteRow(p) \/ Track(p) \/ Mark(p) \/ Close(p)

CallNext == VoiceStep \/ DeleteRows \/ \E p \in Phones : Request(p)

-----------------------------------------------------------------------------
Open == {p \in Paths : tracked[p].id # 0}

\* However the requests overlap and whatever the other side does meanwhile: an
\* entry of active_calls stands for a row of its own that is still open, so that a
\* row is ended once; a row of a call that was answered here stays answered; and
\* for a call of ModemManager, whose path is not given again, a row that ended as
\* answered was an active call.  (track_call_start, finish_tracked_call; a line of
\* AT+CLCC is another call's later, and its row may be ended as that call.)
CallsTrue ==
  /\ \A p \in Open : ~rows[tracked[p].id].ended
  /\ \A p, q \in Open : tracked[p].id = tracked[q].id => p = q
  /\ \A i \in 1..Len(rows) :
       /\ rows[i].dir = "incoming" => rows[i].answered
       /\ rows[i].ended /\ rows[i].answered /\ rows[i].path # Line => rows[i].call \in spoken
=============================================================================
