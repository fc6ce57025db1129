------------------------------- MODULE Sim900 -------------------------------
(***************************************************************************)
(* The driver of the GSM modem (sim900.c) in a send cycle of the           *)
(* datalogger: the line is checked, the bearer opened, records are posted  *)
(* one batch after the other, the bearer is closed.  Each row of Script is *)
(* one exchange: a command, an answer waited for.  The modem answers its   *)
(* commands in order, and may take longer than the driver waits.  An       *)
(* element of the line or of the ring stands for a word of an answer.      *)
(***************************************************************************)
EXTENDS Integers, Sequences, FiniteSets

CONSTANTS Posts,      \* batches to be posted
          Cells,      \* words that fit in the receive ring
          Checks,     \* the bearer is looked at so often before it is taken for open
          MaxLate,    \* waits that end before the modem answers
          MaxBehind,  \* words before they are read
          MaxRefused  \* refusals and failures of the network

ASSUME PostsAssumption == {Posts, Cells, Checks} \subseteq Nat \ {0}
ASSUME FaultsAssumption == {MaxLate, MaxBehind, MaxRefused} \subseteq Nat

VARIABLES step,      \* the driver's exchange,
          try,       \* which try it is,
          phase,     \* what of it comes next,
          line,      \* the status of the bearer as read,
          checks,    \* how often it was looked at
          batch,     \* the batch to be posted
          accepted,  \* sim900_http_post has returned OK for it
          cells,     \* the receive ring: the last words received,
          unread,    \* of which so many wait to be read
          wire,      \* words on the line
          cmds,      \* commands the modem has not yet dealt with
          bearer, http, url, text, mode, acting,  \* the modem's state
          server,    \* how often each batch was stored
          late, behind, refused    \* faults so far

driver == <<step, try, phase, line, checks, batch, accepted>>
ring   == <<cells, unread>>
faults == <<late, behind, refused>>
modem  == <<bearer, http, url, text, mode, acting>>
cycleVars == <<driver, ring, wire, cmds, modem, server, faults>>

Returns    == {"OK", "ERROR"}
Bearers    == {"connecting", "connected", "closing", "closed"}
Lines      == Returns \cup Bearers
                \cup {"READY", "locked", "CREG", "CGATT", "CSQ", "unregistered", "IMSI",
                      "DOWNLOAD", "200", "601", "length", "content"}
Dictionary == Returns \cup {"READY", "locked"}
Words      == Lines \cup {"HTTPACTION", "HTTPREAD"}
NoAnswer   == "none"    \* nor anything that is sent
Any        == Lines \cup {NoAnswer}

\* An exchange: what is sent, the words that end it, those that let the
\* driver go on with the next one, how often it is tried, and where a
\* failure leads.
X(name, sends, awaits, passes, tries, fails) ==
  [name |-> name, sends |-> sends, awaits |-> awaits, passes |-> passes, tries |-> tries,
   fails |-> fails]

CheckLine == <<
  X("ready",   "AT",       Returns,      Returns,      2, "ready"),
  X("pin",     "CPIN",     Dictionary,   {"READY"},    1, "ready"),
  X("creg",    "CREG",     Lines,        {"CREG"},     1, "ready"),
  X("ready2",  "AT",       Returns,      Returns,      2, "ready"),
  X("cgatt",   "CGATT",    Lines,        {"CGATT"},    1, "ready"),
  X("ready3",  "AT",       Returns,      Returns,      2, "ready"),
  X("csq",     "CSQ",      Lines,        {"CSQ"},      1, "ready")>>

Ask == <<
  X("ask",     "STATUS",   Lines,        Lines,        2, "ready"),
  X("asked",   NoAnswer,   Returns,      {"OK"},       1, "ready"),
  X("contype", "SET",      Returns,      Returns,      2, "ready")>>

QueryOperator == <<
  X("imsi",    "CIMI",     Lines,        Any,          2, "ready"),
  X("imsi2",   NoAnswer,   Returns,      Any,          1, "ready")>>

SetAPN == << X("apn", "SET", Returns, {"OK", NoAnswer}, 2, "ready") >>

Open == <<
  X("open",    "OPEN",     Returns,      {"OK"},       2, "ready"),
  X("check",   "STATUS",   Lines,        Lines,        2, "ready"),
  X("checked", NoAnswer,   Returns,      {"OK"},       1, "ready")>>

HttpPost == <<
  X("at",      "AT",       Returns,      Returns,      2, "term"),
  X("init",    "INIT",     Returns,      {"OK"},       2, "term"),
  X("cid",     "PARA",     Returns,      {"OK"},       2, "term"),
  X("url",     "URL",      Returns,      Any,          1, "term"),
  X("data",    "DATA",     {"DOWNLOAD"}, {"DOWNLOAD"}, 1, "term"),
  X("body",    "body",     Returns,      Any,          1, "term"),
  X("action",  "ACTION",   Returns,      {"OK"},       2, "term"),
  X("urc",     NoAnswer,   {"HTTPACTION"}, {"HTTPACTION"}, 3, "term"),
  X("status",  NoAnswer,   Lines,        {"200"},      1, "term")>>

HttpRead == <<
  X("read",    "READ",     {"HTTPREAD"}, {"HTTPREAD"}, 1, "term"),
  X("length",  NoAnswer,   Lines,        Lines,        1, "term"),
  X("content", NoAnswer,   Lines,        Any,          1, "term")>>

HttpClose == << X("term",  "TERM",  Returns, Any, 2, "term") >>
BearerClose == << X("close", "CLOSE", Returns, Any, 2, "close") >>

Script == CheckLine \o Ask \o QueryOperator \o SetAPN \o Open
            \o HttpPost \o HttpRead \o HttpClose \o BearerClose

Steps == {Script[i].name : i \in DOMAIN Script}
Index == [s \in Steps |-> CHOOSE i \in DOMAIN Script : Script[i].name = s]
Row   == Script[Index[step]]

CycleInit ==
  /\ step = "ready" /\ try = 1 /\ phase = "put" /\ line = "other" /\ checks = 0
  /\ batch = 1 /\ accepted = FALSE
  /\ cells = <<>> /\ unread = 0 /\ wire = <<>> /\ cmds = <<>>
  /\ bearer = "closed" /\ http = FALSE /\ url = FALSE /\ text = 0 /\ mode = "command"
  /\ acting = {}
  /\ server = [k \in 1 .. Posts |-> 0]
  /\ late = 0 /\ behind = 0 /\ refused = 0

-----------------------------------------------------------------------------
(***************************************************************************)
(* The driver.  The delay before a command is long for what is on the      *)
(* line, and so is the wait for an answer.                                 *)
(***************************************************************************)
More == batch <= Posts

\* What the driver has no more patience for than MaxLate times.
Unanswered(owing) ==
  /\ owing => late < MaxLate
  /\ late' = IF owing THEN late + 1 ELSE late

\* The next command.
Put ==
  /\ More \/ step = "close"
  /\ phase = "put" /\ wire = <<>>
  /\ Unanswered(cmds # <<>>)
  /\ cmds' = Append(cmds, [name |-> Row.sends, post |-> IF Row.sends = "body" THEN batch ELSE 0])
  /\ phase' = "flush"
  /\ UNCHANGED <<step, try, line, checks, batch, accepted, ring, wire, modem, server, behind,
                 refused>>

\* Mutant: what is left of the last answer stays.
DropsNothing == unread' = unread

Drops == unread' = 0

\* usart_buffer_flush, with which each function that waits begins, drops
\* what came of this answer while the tick held up the driver.
Flush ==
  /\ phase = "flush" /\ phase' = "wait"
  /\ Drops
  /\ UNCHANGED <<step, try, line, checks, batch, accepted, cells, wire, cmds, modem, server,
                 faults>>

Goes(s) ==
  /\ step' = s /\ try' = 1
  /\ phase' = IF Script[Index[s]].sends = NoAnswer THEN "flush" ELSE "put"

Following == Script[Index[step] + 1].name

\* What is found in the buffer after a line is read: a short line leaves
\* the place of the status as it was, before the first one whatever the stack holds.
Shown(answer) ==
  IF answer \in Bearers THEN {answer}
  ELSE IF step = "check" /\ answer \in Returns THEN {line}
  ELSE {"other", "closing"}

\* asked: the bearer is opened only if it is closed.
Asked ==
  CASE line = "closed"  -> Goes("contype")
    [] line = "closing" -> Goes("ready")
    [] OTHER            -> Goes("at")

\* Mutant: the looks are not counted.
CheckedForever ==
  IF line \in {"closing", "closed"} THEN Goes("ready") /\ checks' = 0
  ELSE IF line = "connected" THEN Goes("at") /\ checks' = 0
  ELSE Goes("check") /\ checks' = checks + 1

Checked ==
  IF line \in {"closing", "closed"} THEN Goes("ready") /\ checks' = 0
  ELSE IF line = "connected" \/ checks + 1 = Checks THEN Goes("at") /\ checks' = 0
  ELSE Goes("check") /\ checks' = checks + 1

\* Mutant: the records are not flagged.
PostEndsUnflagged ==
  /\ accepted' = FALSE /\ UNCHANGED batch
  /\ Goes(IF accepted /\ batch < Posts THEN "at" ELSE "close")

\* sim900_http_close ends a post, whatever it returned.
PostEnds ==
  /\ batch' = IF accepted THEN batch + 1 ELSE batch
  /\ accepted' = FALSE
  /\ Goes(IF accepted /\ batch < Posts THEN "at" ELSE "close")

Succeeds(answer) ==
  CASE step = "asked"   -> Asked /\ UNCHANGED <<line, checks, batch, accepted>>
    [] step = "checked" -> Checked /\ UNCHANGED <<line, batch, accepted>>
    [] step \in {"ask", "check"} ->
         line' \in Shown(answer) /\ Goes(Following) /\ UNCHANGED <<checks, batch, accepted>>
    [] step = "status"  -> Goes(Following) /\ accepted' = TRUE /\ UNCHANGED <<line, checks, batch>>
    [] step = "term"    -> PostEnds /\ UNCHANGED <<line, checks>>
    [] step = "close"   -> Goes("ready") /\ UNCHANGED <<line, checks, batch, accepted>>
    [] OTHER            -> Goes(Following) /\ UNCHANGED <<line, checks, batch, accepted>>

\* Mutants: any status will do; a failed post leaves the service as it is.
ConcludesBlindly(answer) ==
  IF answer \in Row.passes \/ (step = "status" /\ answer # NoAnswer) THEN Succeeds(answer)
  ELSE Goes(Row.fails) /\ checks' = 0 /\ UNCHANGED <<line, batch, accepted>>

ConcludesAbruptly(answer) ==
  IF answer \in Row.passes THEN Succeeds(answer)
  ELSE /\ Goes(IF Row.fails = "term" THEN "close" ELSE Row.fails)
       /\ checks' = 0
       /\ UNCHANGED <<line, batch, accepted>>

Concludes(answer) ==
  IF answer \in Row.passes THEN Succeeds(answer)
  ELSE /\ Goes(Row.fails)
       /\ checks' = 0
       /\ UNCHANGED <<line, batch, accepted>>

\* The next word: other words than those awaited are skipped.
Read ==
  /\ phase = "wait" /\ unread > 0
  /\ unread' = unread - 1
  /\ LET word == cells[Len(cells) - unread + 1] IN
     IF word \in Row.awaits THEN Concludes(word) ELSE UNCHANGED driver
  /\ UNCHANGED <<cells, wire, cmds, modem, server, faults>>

\* sim900_wait_data_on_usart gives up.
TimesOut ==
  /\ phase = "wait" /\ unread = 0 /\ wire = <<>>
  /\ Unanswered(cmds # <<>> \/ acting # {} \/ (mode = "data" /\ step # "data"))
  /\ IF try < Row.tries
     THEN /\ try' = try + 1 /\ phase' = IF Row.sends = NoAnswer THEN "flush" ELSE "put"
          /\ UNCHANGED <<step, line, checks, batch, accepted>>
     ELSE Concludes(NoAnswer)
  /\ UNCHANGED <<ring, wire, cmds, modem, server, behind, refused>>

\* USART_RX_CBuffer_Complete: a full ring gives up its oldest word.  While
\* the tick holds up the driver, words come before it has flushed the ring
\* or read the last one.  If that is between the two stores of the flush,
\* all the ring holds is taken for unread; if it is where GetByte is about
\* to store the tail that the interrupt has moved, a full ring seems empty.
Behind == phase = "flush" \/ (phase = "wait" /\ unread > 0)

Unread == IF unread = Cells THEN Cells ELSE unread + 1

ReceiveWord ==
  /\ wire # <<>>
  /\ wire' = Tail(wire)
  /\ cells' = (IF Len(cells) = Cells THEN Tail(cells) ELSE cells) \o <<Head(wire)>>
  /\ \/ unread' = Unread /\ UNCHANGED phase
     \/ phase = "flush" /\ unread' = Len(cells') /\ phase' = "wait"
     \/ phase = "wait" /\ unread = Cells /\ unread' = 0 /\ UNCHANGED phase
  /\ Behind => behind < MaxBehind
  /\ behind' = IF Behind THEN behind + 1 ELSE behind
  /\ UNCHANGED <<step, try, line, checks, batch, accepted, cmds, modem, server, late, refused>>

-----------------------------------------------------------------------------
(***************************************************************************)
(* The modem, as far as the driver uses it.                                *)
(***************************************************************************)
Says(words) == wire' = wire \o words
Refuses == refused < MaxRefused /\ refused' = refused + 1

\* What the modem does with a command, in command mode.
Plain(c) ==
  \/ c \in {"AT", "SET"} /\ Says(<<"OK">>) /\ UNCHANGED <<modem, refused>>
  \/ c = "CPIN" /\ Says(<<"READY", "OK">>) /\ UNCHANGED <<modem, refused>>
  \/ c = "CPIN" /\ Refuses /\ Says(<<"locked", "OK">>) /\ UNCHANGED modem
  \/ c \in {"CREG", "CGATT", "CSQ"} /\ Says(<<c, "OK">>) /\ UNCHANGED <<modem, refused>>
  \/ c \in {"CREG", "CGATT"} /\ Refuses /\ Says(<<"unregistered", "OK">>) /\ UNCHANGED modem
  \/ c = "CIMI" /\ Says(<<"IMSI", "OK">>) /\ UNCHANGED <<modem, refused>>

OnBearer(c) ==
  /\ UNCHANGED <<http, url, text, mode, acting>>
  /\ \/ c = "STATUS" /\ Says(<<bearer, "OK">>) /\ UNCHANGED bearer
        /\ IF bearer = "connecting" THEN Refuses ELSE UNCHANGED refused
     \/ c = "OPEN" /\ bearer = "closed" /\ bearer' \in {"connecting", "connected"}
        /\ Says(<<"OK">>) /\ UNCHANGED refused
     \/ c = "OPEN" /\ bearer = "closed" /\ Refuses /\ Says(<<"ERROR">>) /\ UNCHANGED bearer
     \/ c = "OPEN" /\ bearer # "closed" /\ Says(<<"ERROR">>) /\ UNCHANGED <<bearer, refused>>
     \/ c = "CLOSE" /\ bearer \in {"connecting", "connected"} /\ bearer' \in {"closing", "closed"}
        /\ Says(<<"OK">>) /\ UNCHANGED refused
     \/ c = "CLOSE" /\ bearer \in {"closing", "closed"} /\ Says(<<"ERROR">>)
        /\ UNCHANGED <<bearer, refused>>

OnHttp(c) ==
  /\ UNCHANGED <<bearer, refused>>
  /\ \/ c = "INIT" /\ ~http /\ http' = TRUE /\ Says(<<"OK">>)
        /\ UNCHANGED <<url, text, mode, acting>>
     \/ c = "PARA" /\ http /\ Says(<<"OK">>) /\ UNCHANGED <<http, url, text, mode, acting>>
     \/ c = "URL" /\ http /\ url' = TRUE /\ Says(<<"OK">>) /\ UNCHANGED <<http, text, mode, acting>>
     \/ c = "DATA" /\ http /\ mode' = "data" /\ Says(<<"DOWNLOAD">>)
        /\ UNCHANGED <<http, url, text, acting>>
     \/ c = "ACTION" /\ http /\ acting = {} /\ acting' = {text} /\ Says(<<"OK">>)
        /\ UNCHANGED <<http, url, text, mode>>
     \/ c = "READ" /\ http /\ Says(<<"HTTPREAD", "length", "content", "OK">>)
        /\ UNCHANGED <<http, url, text, mode, acting>>
     \/ c = "TERM" /\ http /\ http' = FALSE /\ url' = FALSE /\ text' = 0 /\ acting' = {}
        /\ Says(<<"OK">>) /\ UNCHANGED mode
     \/ /\ \/ c \in {"PARA", "URL", "DATA", "ACTION", "READ", "TERM"} /\ ~http
           \/ c = "INIT" /\ http
           \/ c = "ACTION" /\ acting # {}
        /\ Says(<<"ERROR">>) /\ UNCHANGED <<http, url, text, mode, acting>>

\* The modem deals with a command; in data mode it takes what comes for the text.
Process ==
  /\ cmds # <<>>
  /\ cmds' = Tail(cmds)
  /\ LET c == Head(cmds) IN
     CASE mode = "data" /\ c.name = "body" ->
            /\ mode' = "command" /\ text' = c.post /\ Says(<<"OK">>)
            /\ UNCHANGED <<bearer, http, url, acting, refused>>
       [] (mode = "data" /\ c.name # "body") \/ (mode = "command" /\ c.name = "body") ->
            UNCHANGED <<wire, modem, refused>>
       [] OTHER -> Plain(c.name) \/ OnBearer(c.name) \/ OnHttp(c.name)
  /\ UNCHANGED <<driver, ring, server, late, behind>>

\* Thirty seconds without the text.
DataEnds ==
  /\ mode = "data" /\ cmds = <<>> /\ step \notin {"data", "body"}
  /\ mode' = "command" /\ text' = 0 /\ Says(<<"OK">>)
  /\ UNCHANGED <<driver, ring, cmds, bearer, http, url, acting, server, faults>>

\* The post is done: it is stored and that is said, or it fails, which may
\* be after it was stored.
Stores(k) == server' = [server EXCEPT ![k] = @ + 1]

ActionEnds ==
  /\ acting # {} /\ acting' = {}
  /\ LET k == CHOOSE a \in acting : TRUE IN
     \/ /\ bearer = "connected" /\ url /\ k # 0
        /\ Stores(k) /\ Says(<<"HTTPACTION", "200">>) /\ UNCHANGED refused
     \/ /\ bearer = "connected" /\ url /\ k # 0
        /\ Refuses /\ (Stores(k) \/ UNCHANGED server) /\ Says(<<"HTTPACTION", "601">>)
     \/ /\ ~(bearer = "connected" /\ url /\ k # 0)
        /\ Says(<<"HTTPACTION", "601">>) /\ UNCHANGED <<server, refused>>
  /\ UNCHANGED <<driver, ring, cmds, bearer, http, url, text, mode, late, behind>>

\* The network connects, lets go, or drops the bearer.
Connects ==
  /\ \/ bearer = "connecting" /\ bearer' = "connected" /\ UNCHANGED refused
     \/ bearer = "closing" /\ bearer' = "closed" /\ UNCHANGED refused
     \/ bearer = "connected" /\ bearer' = "closed" /\ Refuses
  /\ UNCHANGED <<driver, ring, wire, cmds, http, url, text, mode, acting, server, late, behind>>

Driver == Put \/ Flush \/ Read \/ TimesOut
Modem  == Process \/ DataEnds \/ ActionEnds \/ Connects

CycleNext == Driver \/ ReceiveWord \/ Modem

\* The clock goes on, so that a wait ends; the modem answers at last.
Fairness == /\ WF_cycleVars(Driver) /\ WF_cycleVars(ReceiveWord) /\ WF_cycleVars(Process)
            /\ WF_cycleVars(DataEnds) /\ WF_cycleVars(ActionEnds) /\ WF_cycleVars(Connects)

CycleSpec == CycleInit /\ [][CycleNext]_cycleVars /\ Fairness

-----------------------------------------------------------------------------
CycleTypeOK ==
  /\ step \in Steps /\ try \in 1 .. Row.tries /\ phase \in {"put", "flush", "wait"}
  /\ line \in Bearers \cup {"other"} /\ checks \in 0 .. Checks - 1
  /\ batch \in 1 .. Posts + 1 /\ accepted \in BOOLEAN
  /\ {cells, wire} \subseteq Seq(Words) /\ Len(cells) <= Cells /\ unread \in 0 .. Len(cells)
  /\ \A i \in DOMAIN cmds : cmds[i].post \in 0 .. Posts
  /\ bearer \in Bearers /\ http \in BOOLEAN /\ url \in BOOLEAN /\ text \in 0 .. Posts
  /\ mode \in {"command", "data"} /\ acting \subseteq 0 .. Posts /\ Cardinality(acting) <= 1
  /\ server \in [1 .. Posts -> Nat]
  /\ late \in 0 .. MaxLate /\ behind \in 0 .. MaxBehind /\ refused \in 0 .. MaxRefused

\* A batch that sim900_http_post has returned OK for, which the datalogger
\* then flags as sent, has been stored: no leftover of an earlier answer,
\* truncated, flushed or late, passes for the status of this post.
SentIsStored == \A k \in 1 .. Posts : k < batch \/ (k = batch /\ accepted) => server[k] > 0

\* ACTION is sent again after a time-out, and a batch whose status is not
\* seen is posted again: each copy on the server is paid for by an answer
\* that came late, was flushed, or told of a failure.
RepeatsAreBounded == \A k \in 1 .. Posts : server[k] <= 1 + late + behind + refused

\* As long as the modem answers in time, the driver sends no command before
\* the last one was dealt with: what is left of an answer (the OK after a
\* line, the body after its length) is not read as the answer to the next.
InStep == late = 0 /\ behind = 0 /\ phase = "put" => cmds = <<>>

\* Whatever was late, lost or refused, the driver and the modem get back in
\* step, and every batch is posted in the end.
EveryPostArrives == <>(batch > Posts)
=============================================================================
