------------------------------- MODULE Gainer --------------------------------
(***************************************************************************)
(* The SAORI gainer (impl_saori/gainer): the thread of the baseware sends   *)
(* commands to a Gainer board over a serial line and waits, for most, until *)
(* the receiver thread has put a reply into m_receive_queue.  Nothing but   *)
(* their order says which reply answers which command; reports the board    *)
(* sends of itself, and replies nobody waits for, must stay out of the      *)
(* queue.                                                                   *)
(*                                                                          *)
(* One port and its CGainer.  A command is a tuple with the letter it       *)
(* begins with, a reply that letter; a message on the line ends with its    *)
(* '*'.  What is measured is left out.  The board is external: protocol.xls *)
(* lists its commands.                                                      *)
(***************************************************************************)
EXTENDS Naturals, Sequences

CONSTANTS Subcommands,        \* those that exec is called with
          Configs,            \* the configurations asked for
          GAINER_LED_MATRIX,  \* the rows of the LED matrix
          Patterns,           \* what a row shows
          Dark,               \* the pattern of a row that is off
          MaxLine,            \* bound on the messages on the line, each way
          MaxCalls            \* bound on the calls of exec

ASSUME GainerAssumption ==
  /\ Configs \subseteq 1 .. 8 /\ GAINER_LED_MATRIX \in Nat \ {0}
  /\ Dark \in Patterns /\ MaxLine \in Nat \ {0} /\ MaxCalls \in Nat

\* CONFIG: the configurations with inputs and outputs of each kind.
AIN  == {1, 2, 3, 4, 8}
DIN  == {1, 3, 5}
AOUT == {1, 2, 3, 4, 7}
DOUT == {1, 2, 6, 7, 8}
MATRIX == 7

VARIABLES
  \* the baseware's thread
  host,                \* "none": there is no CGainer; "leaked": Init threw an exception
  script,              \* what exec has still to do
  calls,               \* how often exec was called
  waiting,             \* is it in wait_recv?
  m_config, m_LEDMatrixOutputs, m_endFlag, g_hwnd, m_hwnd_sstp,
  \* the receiver thread
  receiver, batch, m_receive_queue,
  \* the line and the board
  toBoard, fromBoard, config, streams, matrix,
  \* histories
  answered,   \* the last command that was waited for and the reply it got
  scanned,    \* the rows exec was told to set, and set, in its last command
  strayed,    \* a reply came into the queue, or may come, that no command waits for
  refused,    \* the board was given a command that its configuration does not have
  lost        \* a message was lost on the line

windows == <<g_hwnd, m_hwnd_sstp>>
hosting == <<host, script, calls, waiting, m_config, m_LEDMatrixOutputs, m_endFlag, windows>>
reading == <<receiver, batch, m_receive_queue>>
line    == <<toBoard, fromBoard>>
board   == <<config, streams, matrix>>
history == <<answered, scanned, strayed, refused, lost>>
vars    == <<hosting, reading, line, board, history>>

NoReply == <<"none", "none">>
Rows == 0 .. GAINER_LED_MATRIX - 1
DarkMatrix == [r \in Rows |-> Dark]

Init ==
  /\ host = "none" /\ script = <<>> /\ calls = 0 /\ waiting = FALSE
  /\ m_config = 0 /\ m_LEDMatrixOutputs = DarkMatrix
  /\ m_endFlag = FALSE /\ g_hwnd = FALSE /\ m_hwnd_sstp = FALSE
  /\ receiver = "none" /\ batch = <<>> /\ m_receive_queue = <<>>
  /\ toBoard = <<>> /\ fromBoard = <<>>
  /\ config = 0 /\ streams = {} /\ matrix = DarkMatrix
  /\ answered = NoReply /\ scanned = {}
  /\ strayed = FALSE /\ refused = FALSE /\ lost = FALSE

-----------------------------------------------------------------------------
(* exec: the commands of each operation, in order. *)

\* scanLine sets one row, scanMatrix each in turn.  The LED stands for the amplifier (G), one digital
\* output and one servo for all.
Lines == {<<<<r, p>>>> : r \in Rows, p \in Patterns}
Matrices == {[i \in 1 .. GAINER_LED_MATRIX |-> <<i - 1, m[i - 1]>>] : m \in [Rows -> Patterns]}
Operations ==
  [op : {"reboot", "led", "end", "digitalOutput", "analogOutput", "analogOutputSingle",
         "servoOutput", "disconnect"}]
  \cup [op : {"config"}, mode : Configs]
  \cup [op : {"peek", "begin"}, digital : BOOLEAN]
  \cup [op : {"scan"}, lines : Lines \cup Matrices]
Operation == {o \in Operations : o.op \in Subcommands}

Inputs(digital) == IF digital THEN DIN ELSE AIN
When(c, s) == IF c THEN s ELSE <<>>

\* A bug for a mutant: the configuration is set without a reboot.
SetConfigurationOnly(mode) == When(mode # m_config, <<<<"K", mode>>>>)

\* A bug for a mutant: the number of the configuration is one too high.
SetConfigurationNext(mode) ==
  When(mode # m_config, When(m_config # 0, <<<<"Q">>>>) \o <<<<"K", mode + 1>>>>)

SetConfiguration(mode) ==
  When(mode # m_config, When(m_config # 0, <<<<"Q">>>>) \o <<<<"K", mode>>>>)

\* check_config, and the configuration it leaves.
check_config == When(m_config = 0, SetConfiguration(1))
Checked == IF m_config = 0 THEN 1 ELSE m_config

Exit == <<<<"end">>, <<"Qn">>, <<"join">>, <<"close">>>>

\* s without the members of S, in order.
Without(s, S) ==
  LET left[n \in 0 .. Len(s)] ==
        IF n = 0 THEN <<>> ELSE IF s[n] \in S THEN left[n - 1] ELSE Append(left[n - 1], s[n])
  IN  left[Len(s)]

\* The lines that are not the same as the last time.
Fresh(lines) == Without(lines, {<<r, m_LEDMatrixOutputs[r]>> : r \in Rows})

Script(o) ==
  CASE o.op = "reboot"        -> <<<<"Q">>>>
    [] o.op = "config"        -> SetConfiguration(o.mode)
    [] o.op = "led"           -> check_config \o <<<<"h">>>>
    [] o.op = "peek"          -> check_config \o
                                 When(Checked \in Inputs(o.digital),
                                      <<IF o.digital THEN <<"R">> ELSE <<"I">>>>)
    [] o.op = "begin"         -> check_config \o
                                 When(Checked \in Inputs(o.digital),
                                      <<IF o.digital THEN <<"r">> ELSE <<"i">>>>)
    [] o.op = "end"           -> check_config \o <<<<"E">>>>
    [] o.op = "digitalOutput" -> When(m_config \in DOUT, <<<<"D">>>>)
    [] o.op = "analogOutput"  -> When(m_config \in AOUT, <<<<"A">>>>)
    [] o.op = "analogOutputSingle" -> When(m_config \in AOUT, <<<<"s">>>>)
    [] o.op = "servoOutput"   -> check_config \o When(Checked = 8, <<<<"P">>>>)
    [] o.op = "scan"          -> check_config \o
                                 When(Checked = MATRIX,
                                      [i \in DOMAIN Fresh(o.lines) |->
                                         <<"a", Fresh(o.lines)[i][1], Fresh(o.lines)[i][2]>>])
    [] o.op = "disconnect"    -> Exit

\* The rows that ScanLine answers for with true.
Answered(o) ==
  IF o.op = "scan" /\ Checked = MATRIX THEN {o.lines[i] : i \in DOMAIN o.lines} ELSE {}

Called == script = <<>> /\ calls < MaxCalls /\ calls' = calls + 1

exec(o) ==
  /\ Called /\ host = "ready"
  /\ script' = Script(o)
  /\ scanned' = Answered(o)
  /\ UNCHANGED <<host, waiting, m_config, m_LEDMatrixOutputs, m_endFlag, windows, reading, line,
                 board, answered, strayed, refused, lost>>

hwnd ==
  /\ Called /\ "hwnd" \in Subcommands /\ host \in {"none", "ready"}
  /\ g_hwnd' \in BOOLEAN
  /\ m_hwnd_sstp' = IF host = "ready" THEN g_hwnd' ELSE m_hwnd_sstp
  /\ UNCHANGED <<host, script, waiting, m_config, m_LEDMatrixOutputs, m_endFlag, reading, line,
                 board, history>>

\* A command for a port without CGainer: Init.  The port may still have to carry what was sent
\* before it was closed.
Open ==
  /\ Called /\ host = "none" /\ host' = "ready"
  /\ script' = <<<<"Qn">>, <<"start">>, <<"wait">>, <<"?">>, <<"hwnd">>>>
  /\ m_config' = 0 /\ m_LEDMatrixOutputs' = DarkMatrix /\ m_endFlag' = FALSE
  /\ m_hwnd_sstp' = FALSE
  /\ strayed' = (strayed \/ toBoard # <<>>)
  /\ UNCHANGED <<waiting, g_hwnd, reading, line, board, answered, scanned, refused, lost>>

\* Search, in steps: "?*" is sent, and the first '*' that comes within the timeout will do.
Search ==
  /\ Called /\ "search" \in Subcommands
  /\ host = "none" /\ host' = "search" /\ Len(toBoard) < MaxLine
  /\ script' = <<<<"getc">>, <<"close">>>> /\ toBoard' = Append(toBoard, <<"?">>)
  /\ UNCHANGED <<waiting, m_config, m_LEDMatrixOutputs, m_endFlag, windows, reading,
                 fromBoard, board, history>>

Doing(what) == script # <<>> /\ Head(script)[1] = what /\ ~waiting
Done == script' = Tail(script)

Getc ==
  /\ Doing("getc") /\ Done
  /\ fromBoard' \in {fromBoard} \cup IF fromBoard = <<>> THEN {} ELSE {Tail(fromBoard)}
  /\ UNCHANGED <<host, calls, waiting, m_config, m_LEDMatrixOutputs, m_endFlag, windows, reading,
                 toBoard, board, history>>

\* command_send without waiting, and with it.
NoWait == {"r", "i", "a", "Qn"}
Waited == {"Q", "K", "h", "R", "I", "E", "D", "A", "s", "P", "?"}
OnLine(cmd) == IF cmd = <<"Qn">> THEN <<"Q">> ELSE cmd

Send ==
  /\ script # <<>> /\ ~waiting /\ Len(toBoard) < MaxLine
  /\ LET cmd == Head(script) IN
     /\ cmd[1] \in NoWait \cup Waited
     /\ toBoard' = Append(toBoard, OnLine(cmd))
     /\ waiting' = (cmd[1] \in Waited)
     /\ script' = IF cmd[1] \in Waited THEN script ELSE Tail(script)
     /\ m_config' = CASE cmd[1] = "K" -> cmd[2] [] cmd[1] = "Qn" -> 0 [] OTHER -> m_config
     /\ m_LEDMatrixOutputs' = IF cmd[1] = "a" THEN [m_LEDMatrixOutputs EXCEPT ![cmd[2]] = cmd[3]]
                              ELSE m_LEDMatrixOutputs
  /\ UNCHANGED <<host, calls, m_endFlag, windows, reading, fromBoard, board, history>>

\* wait_recv.  Reboot forgets the configuration after it; Init throws an exception when the version
\* is empty, and leaves the thread and the port behind.
Receive ==
  /\ waiting \/ Doing("wait")
  /\ m_receive_queue # <<>> /\ m_receive_queue' = Tail(m_receive_queue)
  /\ waiting' = FALSE
  /\ answered' = <<Head(script)[1], Head(m_receive_queue)>>
  /\ m_config' = IF Head(script)[1] = "Q" THEN 0 ELSE m_config
  /\ \/ Done /\ UNCHANGED host
        /\ (Head(script)[1] = "?" => Head(m_receive_queue) # "!")
     \/ /\ Head(script)[1] = "?" /\ Head(m_receive_queue) \in {"!", "tail"}
        /\ host' = "leaked" /\ script' = <<>>
  /\ UNCHANGED <<calls, m_LEDMatrixOutputs, m_endFlag, windows, receiver, batch, line, board,
                 scanned, strayed, refused, lost>>

SetHWND ==
  /\ Doing("hwnd") /\ Done /\ m_hwnd_sstp' = g_hwnd
  /\ UNCHANGED <<host, calls, waiting, m_config, m_LEDMatrixOutputs, m_endFlag, g_hwnd, reading, line,
                 board, history>>

StartThread ==
  /\ Doing("start") /\ Done /\ receiver' = "reading"
  /\ UNCHANGED <<host, calls, waiting, m_config, m_LEDMatrixOutputs, m_endFlag, windows, batch,
                 m_receive_queue, line, board, history>>

EndThread ==
  /\ Doing("end") /\ Done /\ m_endFlag' = TRUE
  /\ UNCHANGED <<host, calls, waiting, m_config, m_LEDMatrixOutputs, windows, reading, line, board,
                 history>>

Join ==
  /\ Doing("join") /\ receiver = "ended" /\ Done
  /\ UNCHANGED <<host, calls, waiting, m_config, m_LEDMatrixOutputs, m_endFlag, windows, reading,
                 line, board, history>>

\* Close: PurgeComm drops what was received, and what was not yet sent.
Close ==
  /\ Doing("close") /\ Done /\ host' = "none"
  /\ receiver' = "none" /\ m_receive_queue' = <<>> /\ batch' = <<>>
  /\ fromBoard' = <<>> /\ toBoard' \in {toBoard, <<>>}
  /\ UNCHANGED <<calls, waiting, m_config, m_LEDMatrixOutputs, m_endFlag, windows, board, history>>

-----------------------------------------------------------------------------
(* The receiver thread. *)

Reports == {"r", "i"}
Others(s) == Without(s, Reports)
Has(s, e) == \E i \in DOMAIN s : s[i] = e

\* command_recv: some messages whole, the reports of a stream after the others and each once.
\* The head of a message that came in with them is thrown away, and its tail is another message, to
\* which a digit or a letter of the reply may give the look of a report.  Once in a run.
Recv ==
  /\ receiver = "reading" /\ batch = <<>> /\ ~m_endFlag
  /\ \E n \in 1 .. Len(fromBoard) :
       LET whole == SubSeq(fromBoard, 1, n)
           rest  == SubSeq(fromBoard, n + 1, Len(fromBoard))
       IN /\ batch' = Others(whole) \o When(Has(whole, "r"), <<"r">>) \o When(Has(whole, "i"), <<"i">>)
          /\ \/ fromBoard' = rest /\ UNCHANGED <<strayed, lost>>
             \/ /\ ~strayed /\ ~lost /\ rest # <<>>
                /\ fromBoard' = <<"tail">> \o Tail(rest) /\ strayed' = TRUE /\ UNCHANGED lost
             \/ /\ ~strayed /\ ~lost /\ rest # <<>> /\ Head(rest) \in {"K", "R", "I", "r", "i"}
                /\ fromBoard' = <<"F">> \o Tail(rest) /\ lost' = TRUE /\ UNCHANGED strayed
  /\ UNCHANGED <<hosting, receiver, m_receive_queue, toBoard, board, answered, scanned, refused>>

\* A bug for a mutant: the replies of the LED matrix are queued.
QueuesMatrix(e) == e \notin {"r", "i", "N", "F"}

\* A bug for a mutant: the button is queued.
QueuesButton(e) == e \notin {"r", "i"} /\ ~(m_config = MATRIX /\ e = "a")

Queues(e) == e \notin {"r", "i", "N", "F"} /\ ~(m_config = MATRIX /\ e = "a")

\* processEvent: SSTP, at most once in the period for a report, for what the board sends of itself, m_receive_queue for the rest.
processEvent ==
  /\ receiver = "reading" /\ batch # <<>>
  /\ batch' = Tail(batch)
  /\ \/ receiver' = "sending" /\ m_hwnd_sstp /\ Head(batch) \in {"r", "i", "N", "F"}
     \/ receiver' = "reading" /\ ~(m_hwnd_sstp /\ Head(batch) \in {"N", "F"})
  /\ m_receive_queue' = IF Queues(Head(batch)) THEN Append(m_receive_queue, Head(batch))
                        ELSE m_receive_queue
  /\ UNCHANGED <<hosting, line, board, history>>

\* A bug for a mutant: SendMessage, which waits until the window has taken the message.
SentNoTimeout ==
  /\ receiver = "sending" /\ script = <<>> /\ receiver' = "reading"
  /\ UNCHANGED <<hosting, batch, m_receive_queue, line, board, history>>

\* send_sstp: the window answers, or a second goes by: its thread may wait in exec.
Sent ==
  /\ receiver = "sending" /\ receiver' = "reading"
  /\ UNCHANGED <<hosting, batch, m_receive_queue, line, board, history>>

EndReceiver ==
  /\ receiver = "reading" /\ batch = <<>> /\ m_endFlag
  /\ receiver' = "ended"
  /\ UNCHANGED <<hosting, batch, m_receive_queue, line, board, history>>

-----------------------------------------------------------------------------
(* The board and the line. *)

Refuses(cmd) ==
  \/ cmd[1] = "K" /\ config # 0
  \/ cmd[1] \notin {"K", "Q", "?"} /\ config = 0
  \/ cmd[1] \in {"R", "r"} /\ config \notin DIN
  \/ cmd[1] \in {"I", "i"} /\ config \notin AIN
  \/ cmd[1] = "D" /\ config \notin DOUT
  \/ cmd[1] \in {"A", "s"} /\ config \notin AOUT
  \/ cmd[1] = "P" /\ config # 8
  \/ cmd[1] = "a" /\ config # MATRIX

\* In the LED matrix mode a single analog output is a row that is too short; the reply to it is
\* not in protocol.xls.
Reply(cmd) ==
  CASE Refuses(cmd)          -> {"!"}
    [] cmd[1] = "s"          -> {"a"} \cup IF config = MATRIX THEN {"!"} ELSE {}
    [] OTHER                 -> {cmd[1]}

\* Nobody takes what comes through a port that is closed.
Closed == host = "none"

Obey ==
  /\ toBoard # <<>> /\ Len(fromBoard) < MaxLine /\ toBoard' = Tail(toBoard)
  /\ LET cmd == Head(toBoard) IN
     /\ IF Closed \/ (cmd[1] \in Reports /\ ~Refuses(cmd)) THEN UNCHANGED fromBoard
        ELSE \E r \in Reply(cmd) : fromBoard' = Append(fromBoard, r)
     /\ refused' = (refused \/ Refuses(cmd))
     /\ config' = CASE cmd[1] = "Q" -> 0
                    [] cmd[1] = "K" /\ config = 0 -> cmd[2]
                    [] OTHER -> config
     /\ streams' = CASE cmd[1] \in {"Q", "E"} -> {}
                     [] cmd[1] \in Reports /\ ~Refuses(cmd) -> streams \cup {cmd[1]}
                     [] OTHER -> streams
     /\ matrix' = CASE cmd[1] = "Q" -> DarkMatrix
                    [] cmd[1] = "a" /\ ~Refuses(cmd) -> [matrix EXCEPT ![cmd[2]] = cmd[3]]
                    [] OTHER -> matrix
  /\ UNCHANGED <<hosting, reading, answered, scanned, strayed, lost>>

\* The button, and the reports of continuous input.
Tell ==
  /\ ~Closed /\ Len(fromBoard) < MaxLine - 1
  /\ \E e \in {"N", "F"} \cup streams : fromBoard' = Append(fromBoard, e)
  /\ UNCHANGED <<hosting, reading, toBoard, board, history>>

\* The line loses a message, once.
Lose ==
  /\ ~strayed /\ ~lost /\ fromBoard # <<>> /\ lost' = TRUE /\ fromBoard' = Tail(fromBoard)
  /\ UNCHANGED <<hosting, reading, toBoard, board, answered, scanned, strayed, refused>>

HostStep == Getc \/ Send \/ Receive \/ SetHWND \/ StartThread \/ EndThread \/ Join \/ Close
ReceiverStep == Recv \/ processEvent \/ Sent \/ EndReceiver

Next ==
  \/ Open \/ Search \/ (\E o \in Operation : exec(o)) \/ hwnd
  \/ HostStep \/ ReceiverStep
  \/ Obey \/ Tell \/ Lose

\* Threads go on and the board obeys.  Nobody need ask for anything, and the board need not tell.
Fairness == WF_vars(HostStep) /\ WF_vars(ReceiverStep) /\ WF_vars(Obey)

Spec == Init /\ [][Next]_vars /\ Fairness

-----------------------------------------------------------------------------
(* Properties. *)

Letter  == Waited \cup {"!", "r", "i", "a", "N", "F", "tail"}
Command ==
  {<<c>> : c \in (Waited \ {"K"}) \cup {"r", "i", "Qn"}}
  \cup {<<"K", m>> : m \in Configs \cup {1}} \cup {<<"a", r, p>> : r \in Rows, p \in Patterns}
Step == Command \cup {<<w>> : w \in {"getc", "start", "wait", "hwnd", "end", "join", "close"}}

\* Every variable stays in its type, and the receiver thread is there while its port is open.
TypeOK ==
  /\ host \in {"none", "search", "ready", "leaked"} /\ script \in Seq(Step)
  /\ calls \in 0 .. MaxCalls /\ waiting \in BOOLEAN
  /\ m_config \in Configs \cup {0, 1} /\ m_LEDMatrixOutputs \in [Rows -> Patterns]
  /\ m_endFlag \in BOOLEAN /\ g_hwnd \in BOOLEAN /\ m_hwnd_sstp \in BOOLEAN
  /\ receiver \in {"none", "reading", "sending", "ended"}
  /\ batch \in Seq(Letter) /\ m_receive_queue \in Seq(Letter)
  /\ toBoard \in Seq(Command) /\ fromBoard \in Seq(Letter)
  /\ Len(toBoard) <= MaxLine /\ Len(fromBoard) <= MaxLine
  /\ config \in Configs \cup {0, 1} /\ streams \subseteq Reports /\ matrix \in [Rows -> Patterns]
  /\ answered \in (Waited \cup {"wait", "none"}) \X (Letter \cup {"none"})
  /\ scanned \subseteq Rows \X Patterns
  /\ strayed \in BOOLEAN /\ refused \in BOOLEAN /\ lost \in BOOLEAN
  /\ host = "ready" /\ script = <<>> => receiver # "none"
  /\ host = "none" => receiver = "none"

\* The reply that ends the wait for a command is the reply to that command, whatever the board sends
\* of itself in between, however much of it the receiver thread takes at once, and in spite of the
\* replies of the LED matrix that nobody waits for.  It is another command's once a reply has
\* strayed: when the port was opened again too early, or a message was cut in two.
ReplyIsOwn ==
  \/ strayed \/ lost \/ answered = NoReply
  \/ answered[2] \in CASE answered[1] = "wait" -> {"Q"}
                       [] answered[1] = "s"    -> {"a", "!"}
                       [] OTHER                -> {answered[1]}

\* Between two calls of exec the plugin knows the configuration of the board, and it gives the
\* board no command that its configuration does not have.
BoardAgrees ==
  \/ strayed \/ lost
  \/ ~refused /\ (host = "ready" /\ script = <<>> => m_config = config)

\* exec returns, unless a message is lost or the reply it waits for is one that is not queued.
ExecReturns ==
  script # <<>> ~> script = <<>> \/ lost \/ (waiting /\ m_config = MATRIX /\ Head(script) = <<"s">>)

\* The readme: scanLine sets the output of a line to the LED array.  Once the board has done what
\* it was sent, the row shows what scanLine, which returned true, was given.
ScanLineSets ==
  host = "ready" /\ script = <<>> /\ toBoard = <<>> /\ ~strayed /\ ~lost
    => \A l \in scanned : matrix[l[1]] = l[2]

=============================================================================
