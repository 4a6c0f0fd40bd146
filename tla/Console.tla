------------------------------ MODULE Console ------------------------------
(***************************************************************************)
(* The ways to give commands: the UART shell and the telnet sessions of    *)
(* os_shell.c and the HTTP task of webportal.c, which has what a command   *)
(* writes captured in a buffer of its own.  They share the environment     *)
(* (Env) and the capture state.                                            *)
(*                                                                         *)
(* A command is what it does to the environment and how many texts it      *)
(* writes.  A text is one unit of the capture buffer.  The prompt and the  *)
(* echo, which take the way of every text, are left out.                   *)
(*                                                                         *)
(* Names that the line editor has too begin with Console, or are longer:   *)
(* ShellProofs extends this module together with LineEditor.               *)
(***************************************************************************)
EXTENDS Env

CONSTANTS
    Telnet,     \* telnet sessions
    OutMax,     \* texts that fit into the buffer of handle_command
    MaxLines    \* bound: lines entered in all sessions together

ASSUME ConsoleAssumption ==
    /\ OutMax \in Nat \ {0} /\ MaxLines \in Nat
    /\ "uart" \notin Telnet /\ "web" \notin Telnet

Sessions == {"uart", "web"} \cup Telnet

VARIABLES
    ses,        \* where a session is, its line and the texts it still has to write
    active,     \* s_capture.active
    output,     \* the buffer of handle_command: who wrote each text
    wrote,      \* texts that the captured command has written
    entered     \* lines entered so far

sessionVars == <<ses, active, output, wrote, entered>>
consoleVars == <<ses, active, output, wrote, entered, envVars>>
capture == <<active, output, wrote>>

\* Lines that shell_execute tells apart; of the commands without an effect on the
\* environment "help" stands for those that only write.
CommandLines ==
    [cmd : {"export"}, name : Proper \cup {Long}, value : Values]
    \cup [cmd : {"unset", "printenv"}, name : Names]
    \cup [cmd : {"env", "help", "nvs erase", "exit", "reboot"}]
Blank == [cmd |-> "none"]

At(s, where)    == ses[s].at = where
Goes(s, where)  == ses' = [ses EXCEPT ![s].at = where]
Session(where)  == [at |-> where, line |-> Blank, texts |-> 0]

Boot == [s \in Sessions |-> Session(IF s \in Telnet THEN "closed" ELSE "ready")]

ConsoleInit ==
    /\ ses = Boot /\ active = FALSE /\ output = <<>> /\ wrote = 0 /\ entered = 0
    /\ EnvInit

-----------------------------------------------------------------------------
(* telnet_server_task and telnet_session_task *)

\* When the task cannot be created nobody owns the socket.
Accept(s) ==
    /\ At(s, "closed")
    /\ \E where \in {"login", "leaked"} : Goes(s, where)
    /\ UNCHANGED <<capture, entered, envVars>>

\* Two lines, compared with the configured name and password.
Login(s) ==
    /\ At(s, "login")
    /\ \E where \in {"ready", "closed"} : Goes(s, where)
    /\ UNCHANGED <<capture, entered, envVars>>

\* shell_readline returns -1: no byte for 100 ms, the end of the connection or ^D.
HangsUp(s) ==
    /\ s \in Telnet /\ ses[s].at \in {"login", "ready"}
    /\ Goes(s, "closed")
    /\ UNCHANGED <<capture, entered, envVars>>

-----------------------------------------------------------------------------
(* shell_execute *)

\* A line is entered.  With a $ in it os_env_expand looks up a variable first.
Enters(s, l) ==
    /\ At(s, "ready") /\ entered < MaxLines /\ entered' = entered + 1
    /\ \E where \in {"expand", "exec"} :
           ses' = [ses EXCEPT ![s] = [at |-> where, line |-> l, texts |-> 0]]

ReadLine(s, l) ==
    /\ s # "web" /\ Enters(s, l)
    /\ UNCHANGED <<capture, envVars>>

\* handle_command, shell_execute_capture: only the HTTP task captures, one request
\* after the other, so that a capture is never in progress here.
HandleCommand(l) ==
    /\ Enters("web", l)
    /\ active' = TRUE /\ output' = <<>> /\ wrote' = 0
    /\ UNCHANGED <<envVars>>

Expand(s) ==
    /\ At(s, "expand") /\ EnvLooks /\ Goes(s, "exec")
    /\ UNCHANGED <<capture, entered>>

\* The command's work is done and n texts are left to write; what it returns matters
\* only for "exit", and "reboot" has its work still to do.
Finishes(s, n) ==
    /\ ses' = [ses EXCEPT ![s] =
                 [at |-> "write", texts |-> n,
                  line |-> IF ses[s].line.cmd \in {"exit", "reboot"} THEN ses[s].line ELSE Blank]]
    /\ UNCHANGED <<capture, entered>>

Runs(s, c) == At(s, "exec") /\ ses[s].line.cmd = c

CmdExport(s) ==
    /\ Runs(s, "export")
    /\ \/ EnvSet(s, ses[s].line.name, ses[s].line.value) /\ Goes(s, "save")
          /\ UNCHANGED <<capture, entered>>
       \/ SetFails(ses[s].line.name) /\ Finishes(s, 1)

CmdUnset(s) ==
    /\ Runs(s, "unset")
    /\ \/ EnvUnset(s, ses[s].line.name) /\ Goes(s, "save")
          /\ UNCHANGED <<capture, entered>>
       \/ NotFound(ses[s].line.name) /\ Finishes(s, 1)

Saves(s) ==
    /\ At(s, "save")
    /\ \/ SaveWrites(s) /\ UNCHANGED <<sessionVars>>
       \/ SaveCommits(s) /\ Finishes(s, IF ses[s].line.cmd = "export" THEN 1 ELSE 0)

CmdPrintenv(s) ==
    /\ Runs(s, "printenv")
    /\ \/ EnvGet(ses[s].line.name) /\ Finishes(s, 2)
       \/ NotFound(ses[s].line.name) /\ Finishes(s, 1)

\* os_env_list writes to the UART or the socket itself and not with shell_write: a
\* capture gets nothing of it.
CmdEnv(s) ==
    /\ Runs(s, "env")
    /\ ListBegins(s) /\ Goes(s, "list")
    /\ UNCHANGED <<capture, entered>>

Lists(s) == At(s, "list") /\ ListEnds(s) /\ Finishes(s, 0)

CmdNvsErase(s) == Runs(s, "nvs erase") /\ NvsErase /\ Finishes(s, 1)

CmdHelp(s)   == Runs(s, "help") /\ Finishes(s, 2) /\ UNCHANGED envVars
CmdExit(s)   == Runs(s, "exit") /\ Finishes(s, 1) /\ UNCHANGED envVars
CmdReboot(s) == Runs(s, "reboot") /\ Finishes(s, 1) /\ UNCHANGED envVars

\* A reset; tables and sessions are gone, the flash remains.
Restarts ==
    /\ ses' = Boot /\ active' = FALSE /\ output' = <<>> /\ wrote' = 0
    /\ EnvRestarts
    /\ UNCHANGED entered

Crash == Restarts

-----------------------------------------------------------------------------
(* shell_write *)

\* Mutant: only what would go to a socket is captured.
ShellWrite_OnlySockets(s) ==
    /\ At(s, "write") /\ ses[s].texts > 0
    /\ Goes(s, IF active /\ s \in Telnet THEN "append" ELSE "send")
    /\ UNCHANGED <<capture, entered, envVars>>

\* The test of s_capture.active, without the lock ...
ShellWrite(s) ==
    /\ At(s, "write") /\ ses[s].texts > 0
    /\ Goes(s, IF active THEN "append" ELSE "send")
    /\ UNCHANGED <<capture, entered, envVars>>

\* A text is written; the captured command counts its own.
Wrote(s) ==
    /\ ses' = [ses EXCEPT ![s].at = "write", ![s].texts = @ - 1]
    /\ wrote' = IF s = "web" THEN wrote + 1 ELSE wrote
    /\ UNCHANGED <<active, entered, envVars>>

\* ... and shell_capture_append, which tests it again under the lock: a text that
\* comes after the end of the capture is lost ...
CaptureAppend(s) ==
    /\ At(s, "append") /\ Wrote(s)
    /\ output' = IF active /\ Len(output) < OutMax THEN Append(output, s) ELSE output

\* ... or the UART or the socket, without the test.
Send(s) == At(s, "send") /\ Wrote(s) /\ UNCHANGED output

\* Every text of the command is written.
AllWritten(s) == At(s, "write") /\ ses[s].texts = 0

Reboots(s) == AllWritten(s) /\ ses[s].line.cmd = "reboot" /\ Restarts

\* Mutant: the capture is not switched off.
ExecReturns_StaysActive(s) ==
    /\ AllWritten(s) /\ ses[s].line.cmd # "reboot"
    /\ ses' = [ses EXCEPT ![s] = Session(
                 IF s = "web" THEN "answer"
                 ELSE IF s \in Telnet /\ ses[s].line.cmd = "exit" THEN "closed" ELSE "ready")]
    /\ UNCHANGED <<capture, entered, envVars>>

\* shell_execute returns: the capture ends, or the next line is read, unless the
\* command was "exit" in a telnet session.
ExecReturns(s) ==
    /\ AllWritten(s) /\ ses[s].line.cmd # "reboot"
    /\ ses' = [ses EXCEPT ![s] = Session(
                 IF s = "web" THEN "answer"
                 ELSE IF s \in Telnet /\ ses[s].line.cmd = "exit" THEN "closed" ELSE "ready")]
    /\ active' = IF s = "web" THEN FALSE ELSE active
    /\ UNCHANGED <<output, wrote, entered, envVars>>

\* The end of handle_command: the buffer is sent, and gone.
Answers ==
    /\ At("web", "answer") /\ Goes("web", "ready")
    /\ output' = <<>> /\ wrote' = 0
    /\ UNCHANGED <<active, entered, envVars>>

-----------------------------------------------------------------------------
\* What a session does by itself once it has a line.
Executes(s) ==
    \/ Expand(s) \/ Saves(s) \/ Lists(s)
    \/ CmdExport(s) \/ CmdUnset(s) \/ CmdPrintenv(s) \/ CmdEnv(s)
    \/ CmdNvsErase(s) \/ CmdHelp(s) \/ CmdExit(s) \/ CmdReboot(s)
    \/ ShellWrite(s) \/ CaptureAppend(s) \/ Send(s) \/ ExecReturns(s) \/ Reboots(s)

ConsoleNext ==
    \/ \E s \in Telnet : Accept(s) \/ Login(s) \/ HangsUp(s)
    \/ \E s \in Sessions \ {"web"}, l \in CommandLines : ReadLine(s, l)
    \/ \E l \in CommandLines : HandleCommand(l)
    \/ \E s \in Sessions : Executes(s)
    \/ Crash \/ Answers

ConsoleSpec == ConsoleInit /\ [][ConsoleNext]_consoleVars

\* Sending to a telnet peer, for which no timeout is set: it ends when the peer reads
\* or goes away, and that may be never.
Sends(s) == s \in Telnet /\ ses[s].at \in {"send", "list"}

\* The processor does not idle while a task is ready, and the UART and the HTTP server,
\* which has a timeout for its answers, take what is written.  No fairness for the peers
\* of telnet.
Works == Answers \/ \E s \in Sessions : ~Sends(s) /\ Executes(s)
ConsoleFairSpec == ConsoleSpec /\ WF_consoleVars(Works)

-----------------------------------------------------------------------------
(* Properties *)

Busy == {"expand", "exec", "save", "list", "write", "append", "send", "answer"}

TypeOK ==
    /\ EnvOK
    /\ ses \in [Sessions -> [at : Busy \cup {"ready", "closed", "leaked", "login"},
                             line : CommandLines \cup {Blank}, texts : 0 .. 2]]
    /\ active \in BOOLEAN /\ wrote \in Nat /\ entered \in 0 .. MaxLines
    /\ output \in Seq(Sessions) /\ Len(output) <= OutMax

\* The answer of the web portal has every text that its command wrote with
\* shell_write, unless its buffer is full: although the capture state is tested
\* without the lock, and texts of other sessions get into the same buffer, no text of
\* the command itself goes another way.
CaptureComplete ==
    /\ TypeOK
    /\ \/ Cardinality({i \in 1 .. Len(output) : output[i] = "web"}) = wrote
       \/ Len(output) = OutMax

\* The buffer is an array in the frame of handle_command, which sends it when
\* shell_execute_capture has returned: another session, wherever it is between its test
\* of s_capture.active and its copy, writes to it only while the captured command runs,
\* not while the buffer is sent and not when it is gone.
OutputOwned ==
    [][output' # output /\ ses'["web"] = ses["web"]
         => ses["web"].at \in Busy \ {"answer"}]_consoleVars

\* All lines that are executed come to their end, also those that have to wait for
\* the environment while other sessions change, save and list it, but for the sessions
\* whose own peer does not read what is sent to it; unless a peer stops reading while its
\* session lists the environment: os_env_list sends with the mutex in its hand, and then
\* everybody waits for that peer.
CommandsEnd ==
    \/ (\E s \in Sessions : ses[s].at \in Busy)
         ~> (\A s \in Sessions : ses[s].at \in Busy => Sends(s))
    \/ \E t \in Telnet : <>[](ses[t].at = "list")
=============================================================================
