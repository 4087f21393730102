--------------------------------- MODULE Httpd ---------------------------------
(***************************************************************************)
(* The web server tinyhttpd/httpd.c: the loop of main that accepts         *)
(* connections and creates a thread for each, accept_request with what it  *)
(* calls, and the process execute_cgi forks for a script.                  *)
(*                                                                         *)
(* What the parts share are the open ends of sockets, files and pipes.  A  *)
(* forked process inherits every end the server has open at that moment,   *)
(* those of other requests too, and closes only two of its own, so ends    *)
(* stay open in processes that do not know of them.  A pipe ends for its   *)
(* reader when no process holds its writing end.                           *)
(*                                                                         *)
(* Bytes of a body, bytes of a script's output and lines of a file are     *)
(* counted from 1; in an answer they follow the number of the status line. *)
(***************************************************************************)
EXTENDS Integers, Sequences, FiniteSets

CONSTANTS
  Requests,      \* the connections
  Loads,         \* the demands the clients of the connections may make together
  Environments,  \* what the server may run in
  Cap            \* the bytes a pipe holds

ASSUME CapAssumption == Cap \in Nat \ {0}

(* A demand: the method, whether the url has a query string, the file it    *)
(* names, the lines of that file and whether the last one is ended, the     *)
(* Content-Length (-1 if there is none), the bytes the client sends before  *)
(* it shuts its side, whether it may then close the connection before it    *)
(* has its answer, and what the script does before it exits: "in" reads a   *)
(* byte, "drain" reads until the pipe ends, "out" writes a byte.            *)
Method == {"GET", "POST", "other"}
File == {"missing", "plain", "unreadable", "program"}
Op == {"in", "drain", "out"}
ASSUME LoadsAssumption ==
  \A load \in Loads : \A r \in Requests :
    LET d == load[r]
    IN  /\ d.method \in Method /\ d.query \in BOOLEAN /\ d.file \in File
        /\ d.lines \in Nat /\ d.ended \in BOOLEAN
        /\ d.length \in Int /\ d.body \in Nat /\ d.leaves \in BOOLEAN
        /\ d.script \in Seq(Op)

(* An environment: the size of the table of descriptors, in which four are  *)
(* taken before the first connection, and whether threads and processes may *)
(* fail to be created.                                                      *)
ASSUME EnvironmentsAssumption ==
  \A e \in Environments : e.table \in Nat /\ e.table >= 4 /\ e.faults \in BOOLEAN

VARIABLES
  status,    \* the server: "running", "exited", "crashed", "killed" (by SIGPIPE)
  env,       \* the environment
  demand,    \* demand[r]: what the client of r asks for
  gone,      \* gone[r]: the client has closed its connection
  pc,        \* pc[r]: where the thread of r is
  i,         \* i[r]: the loop counter of the function the thread is in
  c,         \* c[r]: the byte received last, 0 before the first
  server,    \* the ends the server process has open
  script,    \* script[r]: the process forked for r
  input,     \* input[r]: what is in the pipe cgi_input of r
  output,    \* output[r]: what is in the pipe cgi_output of r
  answer     \* answer[r]: what was sent to the client

thread == <<pc, i, c>>
pipes == <<input, output>>
client == <<demand, gone, answer>>
vars == <<status, env, client, thread, server, script, pipes>>

Ends == Requests \X {"client", "file", "outR", "outW", "inR", "inW"}
PC == {"away", "refused", "request", "open", "cat", "pipeOut", "pipeIn", "fork", "closeOutW",
       "closeInR", "feed", "copy", "closeOutR", "closeInW", "wait", "close", "done"}

NoScript == [at |-> "none", left |-> <<>>, ends |-> {}, got |-> <<>>, wrote |-> 0]

Init == /\ status = "running"
        /\ env \in Environments
        /\ demand \in Loads
        /\ gone = [r \in Requests |-> FALSE]
        /\ pc = [r \in Requests |-> "away"]
        /\ i = [r \in Requests |-> 0]
        /\ c = [r \in Requests |-> 0]
        /\ server = {}
        /\ script = [r \in Requests |-> NoScript]
        /\ input = [r \in Requests |-> <<>>]
        /\ output = [r \in Requests |-> <<>>]
        /\ answer = [r \in Requests |-> <<>>]

(* The descriptors taken are the ends, the three standard ones and the      *)
(* listening socket.                                                        *)
Room(n) == Cardinality(server) + 4 + n <= env.table

Holders(end) == {q \in Requests : end \in script[q].ends}
Open(end) == end \in server \/ Holders(end) # {}

At(r, p) == status = "running" /\ pc[r] = p
Goto(r, p) == pc' = [pc EXCEPT ![r] = p]
Say(r, what) == answer' = [answer EXCEPT ![r] = @ \o what]

(* The process ends and the kernel closes what it has open. *)
Die(how) == /\ status' = how
            /\ server' = {}
            /\ UNCHANGED <<env, client, thread, script, pipes>>

-----------------------------------------------------------------------------
(* Variants of definitions below, each a bug this code could have had. *)

CloseInWForgotten(r) ==
  /\ At(r, "closeInW")
  /\ Goto(r, "wait")
  /\ UNCHANGED <<status, env, client, i, c, server, script, pipes>>

CloseEndBlocked(r, from, end, to) ==
  /\ At(r, from)
  /\ server' = IF end = "outW" THEN server ELSE server \ {<<r, end>>}
  /\ Goto(r, to)
  /\ UNCHANGED <<status, env, client, i, c, script, pipes>>

CloseClientForgotten(r) ==
  /\ At(r, "close")
  /\ Goto(r, "done")
  /\ UNCHANGED <<status, env, client, i, c, server, script, pipes>>

FeedUnbounded(r) ==
  /\ At(r, "feed")
  /\ i[r] < demand[r].length
  /\ input' = [input EXCEPT ![r] = Append(@, c[r] + 1)]
  /\ c' = [c EXCEPT ![r] = @ + 1]
  /\ i' = [i EXCEPT ![r] = @ + 1]
  /\ UNCHANGED <<status, env, client, pc, server, script, output>>

CopyNoWait(r) ==
  /\ At(r, "copy")
  /\ IF output[r] # <<>>
     THEN /\ Say(r, <<Head(output[r])>>)
          /\ output' = [output EXCEPT ![r] = Tail(@)]
          /\ UNCHANGED pc
     ELSE /\ Goto(r, "closeOutR")
          /\ UNCHANGED <<output, answer>>
  /\ UNCHANGED <<status, env, demand, gone, i, c, server, script, input>>

ReceivedAnew(r) == {i[r] + 1}

-----------------------------------------------------------------------------
(* main *)

Accept(r) ==
  /\ At(r, "away")
  /\ IF Room(1)
     THEN /\ server' = server \cup {<<r, "client">>}
          /\ \/ Goto(r, "request")
             \/ env.faults /\ Goto(r, "refused")     \* pthread_create fails
          /\ UNCHANGED <<status, env, client, i, c, script, pipes>>
     ELSE Die("exited")                              \* error_die

(* accept_request *)
IsCgi(d) == d.method = "POST" \/ d.query \/ d.file = "program"
Serves(d) == d.method # "other" /\ d.file # "missing" /\ ~IsCgi(d)

Reply(r, what) == Say(r, what) /\ Goto(r, "close") /\ UNCHANGED i

(* After unimplemented the function returns, and the client is not closed.   *)
Dispatch(r) ==
  /\ At(r, "request")
  /\ LET d == demand[r] IN
     \/ d.method = "other" /\ Say(r, <<501>>) /\ Goto(r, "done") /\ UNCHANGED i
     \/ d.method # "other" /\ d.file = "missing" /\ Reply(r, <<404>>)
     \/ Serves(d) /\ Goto(r, "open") /\ UNCHANGED <<answer, i>>
     \/ /\ d.method # "other" /\ d.file # "missing" /\ IsCgi(d)
        /\ IF d.method = "POST" /\ d.length = -1
           THEN Reply(r, <<400>>)
           ELSE Say(r, <<200>>) /\ Goto(r, "pipeOut") /\ UNCHANGED i
  /\ UNCHANGED <<status, env, demand, gone, c, server, script, pipes>>

(* serve_file: when fopen fails, fclose is called with NULL after not_found. *)
OpenFile(r) ==
  /\ At(r, "open")
  /\ IF demand[r].file # "unreadable" /\ Room(1)
     THEN /\ server' = server \cup {<<r, "file">>}
          /\ Say(r, <<200>>)
          /\ Goto(r, "cat")
          /\ UNCHANGED <<status, env, demand, gone, i, c, script, pipes>>
     ELSE Die("crashed")

(* cat: fgets meets the end of the file already in a last line without a    *)
(* newline, and the loop ends before it is sent.                            *)
LinesRead(d) == IF d.ended \/ d.lines = 0 THEN d.lines ELSE d.lines - 1

Cat(r) ==
  /\ At(r, "cat")
  /\ IF i[r] < LinesRead(demand[r])
     THEN /\ Say(r, <<i[r] + 1>>)
          /\ i' = [i EXCEPT ![r] = @ + 1]
          /\ UNCHANGED <<pc, server>>
     ELSE /\ server' = server \ {<<r, "file">>}
          /\ Goto(r, "close")
          /\ UNCHANGED <<answer, i>>
  /\ UNCHANGED <<status, env, demand, gone, c, script, pipes>>

(* A client that has gone makes a later send raise SIGPIPE, which nobody     *)
(* handles.                                                                  *)
Sends(r) == \/ pc[r] = "request" /\ ~Serves(demand[r])
            \/ pc[r] = "open"
            \/ pc[r] = "cat" /\ i[r] < LinesRead(demand[r])
            \/ pc[r] = "copy" /\ output[r] # <<>>
            \/ pc[r] \in {"pipeOut", "pipeIn"} /\ ~Room(2)
            \/ pc[r] = "fork" /\ env.faults

SendFails(r) ==
  /\ status = "running"
  /\ gone[r]
  /\ Sends(r)
  /\ Die("killed")

CloseClient(r) ==
  /\ At(r, "close")
  /\ server' = server \ {<<r, "client">>}
  /\ Goto(r, "done")
  /\ UNCHANGED <<status, env, client, i, c, script, pipes>>

-----------------------------------------------------------------------------
(* execute_cgi *)

CannotExecute(r) ==
  /\ Say(r, <<500>>)
  /\ Goto(r, "close")
  /\ UNCHANGED <<server, script>>

MakePipe(r, from, two, to) ==
  /\ At(r, from)
  /\ IF Room(2)
     THEN /\ server' = server \cup ({r} \X two)
          /\ Goto(r, to)
          /\ UNCHANGED <<script, answer>>
     ELSE CannotExecute(r)
  /\ UNCHANGED <<status, env, demand, gone, i, c, pipes>>

PipeOut(r) == MakePipe(r, "pipeOut", {"outR", "outW"}, "pipeIn")
PipeIn(r) == MakePipe(r, "pipeIn", {"inR", "inW"}, "fork")

(* A file that is no program makes execl fail, and the process exits. *)
Program(r) == IF demand[r].file = "program" THEN demand[r].script ELSE <<>>

Fork(r) ==
  /\ At(r, "fork")
  /\ \/ /\ script' = [script EXCEPT ![r] = [NoScript EXCEPT !.at = "born", !.ends = server]]
        /\ Goto(r, "closeOutW")
        /\ UNCHANGED <<server, answer>>
     \/ env.faults /\ CannotExecute(r)
  /\ UNCHANGED <<status, env, demand, gone, i, c, pipes>>

CloseEnd(r, from, end, to) ==
  /\ At(r, from)
  /\ server' = server \ {<<r, end>>}
  /\ Goto(r, to)
  /\ UNCHANGED <<status, env, client, i, c, script, pipes>>

CloseOutW(r) == CloseEnd(r, "closeOutW", "outW", "closeInR")
CloseInR(r) == CloseEnd(r, "closeInR", "inR", IF demand[r].method = "POST" THEN "feed" ELSE "copy")

(* The result of recv is not looked at: when the client has no more to give, *)
(* c keeps its value and is written again.                                   *)
Received(r) ==
  IF gone[r] THEN {c[r], c[r] + 1} \cap 0..demand[r].body
  ELSE {IF c[r] < demand[r].body THEN c[r] + 1 ELSE c[r]}

Feed(r) ==
  /\ At(r, "feed")
  /\ i[r] < demand[r].length
  /\ IF Open(<<r, "inR">>)
     THEN /\ Len(input[r]) < Cap
          /\ \E b \in Received(r) : /\ c' = [c EXCEPT ![r] = b]
                                    /\ input' = [input EXCEPT ![r] = Append(@, b)]
          /\ i' = [i EXCEPT ![r] = @ + 1]
          /\ UNCHANGED <<status, env, client, pc, server, script, output>>
     ELSE Die("killed")

FeedEnds(r) ==
  /\ At(r, "feed")
  /\ i[r] >= demand[r].length
  /\ Goto(r, "copy")
  /\ UNCHANGED <<status, env, client, i, c, server, script, pipes>>

CopyOut(r) ==
  /\ At(r, "copy")
  /\ \/ /\ output[r] # <<>>
        /\ Say(r, <<Head(output[r])>>)
        /\ output' = [output EXCEPT ![r] = Tail(@)]
        /\ UNCHANGED pc
     \/ /\ output[r] = <<>>
        /\ ~Open(<<r, "outW">>)
        /\ Goto(r, "closeOutR")
        /\ UNCHANGED <<output, answer>>
  /\ UNCHANGED <<status, env, demand, gone, i, c, server, script, input>>

CloseOutR(r) == CloseEnd(r, "closeOutR", "outR", "closeInW")
CloseInW(r) == CloseEnd(r, "closeInW", "inW", "wait")

WaitPid(r) ==
  /\ At(r, "wait")
  /\ script[r].at = "exited"
  /\ script' = [script EXCEPT ![r].at = "reaped"]
  /\ Goto(r, "close")
  /\ UNCHANGED <<status, env, client, i, c, server, pipes>>

-----------------------------------------------------------------------------
(* The forked process, and the client.                                       *)

(* dup2 of the two ends it uses, close of the other two, execl *)
Exec(r) ==
  /\ script[r].at = "born"
  /\ script' = [script EXCEPT ![r].at = "run", ![r].left = Program(r),
                              ![r].ends = @ \ {<<r, "outR">>, <<r, "inW">>}]
  /\ UNCHANGED <<status, env, client, thread, server, pipes>>

Next1(r, op) == script[r].at = "run" /\ script[r].left # <<>> /\ Head(script[r].left) = op

ScriptReads(r) ==
  /\ Next1(r, "in") \/ Next1(r, "drain")
  /\ \/ /\ input[r] # <<>>
        /\ input' = [input EXCEPT ![r] = Tail(@)]
        /\ script' = [script EXCEPT ![r].got = Append(@, Head(input[r])),
                                    ![r].left = IF Next1(r, "in") THEN Tail(@) ELSE @]
     \/ /\ input[r] = <<>>
        /\ ~Open(<<r, "inW">>)
        /\ script' = [script EXCEPT ![r].left = Tail(@)]
        /\ UNCHANGED input
  /\ UNCHANGED <<status, env, client, thread, server, output>>

ScriptWrites(r) ==
  /\ Next1(r, "out")
  /\ Open(<<r, "outR">>)
  /\ Len(output[r]) < Cap
  /\ script' = [script EXCEPT ![r].left = Tail(@), ![r].wrote = @ + 1]
  /\ output' = [output EXCEPT ![r] = Append(@, script[r].wrote + 1)]
  /\ UNCHANGED <<status, env, client, thread, server, input>>

(* It has come to its end, or writes what nobody can read. *)
ScriptExits(r) ==
  /\ script[r].at = "run"
  /\ script[r].left = <<>> \/ (Next1(r, "out") /\ ~Open(<<r, "outR">>))
  /\ script' = [script EXCEPT ![r].at = "exited", ![r].ends = {}]
  /\ UNCHANGED <<status, env, client, thread, server, pipes>>

HangUp(r) ==
  /\ demand[r].leaves
  /\ pc[r] \notin {"away", "done"}
  /\ ~gone[r]
  /\ gone' = [gone EXCEPT ![r] = TRUE]
  /\ UNCHANGED <<status, env, demand, answer, thread, server, script, pipes>>

-----------------------------------------------------------------------------

Thread(r) == \/ Dispatch(r) \/ OpenFile(r) \/ Cat(r) \/ CloseClient(r) \/ SendFails(r)
             \/ PipeOut(r) \/ PipeIn(r) \/ Fork(r) \/ CloseOutW(r) \/ CloseInR(r)
             \/ Feed(r) \/ FeedEnds(r) \/ CopyOut(r) \/ CloseOutR(r) \/ CloseInW(r) \/ WaitPid(r)

Script(r) == Exec(r) \/ ScriptReads(r) \/ ScriptWrites(r) \/ ScriptExits(r)

Next == \E r \in Requests : Accept(r) \/ Thread(r) \/ Script(r) \/ HangUp(r)

Spec == Init /\ [][Next]_vars

(* Threads and processes are scheduled; a client need not do anything. *)
Fairness == \A r \in Requests : WF_vars(Accept(r)) /\ WF_vars(Thread(r)) /\ WF_vars(Script(r))
FairSpec == Spec /\ Fairness

-----------------------------------------------------------------------------
(* Properties *)

TypeOK ==
  /\ status \in {"running", "exited", "crashed", "killed"}
  /\ env \in Environments
  /\ demand \in Loads
  /\ gone \in [Requests -> BOOLEAN]
  /\ pc \in [Requests -> PC]
  /\ i \in [Requests -> Nat] /\ c \in [Requests -> Nat]
  /\ server \subseteq Ends
  /\ Cardinality(server) + 4 <= env.table
  /\ \A r \in Requests :
       /\ script[r].at \in {"none", "born", "run", "exited", "reaped"}
       /\ script[r].left \in Seq(Op) /\ script[r].ends \subseteq Ends
       /\ script[r].got \in Seq(Nat) /\ script[r].wrote \in Nat
       /\ input[r] \in Seq(Nat) /\ Len(input[r]) <= Cap
       /\ output[r] \in Seq(Nat) /\ Len(output[r]) <= Cap
       /\ answer[r] \in Seq(Nat)

(* What the client gets when every call the server makes succeeds: the      *)
(* status, and the lines of the file that end in a newline or all that the  *)
(* script writes.                                                           *)
Count(n) == [k \in 1..n |-> k]
Writes(r) == Cardinality({k \in DOMAIN Program(r) : Program(r)[k] = "out"})

Expected(r) ==
  LET d == demand[r] IN
  CASE d.method = "other" -> <<501>>
    [] d.method # "other" /\ d.file = "missing" -> <<404>>
    [] d.method = "POST" /\ d.file # "missing" /\ d.length = -1 -> <<400>>
    [] Serves(d) -> <<200>> \o Count(LinesRead(d))
    [] OTHER -> <<200>> \o Count(Writes(r))

CgiFailed(r) == answer[r] # <<>> /\ answer[r][Len(answer[r])] = 500

(* accept_request, execute_cgi: a request that has come to its end was       *)
(* answered in order and with all that cat and the script had for it,        *)
(* whatever other requests did meanwhile; in particular the server does not  *)
(* take a pause of the script for its end.                                   *)
AnswerWhole == \A r \in Requests :
  pc[r] = "done" /\ ~CgiFailed(r) => answer[r] = Expected(r)

(* The comment over cat, httpd.c:151: "Put the entire contents of a file out *)
(* on a socket".                                                             *)
EntireFile == \A r \in Requests :
  pc[r] = "done" /\ Serves(demand[r]) => answer[r] = <<200>> \o Count(demand[r].lines)

(* execute_cgi: the script reads the body of its own request in order, each *)
(* byte once, and after the client's last byte that byte again.             *)
ScriptGetsBody == \A r \in Requests :
  ~gone[r] => LET body == script[r].got \o input[r] IN
              \A k \in DOMAIN body : body[k] = IF k <= demand[r].body THEN k ELSE demand[r].body

(* accept_request, execute_cgi: what a request that is over has left open in *)
(* the server.  The return after unimplemented leaves the connection, those  *)
(* after cannot_execute the pipes made so far; every other path closes all   *)
(* that it opened.                                                           *)
Left(r) == {end[2] : end \in {x \in server : x[1] = r}}
MayStay(r) ==
  IF demand[r].method = "other" THEN {{"client"}}
  ELSE IF CgiFailed(r) THEN {{}, {"outR", "outW"}, {"outR", "outW", "inR", "inW"}}
  ELSE {{}}
LeftOpen == \A r \in Requests :
  status = "running" /\ pc[r] = "done" => Left(r) \in MayStay(r)

(* A request that serves a file it can read, or has a script that reads the  *)
(* whole body before it writes anything.                                     *)
Reads(r) == Cardinality({k \in DOMAIN Program(r) : Program(r)[k] = "in"})
WellBehaved(r) ==
  IF Serves(demand[r]) THEN demand[r].file = "plain"
  ELSE demand[r].method # "POST" \/ demand[r].length = -1 \/ Reads(r) = demand[r].length
WellScripted(r) ==
  \A k \in DOMAIN Program(r) :
     /\ Program(r)[k] # "drain"
     /\ Program(r)[k] = "in" => demand[r].method = "POST" /\ k <= demand[r].length
Good(r) == ~demand[r].leaves /\ WellBehaved(r) /\ (IsCgi(demand[r]) => WellScripted(r))

Over(r) == pc[r] \in {"done", "refused"} \/ status # "running"

(* execute_cgi: a good request comes to its end, unless for ever the process *)
(* of another, bad one holds the pipe it inherited from the server.          *)
EndsUnlessHeld == \A r \in Requests :
  Good(r) => \/ <>Over(r)
             \/ <>[](\E q \in Holders(<<r, "outW">>) : q # r /\ ~Good(q))

(* With good requests only, room in the table and no failure the server      *)
(* serves them all, and in the end no process keeps a connection open, which *)
(* is how the client learns the end of the answer: but for the connection of *)
(* an unimplemented method, whose client waits for ever.                     *)
AnswerEnds ==
  /\ \A r \in Requests : Good(r)
  /\ ~env.faults
  /\ env.table >= 4 + 5 * Cardinality(Requests)
  => \A r \in Requests :
       <>[](pc[r] = "done" /\ (Open(<<r, "client">>) <=> demand[r].method = "other"))

=============================================================================
