----------------------------- MODULE RpcClient ------------------------------
(***************************************************************************)
(* The RPC bridge of topchain/src/bitcoin-cliapi.cpp.                      *)
(*                                                                         *)
(* A bridge entry point (createsubchain, gensubchainblock, commitsubchain, *)
(* genbridgeownerinfo) calls runCommand, which initialises the client and  *)
(* calls CommandRPC, which calls CallRPC in a loop: a connection failure   *)
(* or a server in warm-up is slept on and tried again, anything else ends  *)
(* the loop.  CallRPC sends one HTTP request and runs the event loop,      *)
(* whose callbacks fill the HTTPReply it then classifies.                  *)
(*                                                                         *)
(* runCommand initialises the client anew for every call (AppInitRPC), but *)
(* what it initialises is global: the argument table gArgs and the         *)
(* selected base parameters outlive the call.                              *)
(*                                                                         *)
(* One thread; what it interleaves with is the outside: the server's       *)
(* answer to each attempt and an interruption of the sleeping thread.      *)
(* Strings are abstracted to what the control flow tells apart.  errMsg    *)
(* is written and read wherever errCode is and is not modelled apart.      *)
(***************************************************************************)
EXTENDS Integers, FiniteSets, FiniteSetsExt, TLC

CONSTANTS
    MaxTryTimes,    \* the maxTryTime the entry points pass to runCommand
    ErrCodes,       \* the codes of the error objects the server replies
    Statuses,       \* the HTTP status codes the server answers with
    RequestErrors,  \* the evhttp_request_error values of a failed request
    Null,           \* the null UniValue, the null request
    NotAnObject,    \* an error member that is not an object
    ConfFile,       \* ConfFile[f]: the settings configuration file f holds
    DataDirs,       \* the data directories the requests name ("" for none)
    DefaultDataDir, \* the data directory when -datadir has no value
    RPCPort,        \* RPCPort[c]: BaseParams().RPCPort() of chain c
    atoi            \* atoi[s]: the number the setting s stands for

EXIT_FAILURE    == 1
RPC_IN_WARMUP   == -28
HTTP_ERRORS_WITH_REPLY == {400, 404, 500}
HTTP_UNAUTHORIZED == 401

\* The chains SelectBaseParams knows, and the arguments of the table that
\* this file reads.
Chains == {"main", "test", "regtest"}
Args   == {"-datadir", "-rpcport", "-testnet", "-regtest", "-rpcssl"}

ASSUME /\ MaxTryTimes \in Nat
       /\ ErrCodes \subseteq Int
       /\ Statuses \subseteq Nat
       /\ \A f \in DOMAIN ConfFile : DOMAIN ConfFile[f] \subseteq Args \ {"-datadir"}
       /\ DefaultDataDir # ""
       /\ RPCPort \in [Chains -> Nat]

VARIABLES
    pc,         \* where the thread is
    strMethod,  \* the method of the entry point that is running
    maxTryTime, \* CommandRPC: the loop counter
    response,   \* CallRPC: the HTTPReply the callbacks fill
    nRet,       \* CommandRPC: its return value
    errCode,    \* the entry point's UniValue errCode, filled by reference
    result,     \* the entry point's UniValue result, filled by reference
    strPrint,   \* res.retDebugInfo, passed by reference as strPrint
    res,        \* the other fields of the caller's commonResponse
    ret,        \* what the entry point returned
    info,       \* req.info of the entry point: rpc_conf_file and datadir
    gArgs,      \* the global argument table: argument -> value, if it has one
    baseParams, \* the chain of the global base parameters, once selected
    port,       \* CallRPC: the port the request is sent to
    uniform,    \* history: every call so far carried the same req.info
    attempts,   \* history: the calls of CallRPC the entry point made
    outcome     \* history: how the last attempt, or the set-up, ended

vars == <<pc, strMethod, maxTryTime, response, nRet, errCode, result,
          strPrint, res, ret, info, gArgs, baseParams, port, uniform, attempts,
          outcome>>

-----------------------------------------------------------------------------
(* Data *)

\* The entry points, by the method they send, and the key of the result
\* object each copies to res.retResult (two of them copy nothing).
Methods == {"createsubchaininfo", "gensubchainblock", "commitsubchaininfo", "genbridgeowner"}
Keys == {"data", "result"}
ResultKey(m) ==
    CASE m = "createsubchaininfo" -> {"data"}
      [] m = "gensubchainblock"   -> {"result"}
      [] OTHER                    -> {}

\* A result is null or an object, told apart by its string-valued keys.
Results == {Null} \cup SUBSET Keys

\* A JSON-RPC reply carries a result or an error: an object with a code,
\* or something that is not an object.
Replies == [result : Results, error : {Null}]
             \cup [result : {Null}, error : ErrCodes \cup {NotAnObject}]

\* A body is empty, unparsable, an empty object, or a reply.
Unusable == [bad : {"empty", "garbage", "empty_object"}]
Bodies   == Unusable \cup Replies

\* HTTPReply as CallRPC declares it.
NoReply == [status |-> 0, error |-> -1, body |-> [bad |-> "empty"]]

\* Bound of the history variable `attempts`: it counts no further than one
\* past the most tries the loop can make.
MaxCounted == Max({3, MaxTryTimes}) + 2

\* Faulty variant: the code is returned with its sign.
abs_Signed(n) == n

\* abs of <cstdlib> on an int.  abs(INT_MIN) is undefined: the negation
\* wraps and the builds return INT_MIN.
INT_MIN == -2147483647 - 1
abs(n) == IF n < 0 /\ n # INT_MIN THEN -n ELSE n

-----------------------------------------------------------------------------
(* The global arguments *)

\* What an entry point is asked for: req.info.
Requests == [rpc_conf_file : DOMAIN ConfFile, datadir : DataDirs]

\* gArgs.SoftSetArg: an argument that has a value keeps it.
SoftSetArg(args, arg, value) == args @@ (arg :> value)

\* gArgs.ReadConfigFile: a setting of the file is stored unless the
\* argument has a value.
ReadConfigFile(args, f) == args @@ ConfFile[f]

GetBoolArg(args, arg) == arg \in DOMAIN args /\ args[arg] = "1"

GetDataDir(args) ==
    IF "-datadir" \in DOMAIN args THEN args["-datadir"] ELSE DefaultDataDir

\* ChainNameFromCommandLine throws when both chains are asked for.
Invalid == "invalid"
ChainNameFromCommandLine(args) ==
    CASE GetBoolArg(args, "-regtest") /\ GetBoolArg(args, "-testnet") -> Invalid
      [] GetBoolArg(args, "-regtest") -> "regtest"
      [] GetBoolArg(args, "-testnet") -> "test"
      [] OTHER                        -> "main"

\* The port CallRPC chooses: -rpcport, else the port of the chain.
Port(args, chain) ==
    IF "-rpcport" \in DOMAIN args THEN atoi[args["-rpcport"]] ELSE RPCPort[chain]

-----------------------------------------------------------------------------
(* Returning to the caller of the entry point *)

\* After runCommand: the entry point copies its key of `result`, if it is a
\* string, to res.retResult and returns runCommand's value.
Leave(r) ==
    /\ ret' = r
    /\ res' = [res EXCEPT !.retResult =
                  IF result' # Null /\ ResultKey(strMethod) \cap result' # {}
                  THEN ResultKey(strMethod) ELSE @]
    /\ pc'  = "idle"
    /\ UNCHANGED <<strMethod, info, uniform>>

\* `catch (const std::exception& e)` of CommandRPC.
Fails(how) ==
    /\ strPrint' = "error"
    /\ nRet' = EXIT_FAILURE
    /\ outcome' = how
    /\ Leave(EXIT_FAILURE)

\* `catch (const CConnectionFailed&) { MilliSleep(1000); }`
Caught(how) ==
    /\ outcome' = how
    /\ pc' = "sleep"
    /\ UNCHANGED <<strMethod, nRet, errCode, strPrint, res, ret, info, uniform>>

-----------------------------------------------------------------------------
(* The entry points and runCommand *)

\* What the entry point stores in res.retErrCode: the code in errCode if
\* there is one.
ErrorField(ec) == IF ec # Null THEN ec ELSE 0

\* An entry point up to its call of runCommand: errCode and result are
\* new, the error fields of the caller's response are set from them; its
\* other fields stay as the caller passed them.
Enter(m) ==
    /\ pc = "idle"
    /\ strMethod' = m
    /\ info' \in Requests
    /\ uniform' = (uniform /\ (outcome # "none" => info' = info))
    /\ errCode' = Null /\ result' = Null
    /\ res' = [res EXCEPT !.retErrCode = ErrorField(errCode')]
    /\ attempts' = 0 /\ outcome' = "none"
    /\ pc' = "runCommand"
    /\ UNCHANGED <<maxTryTime, response, nRet, strPrint, ret, gArgs, baseParams, port>>

createsubchain     == Enter("createsubchaininfo")
gensubchainblock   == Enter("gensubchainblock")
commitsubchain     == Enter("commitsubchaininfo")
genbridgeownerinfo == Enter("genbridgeowner")

\* runCommand: SetupNetworking() fails.
NetworkingFails ==
    /\ pc = "runCommand"
    /\ UNCHANGED <<maxTryTime, response, nRet, result, attempts, gArgs, baseParams, port>>
    /\ strPrint' = "error" /\ errCode' = EXIT_FAILURE
    /\ outcome' = "setup_failed"
    /\ Leave(EXIT_FAILURE)

\* Faulty variant: the datadir of the request is not stored.
WithDataDir_Ignored == gArgs

\* AppInitRPC, `gArgs.SoftSetArg("-datadir", datadir)` for a datadir that
\* is not empty: the arguments when the data directory is looked for.
WithDataDir ==
    IF info.datadir # "" THEN SoftSetArg(gArgs, "-datadir", info.datadir) ELSE gArgs

\* The arguments after `gArgs.ReadConfigFile(conffile)`.
Merged == ReadConfigFile(WithDataDir, info.rpc_conf_file)

\* `SelectBaseParams(ChainNameFromCommandLine())`
SelectedChain == ChainNameFromCommandLine(Merged)

\* AppInitRPC returns because the data directory does not exist or the
\* file cannot be read (taken to fail before a setting is stored): both
\* are decided by the file system of the moment.
StopsBeforeFile ==
    /\ gArgs' = WithDataDir
    /\ UNCHANGED baseParams

\* AppInitRPC returns at the chain that cannot be chosen, or at -rpcssl.
StopsAfterFile ==
    /\ gArgs' = Merged
    /\ \/ SelectedChain = Invalid /\ UNCHANGED baseParams
       \/ /\ SelectedChain # Invalid
          /\ baseParams' = SelectedChain
          /\ GetBoolArg(Merged, "-rpcssl")

\* AppInitRPC returns EXIT_FAILURE, or throws.
AppInitRPC_Fails ==
    /\ pc = "runCommand"
    /\ StopsBeforeFile \/ StopsAfterFile
    /\ UNCHANGED <<maxTryTime, response, nRet, errCode, result, strPrint, attempts, port>>
    /\ outcome' = "setup_failed"
    /\ Leave(EXIT_FAILURE)

\* AppInitRPC returns CONTINUE_EXECUTION.
AppInitRPC_Continues ==
    /\ gArgs' = Merged
    /\ SelectedChain # Invalid
    /\ baseParams' = SelectedChain
    /\ ~GetBoolArg(Merged, "-rpcssl")

\* CommandRPC starts after AppInitRPC.
CommandRPC_Begin ==
    /\ pc = "runCommand"
    /\ AppInitRPC_Continues
    /\ UNCHANGED <<response, errCode, result, attempts, port>>
    /\ maxTryTime' = Max({3, MaxTryTimes})
    /\ \/ /\ nRet' = 0
          /\ pc' = "CallRPC"
          /\ UNCHANGED <<strMethod, strPrint, res, ret, outcome, info, uniform>>
       \/ Fails("runtime_error")      \* RPCConvertValues throws

runCommand == NetworkingFails \/ AppInitRPC_Fails \/ CommandRPC_Begin

-----------------------------------------------------------------------------
(* CallRPC *)

\* CallRPC up to event_base_dispatch: the request is on its way, or
\* CConnectionFailed (uri-encode, evhttp_make_request), or runtime_error
\* (no request object, no credentials).
CallRPC_Send ==
    /\ pc = "CallRPC"
    /\ UNCHANGED <<maxTryTime, errCode, result>>
    /\ UNCHANGED <<gArgs, baseParams>>
    /\ port' = Port(gArgs, baseParams)
    /\ attempts' = Min({attempts + 1, MaxCounted})
    /\ response' = NoReply
    /\ \/ /\ pc' = "dispatch"
          /\ UNCHANGED <<strMethod, nRet, strPrint, res, ret, outcome, info, uniform>>
       \/ Caught("conn_failed")
       \/ Fails("runtime_error")

Callback(newpc, reply) ==
    /\ pc' = newpc
    /\ response' = reply
    /\ UNCHANGED <<strMethod, maxTryTime, nRet, errCode, result, strPrint,
                   res, ret, info, gArgs, baseParams, port, uniform, attempts,
                   outcome>>

\* The request failed: libevent reports the error first.
http_error_cb(err) ==
    /\ pc = "dispatch"
    /\ Callback("failed", [response EXCEPT !.error = err])

\* http_request_done with, or without, a request.
http_request_done(req) ==
    \/ /\ pc \in {"dispatch", "failed"}
       /\ req = Null
       /\ Callback("classify", [response EXCEPT !.status = 0])
    \/ /\ pc = "dispatch"
       /\ req # Null
       /\ Callback("classify", [response EXCEPT !.status = req.status, !.body = req.body])

\* What CallRPC makes of the HTTPReply after the event loop.
Verdict(r) ==
    CASE r.status = 0                                               -> "conn_failed"
      [] r.status = HTTP_UNAUTHORIZED                               -> "runtime_error"
      [] r.status >= 400 /\ r.status \notin HTTP_ERRORS_WITH_REPLY  -> "runtime_error"
      [] r.body \in Unusable                                        -> "runtime_error"
      [] OTHER                                                      -> "reply"

-----------------------------------------------------------------------------
(* CommandRPC: one turn of the loop *)

\* `result = find_value(reply, "result")`, then the error of the reply.
Reply(reply) ==
    /\ result' = reply.result
    /\ \/ /\ reply.error = Null
          /\ strPrint' = "result"
          /\ outcome' = "reply_ok"
          /\ Leave(nRet)
          /\ UNCHANGED <<nRet, errCode>>
       \/ /\ reply.error = NotAnObject          \* error["code"].get_int() throws
          /\ Fails("runtime_error")
          /\ UNCHANGED errCode
       \/ /\ reply.error = RPC_IN_WARMUP
          /\ Caught("warmup")
       \/ /\ reply.error \in ErrCodes \ {RPC_IN_WARMUP}
          /\ strPrint' = "error"
          /\ nRet' = abs(reply.error)
          /\ errCode' = reply.error
          /\ outcome' = "reply_error"
          /\ Leave(nRet')

\* CallRPC returns or throws, and CommandRPC deals with it.
CallRPC_Return ==
    /\ pc = "classify"
    /\ UNCHANGED <<maxTryTime, response, attempts, gArgs, baseParams, port>>
    /\ \/ Verdict(response) = "conn_failed" /\ UNCHANGED result /\ Caught("conn_failed")
       \/ Verdict(response) = "runtime_error" /\ UNCHANGED <<errCode, result>>
                                              /\ Fails("runtime_error")
       \/ Verdict(response) = "reply" /\ Reply(response.body)

\* The sleeping thread wakes to an interruption and the call returns r.
Wakes(r) ==
    /\ pc = "sleep"
    /\ UNCHANGED <<maxTryTime, response, nRet, errCode, result, strPrint, attempts,
                   gArgs, baseParams, port>>
    /\ outcome' = "interrupted"
    /\ Leave(r)

\* Faulty variant: the interruption is swallowed.
Interrupted_Swallowed == Wakes(nRet)

\* boost::thread_interrupted leaves CommandRPC (`throw;`) and is caught by
\* runCommand's `catch (...)`, whose `ret` is still EXIT_FAILURE.
Interrupted == Wakes(EXIT_FAILURE)

\* The sleep is over: the loop goes on if `tested` is positive, and the
\* counter becomes `counter`.
Again(tested, counter) ==
    /\ pc = "sleep"
    /\ UNCHANGED <<response, nRet, errCode, result, strPrint, attempts, outcome,
                   gArgs, baseParams, port>>
    /\ maxTryTime' = counter
    /\ \/ tested > 0 /\ pc' = "CallRPC" /\ UNCHANGED <<strMethod, res, ret, info, uniform>>
       \/ tested <= 0 /\ Leave(nRet)

\* Faulty variants: the counter is tested and not decremented; the counter
\* is decremented before it is tested.
Retry_NoDecrement  == Again(maxTryTime, maxTryTime)
Retry_PreDecrement == Again(maxTryTime - 1, maxTryTime - 1)

\* `while (maxTryTime-- > 0)`
Retry == Again(maxTryTime, maxTryTime - 1)

CommandRPC == CallRPC_Return \/ Interrupted \/ Retry

CallRPC ==
    \/ CallRPC_Send
    \/ \E err \in RequestErrors : http_error_cb(err)
    \/ \E req \in {Null} \cup [status : Statuses, body : Bodies] : http_request_done(req)

-----------------------------------------------------------------------------
(* Specification *)

Init ==
    /\ pc = "idle"
    /\ strMethod = "createsubchaininfo"
    /\ maxTryTime = 0
    /\ response = NoReply
    /\ nRet = 0
    /\ errCode = Null /\ result = Null
    /\ strPrint = ""
    /\ res = [retErrCode |-> 0, retResult |-> {}]
    /\ ret = 0
    /\ info = CHOOSE r \in Requests : r.datadir = ""
    /\ gArgs = <<>>
    /\ baseParams = "none"
    /\ port = 0
    /\ uniform = TRUE
    /\ attempts = 0
    /\ outcome = "none"

Call == createsubchain \/ gensubchainblock \/ commitsubchain \/ genbridgeownerinfo

Run == runCommand \/ CallRPC \/ CommandRPC

Next == Call \/ Run

\* A call that was made runs on: the thread is scheduled, the event loop
\* ends (the connection has a timeout), the sleep ends.
Spec == Init /\ [][Next]_vars /\ WF_vars(Run)

-----------------------------------------------------------------------------
(* Properties *)

Returned == pc = "idle" /\ outcome # "none"

TypeOK ==
    /\ pc \in {"idle", "runCommand", "CallRPC", "dispatch", "failed", "classify", "sleep"}
    /\ strMethod \in Methods
    /\ maxTryTime \in -1 .. Max({3, MaxTryTimes})
    /\ response \in [status : Statuses \cup {0}, error : RequestErrors \cup {-1}, body : Bodies]
    /\ nRet \in Nat /\ ret \in Nat
    /\ errCode \in ErrCodes \cup {Null, EXIT_FAILURE}
    /\ result \in Results
    /\ strPrint \in {"", "error", "result"}
    /\ res \in [retErrCode : Int, retResult : SUBSET Keys]
    /\ info \in Requests
    /\ DOMAIN gArgs \subseteq Args
    /\ GetDataDir(gArgs) \in DataDirs \cup {DefaultDataDir}
    /\ baseParams \in Chains \cup {"none"}
    /\ port \in Nat
    /\ uniform \in BOOLEAN
    /\ attempts \in 0 .. MaxCounted
    /\ outcome \in {"none", "setup_failed", "conn_failed", "warmup", "runtime_error",
                    "interrupted", "reply_ok", "reply_error"}

\* What the entry point returns tells how the call ended, whichever of the
\* nested functions and handlers ended it: a failed set-up, an exception
\* in CallRPC or in reading the reply, and an interruption of the sleep
\* between two attempts return EXIT_FAILURE; an error object returns the
\* magnitude of its code and leaves the code in errCode; a result returns 0
\* and reaches the response if the entry point copies it.
ReturnTellsOutcome ==
    Returned =>
        /\ outcome \in {"setup_failed", "runtime_error", "interrupted"} => ret = EXIT_FAILURE
        /\ outcome = "reply_error" => errCode \in ErrCodes /\ ret = abs(errCode)
        /\ outcome = "reply_ok" =>
                /\ ret = 0
                /\ result # Null => ResultKey(strMethod) \cap result \subseteq res.retResult

\* Every call of an entry point returns: CommandRPC's loop ends however
\* often the connection fails or the server is warming up.
Terminates == (pc # "idle") ~> (pc = "idle")

\* How often the retry loop calls CallRPC.  `do ... while (maxTryTime-- > 0)`
\* tests the counter after the attempt and decrements it after the test: a
\* call whose attempts all fail to connect, or meet a server in warm-up,
\* gives up after exactly one attempt more than max(3, maxTryTime), and no
\* call makes more.
GivesUpAfterOneMoreTry ==
    LET most == Max({3, MaxTryTimes}) + 1 IN
    /\ attempts <= most
    /\ (Returned /\ outcome \in {"conn_failed", "warmup"}) => attempts = most

\* A return value of 0 is success, as for the command-line client: the
\* server was reached and its reply carried a result.
ZeroReturnMeansReply == (Returned /\ ret = 0) => outcome = "reply_ok"

\* A reply that carries an error object is a failure: the entry point
\* returns the magnitude of the code, `nRet = abs(code)`, a positive value.
ErrorReturnsPositive == (Returned /\ outcome = "reply_error") => ret > 0

\* The error code of the server's reply is in the response the caller
\* gets: `if (errCode.isNum()) retErrCode = errCode.get_int();`.
ErrorCodeReachesResponse ==
    (Returned /\ outcome = "reply_error") => res.retErrCode = errCode

\* The states in which CallRPC has chosen its port and sent the request.
Sent == pc \in {"dispatch", "failed", "classify"}

\* What a request alone asks for: the settings of its file, its datadir.
Asked(r) ==
    LET args == ReadConfigFile(<<>>, r.rpc_conf_file)
    IN  [port    |-> Port(args, ChainNameFromCommandLine(args)),
         datadir |-> IF r.datadir # "" THEN r.datadir ELSE DefaultDataDir]

Used == [port |-> port, datadir |-> GetDataDir(gArgs)]

\* Every request carries its own rpc_conf_file and datadir, and AppInitRPC
\* is run for each call: the call is sent to the port its configuration
\* file names, from the data directory it names.
CallFollowsItsRequest == Sent => Asked(info) = Used

\* AppInitRPC is that of a client that makes one call per process.  A
\* process whose calls all carry the same req.info is served as that client
\* would serve it, however many of its calls failed in AppInitRPC or in
\* CallRPC before: what earlier calls left in gArgs and in the base
\* parameters is what this call would set.
UniformCallsFollowTheirRequest == (Sent /\ uniform) => Asked(info) = Used

=============================================================================
