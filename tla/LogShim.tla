------------------------------ MODULE LogShim ------------------------------
(***************************************************************************)
(* The log callback (log.cpp, log.c and log.m, the same code): two globals *)
(* written one after the other by RootHerald_SetLogCallback and read again *)
(* and again by rh_log, on any thread, without a lock.                     *)
(*                                                                         *)
(* A callback comes with a user_data of its own: one name stands for both, *)
(* so a line is in order when it is handed to f with the user_data f.      *)
(***************************************************************************)
EXTENDS Naturals

CONSTANTS
  LogThreads,  \* threads of the process
  Callbacks,   \* callbacks the embedder registers, each with its user_data
  NULL,
  LogLevels,   \* levels used, ERROR = 0 to TRACE = 4
  MaxRegs,     \* bound: registrations
  MaxLines     \* bound: lines

Unread == "unread"
Ptrs   == Callbacks \cup {NULL}

ASSUME LogConstants ==
  /\ Unread \notin Ptrs
  /\ NULL \notin Callbacks
  /\ LogLevels \subseteq 0..4
  /\ MaxRegs \in Nat /\ MaxLines \in Nat

VARIABLES
  g_log_callback, g_log_user_data, g_log_max_level,
  lpc,      \* where each thread is, "out" of the log shim
  reg,      \* the registration a thread is writing
  fn, data, \* what rh_log has fetched for its call, Unread before
  overlap,  \* history: did a registration overlap a thread's rh_log?
  raced,    \* history: did two registrations overlap?
  regs, lines,
  emitted,  \* history: calls of callbacks
  alive     \* has no call gone through a null pointer?

fetchVars == <<fn, data>>
histVars  == <<overlap, raced, regs, lines, emitted, alive>>
globals   == <<g_log_callback, g_log_user_data, g_log_max_level>>
logVars   == <<globals, lpc, reg, fetchVars, histVars>>

LogInit ==
  /\ g_log_callback = NULL /\ g_log_user_data = NULL
  /\ g_log_max_level = 1                            \* ROOTHERALD_LOG_WARN
  /\ lpc = [t \in LogThreads |-> "out"]
  /\ reg = [t \in LogThreads |-> NULL]
  /\ fn = [t \in LogThreads |-> Unread] /\ data = [t \in LogThreads |-> Unread]
  /\ overlap = [t \in LogThreads |-> FALSE] /\ raced = FALSE
  /\ regs = 0 /\ lines = 0
  /\ emitted = {} /\ alive = TRUE

Registering(t) == lpc[t] = "user_data"
Logging(t)     == lpc[t] \in {"level", "format", "call"}

-----------------------------------------------------------------------------
(* RootHerald_SetLogCallback(callback, user_data), NULL to disable. *)

SetLogCallback(t, f) ==
  /\ lpc[t] = "out" /\ regs < MaxRegs
  /\ g_log_callback' = f
  /\ lpc' = [lpc EXCEPT ![t] = "user_data"] /\ reg' = [reg EXCEPT ![t] = f]
  /\ regs' = regs + 1
  /\ raced' = (raced \/ \E s \in LogThreads : Registering(s))
  /\ overlap' = [s \in LogThreads |-> overlap[s] \/ Logging(s)]
  /\ UNCHANGED <<g_log_user_data, g_log_max_level, fetchVars, lines, emitted, alive>>

\* Mutant: the user_data of the first registration stays.
SetUserData_Once(t) ==
  /\ Registering(t)
  /\ g_log_user_data' = IF g_log_user_data = NULL THEN reg[t] ELSE g_log_user_data
  /\ lpc' = [lpc EXCEPT ![t] = "out"] /\ reg' = [reg EXCEPT ![t] = NULL]
  /\ UNCHANGED <<g_log_callback, g_log_max_level, fetchVars, histVars>>

SetUserData(t) ==
  /\ Registering(t)
  /\ g_log_user_data' = reg[t]
  /\ lpc' = [lpc EXCEPT ![t] = "out"] /\ reg' = [reg EXCEPT ![t] = NULL]
  /\ UNCHANGED <<g_log_callback, g_log_max_level, fetchVars, histVars>>

SetLogLevel(t, l) ==
  /\ lpc[t] = "out"
  /\ g_log_max_level' = l
  /\ UNCHANGED <<g_log_callback, g_log_user_data, lpc, reg, fetchVars, histVars>>

-----------------------------------------------------------------------------
(* rh_log. *)

\* if (g_log_callback == nullptr) return;
LogEnter(t) ==
  /\ lpc[t] = "out" /\ lines < MaxLines
  /\ g_log_callback # NULL
  /\ lpc' = [lpc EXCEPT ![t] = "level"]
  /\ lines' = lines + 1
  /\ overlap' = [overlap EXCEPT ![t] = \E s \in LogThreads : Registering(s)]
  /\ UNCHANGED <<globals, reg, fetchVars, raced, regs, emitted, alive>>

\* if (level > g_log_max_level) return;
LogFilter(t, l) ==
  /\ lpc[t] = "level"
  /\ lpc' = [lpc EXCEPT ![t] = IF l > g_log_max_level THEN "out" ELSE "format"]
  /\ UNCHANGED <<globals, reg, fetchVars, histVars>>

\* Mutant: the call does not wait for the user_data.
FetchCallback_Early(t) ==
  /\ lpc[t] = "format" /\ fn[t] = Unread
  /\ fn' = [fn EXCEPT ![t] = g_log_callback]
  /\ lpc' = [lpc EXCEPT ![t] = "call"]
  /\ UNCHANGED <<globals, reg, data, histVars>>

\* The line is formatted; then the operands of the call are read afresh, in
\* either order.
FetchCallback(t) ==
  /\ lpc[t] = "format" /\ fn[t] = Unread
  /\ fn' = [fn EXCEPT ![t] = g_log_callback]
  /\ lpc' = [lpc EXCEPT ![t] = IF data[t] = Unread THEN "format" ELSE "call"]
  /\ UNCHANGED <<globals, reg, data, histVars>>

FetchUserData(t) ==
  /\ lpc[t] = "format" /\ data[t] = Unread
  /\ data' = [data EXCEPT ![t] = g_log_user_data]
  /\ lpc' = [lpc EXCEPT ![t] = IF fn[t] = Unread THEN "format" ELSE "call"]
  /\ UNCHANGED <<globals, reg, fn, histVars>>

\* g_log_callback(level, buf, g_log_user_data), through a null pointer too.
CallOut(t) ==
  /\ lpc[t] = "call"
  /\ emitted' = emitted \cup {[fn |-> fn[t], data |-> data[t], overlap |-> overlap[t]]}
  /\ alive' = (fn[t] # NULL)
  /\ lpc' = [lpc EXCEPT ![t] = "out"]
  /\ fn' = [fn EXCEPT ![t] = Unread] /\ data' = [data EXCEPT ![t] = Unread]
  /\ UNCHANGED <<globals, reg, overlap, raced, regs, lines>>

LogStep(t) ==
  \/ \E f \in Ptrs : SetLogCallback(t, f)
  \/ SetUserData(t)
  \/ \E l \in LogLevels : SetLogLevel(t, l) \/ LogFilter(t, l)
  \/ LogEnter(t) \/ FetchCallback(t) \/ FetchUserData(t) \/ CallOut(t)

LogNext == alive /\ \E t \in LogThreads : LogStep(t)

LogSpec == LogInit /\ [][LogNext]_logVars

-----------------------------------------------------------------------------
\* The type of every variable.
LogTypeOK ==
  /\ g_log_callback \in Ptrs /\ g_log_user_data \in Ptrs /\ g_log_max_level \in 0..4
  /\ lpc \in [LogThreads -> {"out", "user_data", "level", "format", "call"}]
  /\ reg \in [LogThreads -> Ptrs]
  /\ fn \in [LogThreads -> Ptrs \cup {Unread}]
  /\ data \in [LogThreads -> Ptrs \cup {Unread}]
  /\ overlap \in [LogThreads -> BOOLEAN] /\ raced \in BOOLEAN
  /\ \A t \in LogThreads : lpc[t] = "call" => Unread \notin {fn[t], data[t]}
  /\ emitted \subseteq [fn : Ptrs, data : Ptrs, overlap : BOOLEAN]
  /\ alive \in BOOLEAN

\* "A torn read during registration": a line reaches a callback with the
\* user_data of another, or no callback, only if a registration overlapped the
\* rh_log that emitted it, or two registrations overlapped earlier.
LinesMatchedUnlessRegistering ==
  \A ln \in emitted : \/ ln.fn # NULL /\ ln.fn = ln.data
                      \/ ln.overlap \/ raced
=============================================================================
