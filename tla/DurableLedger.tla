---------------------------- MODULE DurableLedger ---------------------------
(***************************************************************************)
(* What the runtime-state owner promises to the callers of submit, without *)
(* queue, contexts, persistence worker or crashes: an append-only log of   *)
(* commands. A caller may be told that its command is in the log only once *)
(* it is; a caller that is told it is not can rely on that for ever.       *)
(***************************************************************************)
EXTENDS Naturals, Sequences

CONSTANTS Commands,   \* commands, each committed at most once
          Start       \* the command of every process start, may repeat

VARIABLES log,        \* the durable ledger
          acked,      \* commands whose callers were told they succeeded
          rejected    \* commands whose callers were told they did not

lvars == <<log, acked, rejected>>

Holds(l, c) == \E i \in 1..Len(l) : l[i] = c

LedgerInit == log = <<>> /\ acked = {} /\ rejected = {}

\* The log grows by commands that are not in it and were not rejected. More
\* than one may become durable at once: those that an earlier process
\* installed without learning that they were durable.
Extend ==
  /\ log' \in Seq(Commands \cup {Start})
  /\ Len(log) < Len(log')
  /\ \A i \in 1..Len(log) : log'[i] = log[i]
  /\ \A i, j \in 1..Len(log') : log'[i] = log'[j] /\ i # j => log'[i] = Start
  /\ \A c \in rejected : ~Holds(log', c)
  /\ UNCHANGED <<acked, rejected>>

Acknowledge(c) ==
  /\ Holds(log, c)
  /\ acked' = acked \cup {c}
  /\ UNCHANGED <<log, rejected>>

Reject(c) ==
  /\ ~Holds(log, c)
  /\ rejected' = rejected \cup {c}
  /\ UNCHANGED <<log, acked>>

LedgerNext == \/ Extend
              \/ \E c \in Commands : Acknowledge(c) \/ Reject(c)

LedgerSpec == LedgerInit /\ [][LedgerNext]_lvars
=============================================================================
