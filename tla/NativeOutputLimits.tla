-------------------------- MODULE NativeOutputLimits --------------------------
(***************************************************************************)
(* derive_native_backend_output_delivery_limits: from the thresholds of    *)
(* the session's output queue (high water, hard limit), how much a native  *)
(* backend reads at a time, how much it retains while paused, and how much *)
(* it replays at a time.  The clamp to qsizetype is the identity below     *)
(* 2^63 bytes and is left out.                                             *)
(***************************************************************************)
EXTENDS Integers

CONSTANT MaxReadChunk    \* k_native_backend_output_read_chunk_bytes

ASSUME ReadChunkAssumption == MaxReadChunk \in Nat \ {0}

Least(a, b) == IF a < b THEN a ELSE b

Headroom(high, hard) == IF hard > high THEN hard - high ELSE 1

ReadChunk(high, hard) ==
    LET headroom == Headroom(high, hard)
    IN  IF headroom <= 1 THEN 1 ELSE Least(MaxReadChunk, headroom - 1)

PausedBudget(high, hard) ==
    IF hard <= high THEN ReadChunk(high, hard)
    ELSE IF hard - high <= ReadChunk(high, hard) THEN 1
    ELSE hard - high - ReadChunk(high, hard)

\* delivery_chunk_bytes; high_watermark_bytes is PausedBudget.  (The ConPTY
\* backend caps both with a ceiling of its own.)
ReplayChunk(high, hard) ==
    IF high # 0 THEN Least(PausedBudget(high, hard), high) ELSE PausedBudget(high, hard)
===============================================================================
