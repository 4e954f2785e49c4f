------------------------------- MODULE TxPath -------------------------------
(***************************************************************************)
(* How text leaves the BBS in src/main/bbs.c, and frames the TNC in        *)
(* src/main/main.c.  The worker writes a reply by parts into a buffer of   *)
(* one packet, which is sent whenever it is full and at the end; in        *)
(* terminal mode the UART's task sends what the TNC says, past that        *)
(* buffer.  Both send to the AX.25 link chunk by chunk, and wait and retry *)
(* when it takes no more, up to a limit; the digipeater and the router's   *)
(* port send frames to the UART in the same manner.                        *)
(*                                                                         *)
(* Link and UART are external: each takes chunks until it holds Window of  *)
(* them, passes them on whenever it can, may fail, and the link may go and *)
(* come at any time.  The bytes of a text are numbered from 1.             *)
(***************************************************************************)
EXTENDS Naturals, Sequences, SequencesExt, FiniteSets

CONSTANTS
  InfoLen,   \* AX25_MAX_INFO_LEN
  RetryMax,  \* BBS_SEND_RETRY_MAX, and AX25_UART_SEND_RETRY_MAX
  Window,    \* chunks a destination holds
  TextMax    \* bound: bytes of a text

ASSUME TxAssumption ==
  InfoLen \in Nat \ {0} /\ RetryMax \in Nat \ {0} /\ Window \in Nat \ {0} /\ TextMax \in Nat \ {0}

Senders == {"worker", "tap", "digipeater"}
Destination == [s \in Senders |-> IF s = "digipeater" THEN "uart" ELSE "link"]
Destinations == {"link", "uart"}

VARIABLES
  up,        \* the link
  held,      \* chunks a destination holds
  text,      \* of the worker's reply: bytes not yet given to bbs_txbuf_append()
  part,      \* and the rest of those that were
  tx,        \* bbs_txbuf_t
  data,      \* of each sender: what bbs_send_bytes() has still to send
  attempts

\* History: of each sender, how long its text is, the chunks that were taken
\* from it, and whether sending was given up within it.
VARIABLES length, taken, lost

buffer == <<text, part, tx>>
history == <<length, taken, lost>>
vars == <<up, held, buffer, data, attempts, history>>

Bytes(first, last) == [i \in 1 .. last - first + 1 |-> first + i - 1]
First(seq, n) == SubSeq(seq, 1, IF n < Len(seq) THEN n ELSE Len(seq))
Rest(seq, n) == SubSeq(seq, n + 1, Len(seq))

Sending(s) == data[s] # <<>>
Replying == text # <<>> \/ part # <<>> \/ tx # <<>> \/ Sending("worker")

Begin(s, n) ==
  /\ length' = [length EXCEPT ![s] = n]
  /\ taken' = [taken EXCEPT ![s] = <<>>]
  /\ lost' = [lost EXCEPT ![s] = FALSE]

SendBytes(s, bytes) ==
  /\ data' = [data EXCEPT ![s] = bytes]
  /\ attempts' = [attempts EXCEPT ![s] = 0]
-----------------------------------------------------------------------------
(* The worker's reply: bbs_txbuf_init(), _append() and _flush(). *)

Reply(n) ==
  /\ ~Replying
  /\ text' = Bytes(1, n)
  /\ Begin("worker", n)
  /\ UNCHANGED <<up, held, part, tx, data, attempts>>

AppendPart(n) ==
  /\ ~Sending("worker") /\ part = <<>>
  /\ n \in 1 .. Len(text)
  /\ part' = First(text, n) /\ text' = Rest(text, n)
  /\ UNCHANGED <<up, held, tx, data, attempts, history>>

\* Mutant: a part that does not fit is sent by itself.
CopyWhole ==
  /\ ~Sending("worker") /\ part # <<>>
  /\ part' = <<>>
  /\ IF Len(tx) + Len(part) > InfoLen
     THEN SendBytes("worker", tx \o part) /\ tx' = <<>>
     ELSE tx' = tx \o part /\ UNCHANGED <<data, attempts>>
  /\ UNCHANGED <<up, held, text, history>>

\* What there is room for, and what is full is sent.
Copy ==
  /\ ~Sending("worker") /\ part # <<>>
  /\ LET room == InfoLen - Len(tx)
         full == tx \o First(part, room)
     IN  /\ part' = Rest(part, room)
         /\ IF Len(full) >= InfoLen
            THEN SendBytes("worker", full) /\ tx' = <<>>
            ELSE tx' = full /\ UNCHANGED <<data, attempts>>
  /\ UNCHANGED <<up, held, text, history>>

Flush ==
  /\ ~Sending("worker") /\ part = <<>> /\ text = <<>> /\ tx # <<>>
  /\ SendBytes("worker", tx)
  /\ tx' = <<>>
  /\ UNCHANGED <<up, held, text, part, history>>

\* bbs_send_text() without the buffer.
Answer(n) ==
  /\ ~Replying
  /\ SendBytes("worker", Bytes(1, n))
  /\ Begin("worker", n)
  /\ UNCHANGED <<up, held, buffer>>

\* terminal_rx_tap_cb(), and a frame for send_uart_frame_with_retry().
Other(s, n) ==
  /\ ~Sending(s)
  /\ s = "tap" \/ (s = "digipeater" /\ n = 1)
  /\ SendBytes(s, Bytes(1, n))
  /\ Begin(s, n)
  /\ UNCHANGED <<up, held, buffer>>
-----------------------------------------------------------------------------
(* bbs_send_bytes(): one attempt to send a chunk. *)

Refuses(d) == d = "link" /\ ~up
Full(d) == held[d] = Window

\* Mutant: attempts are not counted.
AttemptUncounted(s) == UNCHANGED <<attempts, data, lost>>

\* ESP_ERR_NO_MEM
Attempt(s) ==
  /\ attempts' = [attempts EXCEPT ![s] = IF @ + 1 = RetryMax THEN 0 ELSE @ + 1]
  /\ data' = IF attempts[s] + 1 = RetryMax THEN [data EXCEPT ![s] = <<>>] ELSE data
  /\ lost' = [lost EXCEPT ![s] = @ \/ attempts[s] + 1 = RetryMax]

\* Mutant: the last byte of a chunk is sent again.
AdvanceLess(s) == data' = [data EXCEPT ![s] = Rest(@, InfoLen - 1)]

Advance(s) == data' = [data EXCEPT ![s] = Rest(@, InfoLen)]

SendOk(s) ==
  /\ Sending(s)
  /\ ~Refuses(Destination[s]) /\ ~Full(Destination[s])
  /\ taken' = [taken EXCEPT ![s] = Append(@, First(data[s], InfoLen))]
  /\ held' = [held EXCEPT ![Destination[s]] = @ + 1]
  /\ Advance(s)
  /\ attempts' = [attempts EXCEPT ![s] = 0]
  /\ UNCHANGED <<up, buffer, length, lost>>

SendNoMem(s) ==
  /\ Sending(s)
  /\ ~Refuses(Destination[s]) /\ Full(Destination[s])
  /\ Attempt(s)
  /\ UNCHANGED <<up, held, buffer, length, taken>>

\* Any error else.
SendFails(s) ==
  /\ Sending(s)
  /\ data' = [data EXCEPT ![s] = <<>>]
  /\ attempts' = [attempts EXCEPT ![s] = 0]
  /\ lost' = [lost EXCEPT ![s] = TRUE]
  /\ UNCHANGED <<up, held, buffer, length, taken>>

\* ESP_ERR_INVALID_STATE when the link is down.
SendRefused(s) == Refuses(Destination[s]) /\ SendFails(s)

SendAttempt(s) == SendOk(s) \/ SendNoMem(s) \/ SendRefused(s)
-----------------------------------------------------------------------------
(* The destinations. *)

Pass(d) ==
  /\ held[d] > 0
  /\ held' = [held EXCEPT ![d] = @ - 1]
  /\ UNCHANGED <<up, buffer, data, attempts, history>>

LinkChanges ==
  /\ up' = ~up
  /\ held' = [held EXCEPT !["link"] = 0]
  /\ UNCHANGED <<buffer, data, attempts, history>>
-----------------------------------------------------------------------------
Init ==
  /\ up = FALSE /\ held = [d \in Destinations |-> 0]
  /\ text = <<>> /\ part = <<>> /\ tx = <<>>
  /\ data = [s \in Senders |-> <<>>] /\ attempts = [s \in Senders |-> 0]
  /\ length = [s \in Senders |-> 0]
  /\ taken = [s \in Senders |-> <<>>] /\ lost = [s \in Senders |-> FALSE]

\* What the worker does by itself.
Worker ==
  \/ \E n \in 1 .. TextMax : AppendPart(n)
  \/ Copy \/ Flush
  \/ SendAttempt("worker")

Next ==
  \/ \E n \in 1 .. TextMax : Reply(n) \/ Answer(n)
  \/ \E s \in Senders, n \in 1 .. TextMax : Other(s, n)
  \/ Worker
  \/ \E s \in Senders \ {"worker"} : SendAttempt(s)
  \/ \E s \in Senders : SendFails(s)
  \/ \E d \in Destinations : Pass(d)
  \/ LinkChanges

\* The worker waits for nothing but the delay between two attempts.  Nothing is
\* asked of the link: it may never pass on what it holds, nor ever fail.
Spec == Init /\ [][Next]_vars /\ WF_vars(Worker)
-----------------------------------------------------------------------------
(* Properties. *)

TypeOK ==
  LET Text == Seq(1 .. TextMax)
  IN  /\ up \in BOOLEAN /\ held \in [Destinations -> 0 .. Window]
      /\ text \in Text /\ part \in Text /\ tx \in Text /\ Len(tx) < InfoLen
      /\ data \in [Senders -> Text]
      /\ attempts \in [Senders -> 0 .. RetryMax - 1]
      /\ length \in [Senders -> 0 .. TextMax]
      /\ taken \in [Senders -> Seq(Text)] /\ lost \in [Senders -> BOOLEAN]

\* No byte of a text is doubled or moved between the buffer, the loops of
\* bbs_txbuf_append and bbs_send_bytes and the link, however the text is cut
\* into parts and whoever else sends; and none is lost unless sending was given
\* up, after which the rest goes on in order.
Whole ==
  \A s \in Senders :
    LET bytes == FlattenSeq(taken[s]) \o data[s]
                   \o (IF s = "worker" THEN tx \o part \o text ELSE <<>>)
    IN  /\ \A i \in 1 .. Len(bytes) - 1 : bytes[i] < bytes[i + 1]
        /\ ~lost[s] => bytes = Bytes(1, length[s])

\* A reply takes as few packets as there can be: each but the last is full,
\* whatever parts it was written in, and none is longer than a packet.
FewPackets ==
  \A s \in Senders : \A i \in DOMAIN taken[s] :
    /\ Len(taken[s][i]) <= InfoLen
    /\ i < Len(taken[s]) \/ length[s] \notin ToSet(taken[s][i])
         => Len(taken[s][i]) = InfoLen

\* The worker gets through any reply, even if the link never takes another
\* chunk, and so comes back to its events.
ReplyEnds == Replying ~> ~Replying
=============================================================================
