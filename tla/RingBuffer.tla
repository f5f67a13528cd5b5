----------------------------- MODULE RingBuffer -----------------------------
(* Lib/RingBuffer.h with one producer and one consumer that run at the same  *)
(* time, one memory access per step: a prologue and Guard::Leave, or, with   *)
(* mutual exclusion around each call, any of its users.                      *)
EXTENDS Naturals, Sequences

CONSTANTS Values,       \* what is put in
          CAPACITY      \* number of slots

ASSUME CapacityAssumption == CAPACITY \in Nat /\ CAPACITY > 1
ASSUME ValuesAssumption == Values # {}

VARIABLES
    data, write, read,      \* m_Data, m_Write, m_Read
    producer,               \* where the producer is: "idle", "fill" or "publish"
    value,                  \* its argument
    consumer,               \* where the consumer is: "idle", "copy" or "release"
    out,                    \* the consumer's OutValue
    dropped,                \* the last Produce found the buffer full
    got                     \* the last value a Consume returned

vars == <<data, write, read, producer, value, consumer, out, dropped, got>>

Slots == 0 .. CAPACITY - 1

After(index) == (index + 1) % CAPACITY

Init ==
    /\ data \in [Slots -> Values]
    /\ write = 0 /\ read = 0
    /\ producer = "idle" /\ consumer = "idle"
    /\ value \in Values /\ out \in Values /\ got = out
    /\ dropped = FALSE

IsEmpty == read = write

IsFull == After(write) = read

\* Produce: the look at m_Read, the write to the slot, the new m_Write.
ProduceBegin(v) ==
    /\ producer = "idle" /\ ~IsFull
    /\ producer' = "fill" /\ value' = v
    /\ UNCHANGED <<data, write, read, consumer, out, dropped, got>>

ProduceFull ==
    /\ producer = "idle" /\ IsFull
    /\ dropped' = TRUE
    /\ UNCHANGED <<data, write, read, producer, value, consumer, out, got>>

\* The mutant writes the slot after the one that is published.
FillNext ==
    /\ producer = "fill"
    /\ data' = [data EXCEPT ![After(write)] = value]
    /\ producer' = "publish"
    /\ UNCHANGED <<write, read, value, consumer, out, dropped, got>>

Fill ==
    /\ producer = "fill"
    /\ data' = [data EXCEPT ![write] = value]
    /\ producer' = "publish"
    /\ UNCHANGED <<write, read, value, consumer, out, dropped, got>>

Publish ==
    /\ producer = "publish"
    /\ write' = After(write) /\ dropped' = FALSE
    /\ producer' = "idle"
    /\ UNCHANGED <<data, read, value, consumer, out, got>>

\* Consume: the look at both indices, the copy, the new m_Read.
ConsumeBegin ==
    /\ consumer = "idle" /\ ~IsEmpty
    /\ consumer' = "copy"
    /\ UNCHANGED <<data, write, read, producer, value, out, dropped, got>>

ConsumeEmpty ==
    /\ consumer = "idle" /\ IsEmpty
    /\ UNCHANGED vars

Copy ==
    /\ consumer = "copy"
    /\ out' = data[read]
    /\ consumer' = "release"
    /\ UNCHANGED <<data, write, read, producer, value, dropped, got>>

Release ==
    /\ consumer = "release"
    /\ read' = After(read) /\ got' = out
    /\ consumer' = "idle"
    /\ UNCHANGED <<data, write, producer, value, out, dropped>>

Next ==
    \/ (\E v \in Values : ProduceBegin(v)) \/ ProduceFull \/ Fill \/ Publish
    \/ ConsumeBegin \/ ConsumeEmpty \/ Copy \/ Release

Spec == Init /\ [][Next]_vars

Count == IF write >= read THEN write - read ELSE CAPACITY - read + write

Room == CAPACITY - 1

(* Indices stay below CAPACITY and slots hold values.                        *)
TypeOK ==
    /\ data \in [Slots -> Values]
    /\ write \in Slots /\ read \in Slots
    /\ producer \in {"idle", "fill", "publish"} /\ consumer \in {"idle", "copy", "release"}
    /\ value \in Values /\ out \in Values /\ got \in Values
    /\ dropped \in BOOLEAN

(* The slot the producer fills is never the one the consumer copies: both    *)
(* decisions were made on indices that have moved on since.                  *)
SlotsApart ==
    ~(producer \in {"fill", "publish"} /\ consumer \in {"copy", "release"} /\ write = read)

(* Count stays within the capacity, and an interrupted Produce or Consume    *)
(* still has room, or a value, when it goes on.                              *)
CountBounded ==
    /\ Count \in 0 .. Room
    /\ producer # "idle" => Count < Room
    /\ consumer # "idle" => Count > 0

\* The values between read and write, in order.
Contents == [n \in 1 .. Count |-> data[(read + n - 1) % CAPACITY]]

Calling == producer # "idle"

Fifo == INSTANCE BoundedFifo WITH queue <- Contents, calling <- Calling

(* The buffer is a bounded first-in first-out queue whatever the order of    *)
(* the two sides' accesses: Produce takes effect, with the value it was      *)
(* called with, when m_Write is stored, Consume when m_Read is, and a drop   *)
(* where the indices were compared.                                          *)
ImplementsFifo == Fifo!Spec
=============================================================================
