---------------------------- MODULE DeliveryProofs ----------------------------
(* The two claims a delivery worker relies on.  First the lease bound of       *)
(* WebhookLease, for every timeout, concurrency, number of attempts and        *)
(* backoff; then what AuditDelivery guarantees for any number of rows, targets *)
(* and workers, where no lease bounds a batch and the reaper meets live        *)
(* workers.                                                                    *)
EXTENDS AuditDelivery, WebhookLease, TLAPS

----------------------------------------------------------------------------
(* The lease.  The inductive invariant LeaseInv bounds the deadline of the     *)
(* current wait by the worst case of everything before it: the finished chunks *)
(* and rounds at WorstCasePerItem each, then the attempts of this one.         *)
Attempt == DnsTimeout + FetchTimeout

\* The latest end of the current wait, from the start of its round.
Spent ==
  IF phase = "dns" THEN (attempt - 1) * Attempt + Backoff[attempt - 1] + DnsTimeout
  ELSE IF phase = "fetch" THEN attempt * Attempt + Backoff[attempt - 1]
  ELSE attempt * Attempt + Backoff[attempt]

\* Rounds finished since the claim.
RoundsDone == chunk * Rounds + (round - 1)

LeaseInv ==
  /\ LeaseTypeOK
  /\ phase # "stopped" => LeaseOk(timeout)
  /\ claimed <= WebhookBatchSize(timeout)
  /\ phase = "backoff" => attempt < Retries
  /\ phase \in Sending =>
       /\ now <= due
       /\ due <= RoundsDone * WorstCasePerItem + Spent

\* Products and quotients, kept away from the state: the provers see each once.
LEMMA MulDist == \A a, b, c \in Int : (a + b) * c = a * c + b * c
  OBVIOUS

LEMMA MulMono == \A a, b \in Int, c \in Nat : a <= b => a * c <= b * c
  OBVIOUS

LEMMA MulCancel == \A a, b \in Int, c \in Nat : a * c < b * c => a < b
  BY MulMono

LEMMA MulNat == \A a, b \in Nat : a * b \in Nat
  OBVIOUS

LEMMA DivBound == \A t \in Nat, d \in Nat \ {0} : t \div d \in Nat /\ (t \div d) * d <= t
  OBVIOUS

LEMMA DivPos == \A t \in Nat, d \in Nat \ {0} : t >= d => t \div d >= 1
  OBVIOUS

\* One attempt and one item take time, and the backoffs are naturals.
LEMMA Sizes ==
  /\ Attempt \in Nat \ {0} /\ WorstCasePerItem \in Nat \ {0} /\ Rounds \in Nat \ {0}
  /\ \A n \in 0 .. Retries : Backoff[n] \in Nat
  <1>1. Attempt \in Nat \ {0}
    BY LeaseAssumption DEF Attempt
  <1>2. \A n \in 0 .. Retries : Backoff[n] \in Nat
    BY LeaseAssumption
  <1>3. Retries * Attempt \in Nat \ {0}
    <2>1. Retries \in Nat \ {0}
      BY LeaseAssumption
    <2>2. 1 * Attempt <= Retries * Attempt
      BY <1>1, <2>1, MulMono
    <2> QED
      BY <1>1, <2>1, <2>2, MulNat
  <1>4. WorstCasePerItem \in Nat \ {0}
    <2>1. Retries - 1 \in 0 .. Retries
      BY LeaseAssumption
    <2> QED
      BY <1>2, <1>3, <2>1 DEF WorstCasePerItem, Attempt
  <1>5. Rounds \in Nat \ {0}
    <2>1. /\ Subscribers + WebhookConcurrency - 1 \in Nat
          /\ WebhookConcurrency \in Nat \ {0}
          /\ Subscribers + WebhookConcurrency - 1 >= WebhookConcurrency
      BY LeaseAssumption
    <2> QED
      BY <2>1, DivBound, DivPos DEF Rounds
  <1> QED
    BY <1>1, <1>2, <1>4, <1>5

\* Whatever the phase, a round is over within the worst case of an item.
LEMMA SpentBound ==
  ASSUME LeaseTypeOK, phase \in Sending, phase = "backoff" => attempt < Retries
  PROVE  Spent \in Nat /\ Spent <= WorstCasePerItem
  <1> DEFINE last == Retries - 1
  <1>1. /\ attempt \in 1 .. Retries /\ Retries \in Nat \ {0}
        /\ attempt - 1 \in 0 .. Retries /\ attempt \in 0 .. Retries /\ last \in 0 .. Retries
        /\ attempt - 1 <= last
    BY LeaseAssumption DEF LeaseTypeOK
  <1>2. Attempt \in Nat /\ DnsTimeout \in Nat /\ DnsTimeout <= Attempt
    BY LeaseAssumption DEF Attempt
  <1>3. /\ Backoff[attempt - 1] \in Nat /\ Backoff[attempt] \in Nat /\ Backoff[last] \in Nat
        /\ Backoff[attempt - 1] <= Backoff[last]
        /\ attempt <= last => Backoff[attempt] <= Backoff[last]
    BY <1>1, LeaseAssumption
  <1>4. /\ attempt * Attempt \in Nat /\ (attempt - 1) * Attempt \in Nat
        /\ attempt * Attempt <= Retries * Attempt
        /\ (attempt - 1) * Attempt + Attempt = attempt * Attempt
        /\ Retries * Attempt \in Nat
    <2>1. attempt - 1 \in Nat /\ attempt \in Nat /\ (attempt - 1) + 1 = attempt /\ attempt <= Retries
      BY <1>1
    <2>2. ((attempt - 1) + 1) * Attempt = (attempt - 1) * Attempt + 1 * Attempt
      BY <2>1, <1>2, MulDist
    <2>3. attempt * Attempt <= Retries * Attempt
      BY <1>1, <1>2, MulMono
    <2> QED
      BY <1>1, <1>2, <2>1, <2>2, <2>3, MulNat
  <1>5. WorstCasePerItem = Retries * Attempt + Backoff[last]
    BY DEF WorstCasePerItem, Attempt
  <1>6. CASE phase = "dns"
    BY <1>2, <1>3, <1>4, <1>5, <1>6 DEF Spent
  <1>7. CASE phase = "fetch"
    BY <1>2, <1>3, <1>4, <1>5, <1>7 DEF Spent
  <1>8. CASE phase = "backoff"
    <2>1. attempt <= last
      BY <1>1, <1>8
    <2> QED
      BY <1>2, <1>3, <1>4, <1>5, <1>8, <2>1 DEF Spent
  <1> QED
    BY <1>6, <1>7, <1>8 DEF Sending

LEMMA MulShuffle == \A k, r, p \in Int : 2 * ((k * r) * p) = (k * (2 * p)) * r
  OBVIOUS

\* A chunk that still has an item to run is one the lease has room for.
LEMMA ChunkFits ==
  ASSUME LeaseInv, phase \in Sending
  PROVE  ChunksPerLease(timeout) \in Nat /\ chunk + 1 <= ChunksPerLease(timeout)
  <1> DEFINE k == ChunksPerLease(timeout)
  <1>1. timeout \in Nat /\ chunk \in Nat /\ claimed \in Nat /\ Concurrency \in Nat \ {0}
    BY LeaseAssumption DEF LeaseInv, LeaseTypeOK
  <1>2. 2 * WorstCasePerItem \in Nat \ {0} /\ timeout >= 2 * WorstCasePerItem
    BY Sizes DEF LeaseInv, LeaseOk, Sending
  <1>3. k \in Nat /\ k >= 1
    BY <1>1, <1>2, DivBound, DivPos DEF ChunksPerLease
  <1>4. k * Concurrency >= 1 /\ k * Concurrency \in Nat /\ Concurrency * k = k * Concurrency
    <2>1. 1 * Concurrency <= k * Concurrency
      BY <1>1, <1>3, MulMono
    <2> QED
      BY <1>1, <1>3, <2>1, MulNat
  <1>5. WebhookBatchSize(timeout) = k * Concurrency
    BY <1>4 DEF WebhookBatchSize
  <1>6. chunk * Concurrency < k * Concurrency
    <2>1. chunk * Concurrency < claimed /\ claimed <= WebhookBatchSize(timeout)
      BY DEF LeaseInv, LeaseTypeOK
    <2>2. chunk * Concurrency \in Nat
      BY <1>1, MulNat
    <2> QED
      BY <1>1, <1>4, <1>5, <2>1, <2>2
  <1>7. chunk < k
    BY <1>1, <1>3, <1>6, MulCancel
  <1> QED
    BY <1>1, <1>3, <1>7

\* The invariant gives the bound: all rounds up to and including this one, at
\* their worst, fit in half the timeout per round.
LEMMA InvImpliesHalfLease ==
  ASSUME LeaseInv
  PROVE  HalfLeaseHeld
  <1> SUFFICES ASSUME phase \in Sending
               PROVE  2 * now <= Rounds * timeout
    BY DEF HalfLeaseHeld
  <1> DEFINE k == ChunksPerLease(timeout)
             p == WorstCasePerItem
  <1>1. k \in Nat /\ chunk + 1 <= k
    BY ChunkFits
  <1>2. /\ chunk \in Nat /\ round \in 1 .. Rounds /\ now \in Nat /\ due \in Nat /\ timeout \in Nat
        /\ now <= due /\ due <= RoundsDone * p + Spent
    BY LeaseAssumption DEF LeaseInv, LeaseTypeOK
  <1>3. p \in Nat \ {0} /\ Rounds \in Nat \ {0}
    BY Sizes
  <1>4. Spent \in Nat /\ Spent <= p
    BY SpentBound DEF LeaseInv
  <1>5. RoundsDone \in Nat /\ RoundsDone + 1 <= k * Rounds /\ k * Rounds \in Nat
    <2>1. chunk * Rounds \in Nat /\ k * Rounds \in Nat
      BY <1>1, <1>2, <1>3, MulNat
    <2>2. (chunk + 1) * Rounds = chunk * Rounds + 1 * Rounds
      BY <1>2, <1>3, MulDist
    <2>3. (chunk + 1) * Rounds <= k * Rounds
      BY <1>1, <1>2, <1>3, MulMono
    <2> QED
      BY <1>2, <1>3, <2>1, <2>2, <2>3 DEF RoundsDone
  <1>6. RoundsDone * p + p <= (k * Rounds) * p
    <2>1. (RoundsDone + 1) * p = RoundsDone * p + 1 * p
      BY <1>3, <1>5, MulDist
    <2>2. (RoundsDone + 1) * p <= (k * Rounds) * p
      BY <1>3, <1>5, MulMono
    <2> QED
      BY <1>3, <2>1, <2>2
  <1>7. RoundsDone * p \in Nat /\ (k * Rounds) * p \in Nat
    BY <1>3, <1>5, MulNat
  <1>8. now <= (k * Rounds) * p
    BY <1>2, <1>3, <1>4, <1>6, <1>7
  <1>9. 2 * ((k * Rounds) * p) <= Rounds * timeout
    <2>1. k * (2 * p) <= timeout /\ k * (2 * p) \in Nat
      BY <1>1, <1>2, <1>3, DivBound, MulNat DEF ChunksPerLease
    <2>2. (k * (2 * p)) * Rounds <= timeout * Rounds
      BY <1>2, <1>3, <2>1, MulMono
    <2>3. timeout * Rounds = Rounds * timeout
      BY <1>2, <1>3
    <2>4. 2 * ((k * Rounds) * p) = (k * (2 * p)) * Rounds
      BY <1>1, <1>3, MulShuffle
    <2> QED
      BY <2>2, <2>3, <2>4
  <1> QED
    BY <1>2, <1>3, <1>7, <1>8, <1>9, MulNat

LEMMA InitLease == LeaseInit => LeaseInv
  <1> SUFFICES ASSUME LeaseInit PROVE LeaseInv
    OBVIOUS
  <1>1. timeout \in Nat /\ WebhookBatchSize(timeout) \in Nat
    <2>1. timeout \in Nat
      BY LeaseAssumption DEF LeaseInit
    <2>2. ChunksPerLease(timeout) \in Nat
      BY <2>1, Sizes, DivBound DEF ChunksPerLease
    <2>3. Concurrency * ChunksPerLease(timeout) \in Nat
      BY <2>2, LeaseAssumption, MulNat
    <2> QED
      BY <2>1, <2>3 DEF WebhookBatchSize
  <1>2. 1 \in 1 .. Rounds /\ 1 \in 1 .. Retries
    BY Sizes, LeaseAssumption
  <1> QED
    BY <1>1, <1>2 DEF LeaseInit, LeaseInv, LeaseTypeOK, Sending

\* The first attempt of a round has only its own DNS deadline behind it.
LEMMA FreshAttempt ==
  ASSUME LeaseTypeOK, attempt' = 1, phase' = "dns"
  PROVE  Spent' = DnsTimeout
  <1>1. (1 - 1) * Attempt = 0 /\ Backoff[1 - 1] = 0 /\ DnsTimeout \in Nat
    BY Sizes, LeaseAssumption
  <1> QED
    BY <1>1 DEF Spent

\* A finished webhook: the rounds so far, this one at its worst, are the rounds
\* done when the next attempt starts.
LEMMA WebhookDoneStep ==
  ASSUME LeaseInv, phase \in {"dns", "fetch"}, WebhookDone
  PROVE  LeaseInv'
  <1> DEFINE p == WorstCasePerItem
  <1>1. phase \in Sending
    BY DEF Sending
  <1>2. /\ chunk \in Nat /\ round \in 1 .. Rounds /\ now \in Nat /\ due \in Nat /\ claimed \in Nat
        /\ timeout \in Timeouts /\ attempt \in 1 .. Retries
        /\ now <= due /\ due <= RoundsDone * p + Spent
    BY <1>1 DEF LeaseInv, LeaseTypeOK
  <1>3. p \in Nat \ {0} /\ Rounds \in Nat \ {0} /\ DnsTimeout \in Nat /\ 1 \in 1 .. Retries
    BY Sizes, LeaseAssumption
  <1>4. Spent \in Nat /\ Spent <= p
    BY <1>1, SpentBound DEF LeaseInv
  <1>5. RoundsDone \in Nat /\ RoundsDone * p \in Nat /\ (RoundsDone + 1) * p = RoundsDone * p + p
    <2>1. chunk * Rounds \in Nat
      BY <1>2, <1>3, MulNat
    <2>2. RoundsDone \in Nat
      BY <1>2, <1>3, <2>1 DEF RoundsDone
    <2>3. (RoundsDone + 1) * p = RoundsDone * p + 1 * p
      BY <1>3, <2>2, MulDist
    <2> QED
      BY <1>3, <2>2, <2>3, MulNat
  <1>6. now <= (RoundsDone + 1) * p
    BY <1>2, <1>3, <1>4, <1>5
  <1>7. /\ timeout' = timeout /\ now' = now /\ claimed' = claimed
        /\ LeaseOk(timeout) /\ claimed <= WebhookBatchSize(timeout)
    BY <1>1 DEF LeaseInv, WebhookDone, Sending
  <1>8. ASSUME RoundsDone' = RoundsDone + 1, BeginAttempt(1, now),
               chunk' \in Nat, round' \in 1 .. Rounds, chunk' * Concurrency < claimed
        PROVE  LeaseInv'
    <2>1. phase' = "dns" /\ attempt' = 1 /\ due' = now + DnsTimeout
      BY <1>8 DEF BeginAttempt
    <2>2. Spent' = DnsTimeout
      BY <2>1, FreshAttempt DEF LeaseInv
    <2>3. due' <= RoundsDone' * p + Spent' /\ now <= due' /\ due' \in Nat
      BY <1>2, <1>3, <1>5, <1>6, <1>8, <2>1, <2>2
    <2>4. LeaseTypeOK'
      BY <1>2, <1>3, <1>7, <1>8, <2>1, <2>3 DEF LeaseTypeOK, Sending, Rounds
    <2> QED
      BY <1>7, <2>1, <2>3, <2>4 DEF LeaseInv, LeaseOk, WebhookBatchSize, ChunksPerLease,
         WorstCasePerItem
  <1>9. CASE round < Rounds /\ round' = round + 1 /\ chunk' = chunk /\ BeginAttempt(1, now)
    <2>1. chunk * Rounds \in Nat
      BY <1>2, <1>3, MulNat
    <2>2. RoundsDone' = RoundsDone + 1
      BY <1>2, <1>9, <2>1 DEF RoundsDone, Rounds
    <2>3. chunk' * Concurrency < claimed
      BY <1>1, <1>9 DEF LeaseInv, LeaseTypeOK
    <2> QED
      BY <1>2, <1>3, <1>8, <1>9, <2>2, <2>3
  <1>10. CASE /\ round = Rounds /\ (chunk + 1) * Concurrency < claimed
              /\ chunk' = chunk + 1 /\ round' = 1 /\ BeginAttempt(1, now)
    <2>1. chunk * Rounds \in Nat /\ (chunk + 1) * Rounds = chunk * Rounds + Rounds
      BY <1>2, <1>3, MulNat, MulDist
    <2>2. RoundsDone' = RoundsDone + 1
      BY <1>2, <1>3, <1>10, <2>1 DEF RoundsDone, Rounds
    <2> QED
      BY <1>2, <1>3, <1>8, <1>10, <2>2
  <1>11. CASE phase' = "idle" /\ UNCHANGED <<due, chunk, round, attempt>>
    BY <1>2, <1>7, <1>11 DEF LeaseInv, LeaseTypeOK, Sending, LeaseOk, WebhookBatchSize,
       ChunksPerLease, WorstCasePerItem, Rounds
  <1> QED
    BY <1>9, <1>10, <1>11 DEF WebhookDone

\* Every action keeps the invariant.
LEMMA LeaseStep == LeaseInv /\ [LeaseNext]_leaseVars => LeaseInv'
  <1> SUFFICES ASSUME LeaseInv, [LeaseNext]_leaseVars
               PROVE  LeaseInv'
    OBVIOUS
  <1> DEFINE p == WorstCasePerItem
             base == RoundsDone * p
  <1>1. /\ chunk \in Nat /\ round \in 1 .. Rounds /\ now \in Nat /\ due \in Nat /\ claimed \in Nat
        /\ timeout \in Timeouts /\ attempt \in 1 .. Retries
    BY DEF LeaseInv, LeaseTypeOK
  <1>2. /\ p \in Nat \ {0} /\ Rounds \in Nat \ {0} /\ Attempt \in Nat \ {0}
        /\ DnsTimeout \in Nat /\ FetchTimeout \in Nat /\ Attempt = DnsTimeout + FetchTimeout
        /\ Retries \in Nat \ {0} /\ \A n \in 0 .. Retries : Backoff[n] \in Nat
    BY Sizes, LeaseAssumption DEF Attempt
  <1>3. base \in Nat
    <2>1. chunk * Rounds \in Nat
      BY <1>1, <1>2, MulNat
    <2>2. RoundsDone \in Nat
      BY <1>1, <1>2, <2>1 DEF RoundsDone
    <2> QED
      BY <1>2, <2>2, MulNat
  <1>4. CASE Start
    BY <1>1, <1>4 DEF Start, LeaseInv, LeaseTypeOK, Sending, LeaseOk, WebhookBatchSize,
       ChunksPerLease, WorstCasePerItem, Rounds
  <1>5. ASSUME NEW n \in 1 .. WebhookBatchSize(timeout), ClaimBatch(n)
        PROVE  LeaseInv'
    <2>1. /\ phase' = "dns" /\ attempt' = 1 /\ due' = DnsTimeout /\ now' = 0 /\ chunk' = 0
          /\ round' = 1 /\ claimed' = n /\ timeout' = timeout /\ LeaseOk(timeout)
      BY <1>2, <1>5 DEF ClaimBatch, BeginAttempt, LeaseInv
    <2>2. Spent' = DnsTimeout
      BY <2>1, FreshAttempt DEF LeaseInv
    <2>3. RoundsDone' * p = 0
      <3>1. 0 * Rounds = 0 /\ 0 * p = 0
        BY <1>2
      <3>2. RoundsDone' = 0
        BY <2>1, <3>1 DEF RoundsDone, Rounds
      <3> QED
        BY <3>1, <3>2
    <2>4. WebhookBatchSize(timeout) \in Nat
      <3>1. ChunksPerLease(timeout) \in Nat
        BY <1>1, Sizes, LeaseAssumption, DivBound DEF ChunksPerLease
      <3>2. Concurrency * ChunksPerLease(timeout) \in Nat
        BY <3>1, LeaseAssumption, MulNat
      <3> QED
        BY <3>2 DEF WebhookBatchSize
    <2>5. n \in Nat /\ 1 <= n /\ n <= WebhookBatchSize(timeout) /\ 0 * Concurrency = 0
      BY <1>5, <2>4, LeaseAssumption
    <2>6. LeaseTypeOK'
      BY <1>1, <1>2, <2>1, <2>5 DEF LeaseTypeOK, Sending, Rounds
    <2> QED
      BY <1>2, <2>1, <2>2, <2>3, <2>5, <2>6 DEF LeaseInv, LeaseOk, WebhookBatchSize, ChunksPerLease,
         WorstCasePerItem
  \* The waits of one webhook: the rest of the state stands still.
  <1>6. ASSUME UNCHANGED <<timeout, claimed, chunk, round>>, phase \in Sending,
               phase' \in Sending, phase' = "backoff" => attempt' < Retries,
               attempt' \in 1 .. Retries, now' \in Nat, due' \in Nat, now' <= due',
               due' <= base + Spent'
        PROVE  LeaseInv'
    <2>1. RoundsDone' = RoundsDone
      BY <1>6 DEF RoundsDone, Rounds
    <2>2. LeaseTypeOK'
      BY <1>6 DEF LeaseInv, LeaseTypeOK, Sending, Rounds
    <2>3. /\ timeout' = timeout /\ LeaseOk(timeout) /\ claimed' = claimed
          /\ claimed <= WebhookBatchSize(timeout)
      BY <1>6 DEF LeaseInv, Sending
    <2> QED
      BY <1>6, <2>1, <2>2, <2>3 DEF LeaseInv, LeaseOk, WebhookBatchSize, ChunksPerLease,
         WorstCasePerItem
  <1>7. attempt - 1 \in 0 .. Retries /\ attempt \in 0 .. Retries
    BY <1>1, <1>2
  <1>8. /\ (attempt - 1) * Attempt \in Nat /\ attempt * Attempt \in Nat
        /\ attempt * Attempt = (attempt - 1) * Attempt + Attempt
        /\ Backoff[attempt - 1] \in Nat /\ Backoff[attempt] \in Nat
        /\ Backoff[attempt - 1] <= Backoff[attempt]
    <2>1. attempt - 1 \in Nat /\ attempt \in Nat /\ (attempt - 1) + 1 = attempt
      BY <1>1, <1>2
    <2>2. ((attempt - 1) + 1) * Attempt = (attempt - 1) * Attempt + 1 * Attempt
      BY <1>2, <2>1, MulDist
    <2>3. Backoff[attempt - 1] <= Backoff[attempt]
      BY <1>1, <1>2, <1>7, LeaseAssumption
    <2> QED
      BY <1>2, <1>7, <2>1, <2>2, <2>3, MulNat
  <1>9. CASE Resolved
    <2>1. /\ phase = "dns" /\ phase' = "fetch" /\ due' = now + FetchTimeout
          /\ now' = now /\ attempt' = attempt /\ UNCHANGED <<timeout, claimed, chunk, round>>
      BY <1>9 DEF Resolved
    <2>2. now <= base + ((attempt - 1) * Attempt + Backoff[attempt - 1] + DnsTimeout)
      BY <1>1, <1>2, <1>3, <1>8, <2>1 DEF LeaseInv, Sending, Spent
    <2>3. Spent' = attempt * Attempt + Backoff[attempt - 1]
      BY <2>1 DEF Spent
    <2>4. due' <= base + Spent' /\ now <= due' /\ due' \in Nat
      BY <1>1, <1>2, <1>3, <1>8, <2>1, <2>2, <2>3
    <2> QED
      BY <1>1, <1>6, <2>1, <2>4 DEF Sending
  <1>10. CASE /\ phase \in {"dns", "fetch"} /\ attempt < Retries /\ phase' = "backoff"
              /\ due' = now + (Backoff[attempt] - Backoff[attempt - 1])
              /\ UNCHANGED <<timeout, now, claimed, chunk, round, attempt>>
    <2>1. now <= base + (attempt * Attempt + Backoff[attempt - 1])
      BY <1>1, <1>2, <1>3, <1>8, <1>10 DEF LeaseInv, Sending, Spent
    <2>2. Spent' = attempt * Attempt + Backoff[attempt]
      BY <1>10 DEF Spent
    <2>3. due' <= base + Spent' /\ now <= due' /\ due' \in Nat
      BY <1>1, <1>2, <1>3, <1>8, <1>10, <2>1, <2>2
    <2> QED
      BY <1>1, <1>6, <1>10, <2>3 DEF Sending
  <1>11. CASE BackoffOver
    <2>1. /\ phase = "backoff" /\ attempt' = attempt + 1 /\ phase' = "dns"
          /\ due' = now + DnsTimeout /\ now' = now /\ UNCHANGED <<timeout, claimed, chunk, round>>
          /\ attempt < Retries
      BY <1>11 DEF BackoffOver, BeginAttempt, LeaseInv
    <2>2. now <= base + (attempt * Attempt + Backoff[attempt])
      BY <1>1, <1>2, <1>3, <1>8, <2>1 DEF LeaseInv, Sending, Spent
    <2>3. Spent' = attempt * Attempt + Backoff[attempt] + DnsTimeout
      <3>1. (attempt + 1) - 1 = attempt
        BY <1>1, <1>2
      <3> QED
        BY <2>1, <3>1 DEF Spent
    <2>4. due' <= base + Spent' /\ now <= due' /\ due' \in Nat /\ attempt' \in 1 .. Retries
      BY <1>1, <1>2, <1>3, <1>8, <2>1, <2>2, <2>3
    <2> QED
      BY <1>1, <1>6, <2>1, <2>4 DEF Sending
  <1>12. CASE Tick
    <2>1. /\ phase \in Sending /\ phase' = phase /\ now < due /\ now' = now + 1 /\ due' = due
          /\ attempt' = attempt /\ UNCHANGED <<timeout, claimed, chunk, round>>
      BY <1>12 DEF Tick
    <2>2. Spent' = Spent
      BY <2>1 DEF Spent
    <2>3. due <= base + Spent /\ (phase = "backoff" => attempt < Retries)
      BY <2>1 DEF LeaseInv
    <2> QED
      BY <1>1, <1>6, <2>1, <2>2, <2>3
  <1>13. CASE phase \in {"dns", "fetch"} /\ WebhookDone
    BY <1>13, WebhookDoneStep
  <1>14. CASE UNCHANGED leaseVars
    BY <1>14 DEF leaseVars, LeaseInv, LeaseTypeOK, Sending, LeaseOk, WebhookBatchSize,
       ChunksPerLease, WorstCasePerItem, Rounds, RoundsDone, Spent
  <1> QED
    BY <1>4, <1>5, <1>9, <1>10, <1>11, <1>12, <1>13, <1>14 DEF LeaseNext, AttemptFails, Answered

\* Claims, chunks, rounds and attempts keep their types and a running chunk has
\* items: processWebhookDeliveryBatch never works on an empty chunk.
THEOREM LeaseTypeCorrect == LeaseSpec => []LeaseTypeOK
  <1>1. LeaseInv => LeaseTypeOK
    BY DEF LeaseInv
  <1> QED
    BY <1>1, InitLease, LeaseStep, PTL DEF LeaseSpec

\* WEBHOOK_DELIVERY_BATCH_SIZE and validateWebhookDeliveryLease keep every batch
\* within half the PROCESSING timeout per round of webhooks, for every timeout,
\* concurrency, retry count and backoff.
THEOREM LeaseHeld == LeaseSpec => []HalfLeaseHeld
  <1> QED
    BY InvImpliesHalfLease, InitLease, LeaseStep, PTL DEF LeaseSpec
----------------------------------------------------------------------------
(* Deliveries to sinks.  A worker that marks a delivery has sent it, however   *)
(* late it is.                                                                 *)
MarkedInv ==
  \A w \in Workers : \A j \in batch[w] : j.phase = "mark" => j.delivery \in received

DeliveryInv ==
  /\ TypeOK /\ DeliveredOrReported /\ MarkedInv

LEMMA JobFields ==
  ASSUME NEW j \in Job
  PROVE  /\ j.delivery \in Deliveries /\ j.attempts \in Nat /\ j.fails \in Nat
         /\ RowOf(j.delivery) \in Rows /\ TargetOf(j.delivery) \in Targets
  BY DEF Job, Deliveries, RowOf, TargetOf

\* The next phase of a delivery.
LEMMA JobPhase ==
  ASSUME NEW j \in Job, NEW x \in {"mark", "error"}
  PROVE  /\ [j EXCEPT !.phase = x] \in Job
         /\ [j EXCEPT !.phase = x].delivery = j.delivery
         /\ [j EXCEPT !.phase = x].phase = x
  BY DEF Job

\* The worker's locals after a job, whichever way the step ends it.
LEMMA JobEnds ==
  ASSUME TypeOK, MarkedInv, NEW w \in Workers, NEW j \in batch[w],
         EndJob(w, j) \/ Abandon(w), received \subseteq received'
  PROVE  /\ batch' \in [Workers -> SUBSET Job] /\ MarkedInv'
         /\ stage' \in [Workers -> {"idle", "claimed", "deliver"}]
         /\ payloads' \in [Workers -> SUBSET Rows]
  <1>1. /\ batch' \in [Workers -> SUBSET Job] /\ \A v \in Workers : batch'[v] \subseteq batch[v]
    BY DEF TypeOK, EndJob, Abandon
  <1>2. /\ stage' \in [Workers -> {"idle", "claimed", "deliver"}]
        /\ payloads' \in [Workers -> SUBSET Rows]
    BY DEF TypeOK, EndJob, Abandon
  <1>3. MarkedInv'
    BY <1>1 DEF MarkedInv
  <1>4. QED
    BY <1>1, <1>2, <1>3

LEMMA JobGoesOn ==
  ASSUME TypeOK, MarkedInv, NEW w \in Workers, NEW j \in batch[w],
         NEW x \in {"mark", "error"}, SetJob(w, j, [j EXCEPT !.phase = x]),
         received \subseteq received', x = "mark" => j.delivery \in received'
  PROVE  batch' \in [Workers -> SUBSET Job] /\ MarkedInv'
  <1>1. j \in Job
    BY DEF TypeOK
  <1>2. PICK k \in Job : k = [j EXCEPT !.phase = x] /\ k.delivery = j.delivery /\ k.phase = x
    BY <1>1, JobPhase
  <1>3. batch' = [batch EXCEPT ![w] = (@ \ {j}) \cup {k}]
    BY <1>2 DEF SetJob
  <1>4. /\ batch' \in [Workers -> SUBSET Job]
        /\ \A v \in Workers : batch'[v] \subseteq batch[v] \cup {k}
    BY <1>2, <1>3 DEF TypeOK
  <1>5. MarkedInv'
    BY <1>2, <1>4 DEF MarkedInv
  <1>6. QED
    BY <1>4, <1>5

LEMMA EnqueueInv ==
  ASSUME DeliveryInv, NEW r \in Rows, EnqueueDeliveries(r)
  PROVE  DeliveryInv'
  <1>1. TypeOK'
    BY DEF DeliveryInv, EnqueueDeliveries, TypeOK, Open, workerVars
  <1>2. DeliveredOrReported' /\ MarkedInv'
    BY DEF DeliveryInv, EnqueueDeliveries, DeliveredOrReported, MarkedInv, TypeOK, workerVars
  <1>3. QED
    BY <1>1, <1>2 DEF DeliveryInv

LEMMA ClaimInv ==
  ASSUME DeliveryInv, NEW w \in Workers, NEW B \in SUBSET Deliveries, Claim(w, B)
  PROVE  DeliveryInv'
  <1>1. TypeOK /\ DeliveredOrReported /\ MarkedInv
    BY DEF DeliveryInv
  <1> DEFINE new == {[delivery |-> d, attempts |-> attemptCount[d],
                      fails |-> failCount[TargetOf(d)], phase |-> "send"] : d \in B}
  <1>2. new \in SUBSET Job /\ \A j \in new : j.phase = "send"
    <2>1. \A d \in B : TargetOf(d) \in Targets
      BY DEF Deliveries, TargetOf
    <2>2. \A d \in B : attemptCount[d] \in Nat /\ failCount[TargetOf(d)] \in Nat
      BY <1>1, <2>1 DEF TypeOK
    <2> QED BY <2>2 DEF Job
  <1>3. batch' = [batch EXCEPT ![w] = new]
    BY DEF Claim
  <1> HIDE DEF new
  <1>4. batch' \in [Workers -> SUBSET Job] /\ MarkedInv'
    BY <1>1, <1>2, <1>3 DEF TypeOK, MarkedInv, Claim
  <1>5. TypeOK'
    BY <1>1, <1>4 DEF TypeOK, Claim, Open
  <1>6. DeliveredOrReported'
    BY <1>1 DEF DeliveredOrReported, Claim, TypeOK
  <1>7. QED
    BY <1>4, <1>5, <1>6 DEF DeliveryInv

LEMMA ReadPayloadsInv ==
  ASSUME DeliveryInv, NEW w \in Workers, ReadPayloads(w)
  PROVE  DeliveryInv'
  <1>1. TypeOK /\ DeliveredOrReported /\ MarkedInv
    BY DEF DeliveryInv
  <1>2. PICK P \in SUBSET Rows : payloads' = [payloads EXCEPT ![w] = P]
    BY DEF ReadPayloads, Visible
  <1>3. TypeOK'
    BY <1>1, <1>2 DEF TypeOK, ReadPayloads, tableVars
  <1>4. DeliveredOrReported' /\ MarkedInv'
    BY <1>1 DEF DeliveredOrReported, MarkedInv, ReadPayloads, tableVars
  <1>5. QED
    BY <1>3, <1>4 DEF DeliveryInv

\* Tables that a step does not write.
LEMMA TablesFrame ==
  ASSUME TypeOK, DeliveredOrReported, UNCHANGED tableVars, received \subseteq received'
  PROVE  /\ status' \in [Deliveries -> Open \cup {"none", "SENT", "FAILED", "deleted"}]
         /\ attemptCount' \in [Deliveries -> Nat]
         /\ outbox' \in [Rows -> {"PROCESSING", "SENT", "FAILED", "deleted"}]
         /\ failCount' \in [Targets -> Nat]
         /\ deadLetters' \subseteq Deliveries
         /\ DeliveredOrReported'
  BY DEF TypeOK, tableVars, DeliveredOrReported

LEMMA SkipPurgedInv ==
  ASSUME DeliveryInv, NEW w \in Workers, NEW j \in batch[w], SkipPurged(w, j)
  PROVE  DeliveryInv'
  <1>1. TypeOK /\ DeliveredOrReported /\ MarkedInv /\ UNCHANGED tableVars
        /\ received' = received
    BY DEF DeliveryInv, SkipPurged
  <1>2. /\ batch' \in [Workers -> SUBSET Job] /\ MarkedInv'
        /\ stage' \in [Workers -> {"idle", "claimed", "deliver"}]
        /\ payloads' \in [Workers -> SUBSET Rows]
    BY <1>1, JobEnds DEF SkipPurged
  <1>3. TypeOK' /\ DeliveredOrReported'
    BY <1>1, <1>2, TablesFrame DEF TypeOK
  <1>4. QED
    BY <1>2, <1>3 DEF DeliveryInv

LEMMA DeliverInv ==
  ASSUME DeliveryInv, NEW w \in Workers, NEW j \in batch[w],
         (\E ok \in BOOLEAN : Deliver(w, j, ok)) \/ MarkSentThrows(w, j)
  PROVE  DeliveryInv'
  <1>1. TypeOK /\ DeliveredOrReported /\ MarkedInv /\ j \in Job
    BY DEF DeliveryInv, TypeOK
  <1>2. j.delivery \in Deliveries
    BY <1>1, JobFields
  <1>3. PICK x \in {"mark", "error"} :
          /\ SetJob(w, j, [j EXCEPT !.phase = x])
          /\ received \subseteq received' /\ received' \subseteq Deliveries
          /\ x = "mark" => j.delivery \in received'
          /\ UNCHANGED tableVars
    <2>1. CASE MarkSentThrows(w, j)
      BY <1>1, <2>1 DEF MarkSentThrows, TypeOK
    <2>2. ASSUME Deliver(w, j, TRUE)
          PROVE  /\ SetJob(w, j, [j EXCEPT !.phase = "mark"])
                 /\ received' = received \cup {j.delivery}
                 /\ UNCHANGED tableVars
      BY <2>2 DEF Deliver
    <2>3. ASSUME Deliver(w, j, FALSE)
          PROVE  /\ SetJob(w, j, [j EXCEPT !.phase = "error"])
                 /\ received' = received /\ UNCHANGED tableVars
      BY <2>3 DEF Deliver
    <2>4. received \subseteq Deliveries
      BY <1>1 DEF TypeOK
    <2>5. CASE Deliver(w, j, TRUE)
      BY <2>2, <2>4, <2>5, <1>2
    <2>6. CASE Deliver(w, j, FALSE)
      BY <2>3, <2>4, <2>6
    <2> QED BY <2>1, <2>5, <2>6
  <1>4. batch' \in [Workers -> SUBSET Job] /\ MarkedInv'
    BY <1>1, <1>3, JobGoesOn
  <1>5. stage' = stage /\ payloads' = payloads
    BY <1>3 DEF SetJob
  <1>6. TypeOK' /\ DeliveredOrReported'
    BY <1>1, <1>3, <1>4, <1>5, TablesFrame DEF TypeOK
  <1>7. QED
    BY <1>4, <1>6 DEF DeliveryInv

LEMMA MarkSentInv ==
  ASSUME DeliveryInv, NEW w \in Workers, NEW j \in batch[w], NEW acked \in BOOLEAN,
         MarkSent(w, j, acked)
  PROVE  DeliveryInv'
  <1>1. TypeOK /\ DeliveredOrReported /\ MarkedInv /\ j \in Job
    BY DEF DeliveryInv, TypeOK
  <1>2. j.delivery \in Deliveries /\ TargetOf(j.delivery) \in Targets
    BY <1>1, JobFields
  <1>3. UNCHANGED <<attemptCount, outbox, deadLetters, received>>
    BY DEF MarkSent
  <1>4. /\ batch' \in [Workers -> SUBSET Job] /\ MarkedInv'
        /\ stage' \in [Workers -> {"idle", "claimed", "deliver"}]
        /\ payloads' \in [Workers -> SUBSET Rows]
    <2>1. CASE EndJob(w, j)
      BY <2>1, <1>1, <1>3, JobEnds
    <2>2. CASE SetJob(w, j, [j EXCEPT !.phase = "error"])
      <3>1. batch' \in [Workers -> SUBSET Job] /\ MarkedInv'
        BY <2>2, <1>1, <1>3, JobGoesOn
      <3>2. stage' = stage /\ payloads' = payloads
        BY <2>2 DEF SetJob
      <3> QED BY <3>1, <3>2, <1>1 DEF TypeOK
    <2> QED BY <2>1, <2>2 DEF MarkSent
  <1>5. /\ status' \in [Deliveries -> Open \cup {"none", "SENT", "FAILED", "deleted"}]
        /\ status'[j.delivery] = "SENT"
        /\ \A d \in Deliveries \ {j.delivery} : status'[d] = status[d]
    BY <1>1, <1>2 DEF MarkSent, TypeOK
  <1>6. failCount' \in [Targets -> Nat]
    BY <1>1, <1>2 DEF MarkSent, TypeOK
  <1>7. TypeOK'
    BY <1>1, <1>3, <1>4, <1>5, <1>6 DEF TypeOK
  <1>8. j.delivery \in received
    BY <1>1 DEF MarkSent, MarkedInv
  <1>9. DeliveredOrReported'
    BY <1>1, <1>3, <1>5, <1>8 DEF DeliveredOrReported
  <1>10. QED
    BY <1>4, <1>7, <1>9 DEF DeliveryInv

LEMMA RecordDeliveryErrorInv ==
  ASSUME DeliveryInv, NEW w \in Workers, NEW j \in batch[w], RecordDeliveryError(w, j)
  PROVE  DeliveryInv'
  <1>1. TypeOK /\ DeliveredOrReported /\ MarkedInv /\ j \in Job
    BY DEF DeliveryInv, TypeOK
  <1>2. /\ j.delivery \in Deliveries /\ TargetOf(j.delivery) \in Targets
        /\ j.attempts + 1 \in Nat /\ j.fails + 1 \in Nat
    BY <1>1, JobFields
  <1>3. UNCHANGED <<outbox, received>>
    BY DEF RecordDeliveryError
  <1>4. /\ batch' \in [Workers -> SUBSET Job] /\ MarkedInv'
        /\ stage' \in [Workers -> {"idle", "claimed", "deliver"}]
        /\ payloads' \in [Workers -> SUBSET Rows]
    BY <1>1, <1>3, JobEnds DEF RecordDeliveryError
  <1>5. /\ status' \in [Deliveries -> Open \cup {"none", "SENT", "FAILED", "deleted"}]
        /\ status'[j.delivery] = "PENDING"
             \/ (status'[j.delivery] = "FAILED" /\ j.delivery \in deadLetters')
        /\ \A d \in Deliveries \ {j.delivery} : status'[d] = status[d]
    BY <1>1, <1>2 DEF RecordDeliveryError, TypeOK, Open
  <1>6. deadLetters \subseteq deadLetters' /\ deadLetters' \subseteq Deliveries
    BY <1>1, <1>2 DEF RecordDeliveryError, TypeOK
  <1>7. attemptCount' \in [Deliveries -> Nat] /\ failCount' \in [Targets -> Nat]
    BY <1>1, <1>2 DEF RecordDeliveryError, TypeOK
  <1>8. TypeOK'
    BY <1>1, <1>3, <1>4, <1>5, <1>6, <1>7 DEF TypeOK
  <1>9. DeliveredOrReported'
    BY <1>1, <1>3, <1>5, <1>6 DEF DeliveredOrReported
  <1>10. QED
    BY <1>4, <1>8, <1>9 DEF DeliveryInv

LEMMA AbandonInv ==
  ASSUME DeliveryInv, NEW w \in Workers, Abandon(w),
         UNCHANGED <<tableVars, received>>
  PROVE  DeliveryInv'
  <1>1. TypeOK /\ DeliveredOrReported /\ MarkedInv
    BY DEF DeliveryInv
  <1>2. TypeOK'
    BY <1>1 DEF Abandon, TypeOK, tableVars
  <1>3. DeliveredOrReported'
    BY <1>1, TablesFrame
  <1>4. MarkedInv'
    BY <1>1 DEF MarkedInv, Abandon, TypeOK
  <1>5. QED
    BY <1>2, <1>3, <1>4 DEF DeliveryInv

\* The reaper and the retention, which meet live workers.
LEMMA QueueKeeperInv ==
  ASSUME DeliveryInv, NEW d \in Deliveries, ReapStuckDelivery(d) \/ PurgeDelivery(d)
  PROVE  DeliveryInv'
  <1>1. TypeOK /\ DeliveredOrReported /\ MarkedInv
    BY DEF DeliveryInv
  <1>2. UNCHANGED <<outbox, failCount, workerVars, received>>
    BY DEF ReapStuckDelivery, PurgeDelivery
  <1>3. attemptCount' \in [Deliveries -> Nat] /\ deadLetters \subseteq deadLetters'
        /\ deadLetters' \subseteq Deliveries
    BY <1>1 DEF ReapStuckDelivery, PurgeDelivery, TypeOK
  <1>4. /\ status' \in [Deliveries -> Open \cup {"none", "SENT", "FAILED", "deleted"}]
        /\ \A e \in Deliveries \ {d} : status'[e] = status[e]
        /\ \/ status'[d] = "PENDING"
           \/ status'[d] = "FAILED" /\ d \in deadLetters'
           \/ status'[d] = "deleted" /\ d \in received \cup deadLetters'
    <2>1. CASE ReapStuckDelivery(d)
      BY <1>1, <2>1 DEF ReapStuckDelivery, TypeOK, Open
    <2>2. CASE PurgeDelivery(d)
      BY <1>1, <2>2 DEF PurgeDelivery, TypeOK, Open, DeliveredOrReported
    <2> QED BY <2>1, <2>2
  <1>5. TypeOK'
    BY <1>1, <1>2, <1>3, <1>4 DEF TypeOK, workerVars
  <1>6. DeliveredOrReported'
    BY <1>1, <1>2, <1>3, <1>4 DEF DeliveredOrReported
  <1>7. MarkedInv'
    BY <1>1, <1>2 DEF MarkedInv, workerVars
  <1>8. QED
    BY <1>5, <1>6, <1>7 DEF DeliveryInv

LEMMA OutboxRowInv ==
  ASSUME DeliveryInv, NEW r \in Rows,
         PurgeSentOutbox(r) \/ PurgeFailedOutbox(r) \/ OutboxRefailed(r)
  PROVE  DeliveryInv'
  <1>1. TypeOK /\ DeliveredOrReported /\ MarkedInv
    BY DEF DeliveryInv
  <1>2. UNCHANGED <<status, attemptCount, failCount, deadLetters, workerVars, received>>
    BY DEF PurgeSentOutbox, PurgeFailedOutbox, OutboxRefailed
  <1>3. /\ outbox' \in [Rows -> {"PROCESSING", "SENT", "FAILED", "deleted"}]
        /\ \A q \in Rows : outbox[q] = "deleted" => outbox'[q] = "deleted"
    BY <1>1 DEF PurgeSentOutbox, PurgeFailedOutbox, OutboxRefailed, TypeOK
  <1>4. TypeOK'
    BY <1>1, <1>2, <1>3 DEF TypeOK, workerVars
  <1>5. DeliveredOrReported' /\ MarkedInv'
    BY <1>1, <1>2 DEF DeliveredOrReported, MarkedInv, workerVars
  <1>6. QED
    BY <1>4, <1>5 DEF DeliveryInv

LEMMA DeliveryStepInv ==
  ASSUME DeliveryInv, [Next]_vars
  PROVE  DeliveryInv'
  <1>1. ASSUME NEW w \in Workers, NEW B \in SUBSET Deliveries, Claim(w, B) PROVE DeliveryInv'
    BY <1>1, ClaimInv
  <1>2. ASSUME NEW w \in Workers, WorkerStep(w) PROVE DeliveryInv'
    <2>1. CASE ReadPayloads(w)
      BY <2>1, ReadPayloadsInv
    <2>2. ASSUME NEW j \in batch[w], DeliveryStep(w, j) PROVE DeliveryInv'
      <3>1. CASE SkipPurged(w, j)
        BY <3>1, SkipPurgedInv
      <3>2. CASE (\E ok \in BOOLEAN : Deliver(w, j, ok)) \/ MarkSentThrows(w, j)
        BY <3>2, DeliverInv
      <3>3. CASE \E ok \in BOOLEAN : MarkSent(w, j, ok)
        BY <3>3, MarkSentInv
      <3>4. CASE RecordDeliveryError(w, j)
        BY <3>4, RecordDeliveryErrorInv
      <3>5. CASE RecordErrorOfDeleted(w, j)
        BY <3>5, AbandonInv DEF RecordErrorOfDeleted
      <3> QED BY <2>2, <3>1, <3>2, <3>3, <3>4, <3>5 DEF DeliveryStep
    <2> QED BY <1>2, <2>1, <2>2 DEF WorkerStep
  <1>3. ASSUME NEW w \in Workers, AbandonBatch(w) PROVE DeliveryInv'
    BY <1>3, AbandonInv DEF AbandonBatch
  <1>4. ASSUME NEW d \in Deliveries, ReapStuckDelivery(d) \/ PurgeDelivery(d) PROVE DeliveryInv'
    BY <1>4, QueueKeeperInv
  <1>5. ASSUME NEW r \in Rows, EnqueueDeliveries(r) PROVE DeliveryInv'
    BY <1>5, EnqueueInv
  <1>6. ASSUME NEW r \in Rows,
               PurgeSentOutbox(r) \/ PurgeFailedOutbox(r) \/ OutboxRefailed(r)
        PROVE  DeliveryInv'
    BY <1>6, OutboxRowInv
  <1>7. CASE UNCHANGED vars
    BY <1>7 DEF vars, DeliveryInv, TypeOK, DeliveredOrReported, MarkedInv
  <1>8. QED
    BY <1>1, <1>2, <1>3, <1>4, <1>5, <1>6, <1>7 DEF Next

LEMMA DeliveryInvHolds == Spec => []DeliveryInv
  <1>1. Init => DeliveryInv
    BY DEF Init, DeliveryInv, TypeOK, Open, DeliveredOrReported, MarkedInv, Deliveries
  <1>2. DeliveryInv /\ [Next]_vars => DeliveryInv'
    BY DeliveryStepInv
  <1>3. QED
    BY <1>1, <1>2, PTL DEF Spec

\* Every reachable state of the deliveries and of the workers on them is well typed.
THEOREM DeliveryTypeCorrect == Spec => []TypeOK
  <1>1. DeliveryInv => TypeOK
    BY DEF DeliveryInv
  <1>2. QED
    BY <1>1, DeliveryInvHolds, PTL

\* A delivery that is SENT, FAILED or deleted reached its sink or has its dead
\* letter, however late the worker that wrote the status was (processDeliveryBatch,
\* recordDeliveryError, reapStuckDeliveries, purgeRetention).
THEOREM NoDeliveryDropped == Spec => []DeliveredOrReported
  <1>1. DeliveryInv => DeliveredOrReported
    BY DEF DeliveryInv
  <1>2. QED
    BY <1>1, DeliveryInvHolds, PTL

==============================================================================
