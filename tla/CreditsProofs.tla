--------------------------- MODULE CreditsProofs ---------------------------
(***************************************************************************)
(* What is proved of Credits, for any number of grants, callers, reversers *)
(* and sweepers and every bound: the types, that what is spent of a grant  *)
(* stays within it whatever snapshots its consumers read, that only a      *)
(* transaction older than the expiry can overdraw it, that an operation is *)
(* charged in full and once, over all its grants, and that the ledger      *)
(* implements Wallet.                                                      *)
(***************************************************************************)
EXTENDS Credits, Totals, FiniteSetTheorems, SequenceTheorems, TLAPS

\* What the first n entries of an account have spent.
SpentIn(s, n) == IF n = 0 THEN 0 ELSE s[n].spent
NoneOf(s, i, j, kind) == \A k \in (i + 1)..j : s[k].kind # kind

\* What is left and what is spent are a grant's credits, or fewer once it is
\* written off, and neither exceeds it alone.
Balanced(s, size) ==
  \A i \in 1..Len(s) :
    /\ s[i].left + s[i].spent <= size
    /\ s[i].spent <= size
    /\ s[i].kind = "CONSUME" => s[i].amount < 0

\* After its expiry an account holds nothing, until a reversal.
WrittenOff(s) ==
  \A i, j \in 1..Len(s) :
    s[i].kind = "EXPIRE" /\ i <= j /\ NoneOf(s, i, j, "REVERSAL") => s[j].left <= 0

\* A reversal undoes a consumption before it, exactly, and none a second time.
GivenBack(s) ==
  \A i, j \in 1..Len(s) :
    s[i].kind = "REVERSAL" =>
      /\ s[i].of \in 1..(i - 1)
      /\ s[s[i].of].kind = "CONSUME"
      /\ s[i].amount = -s[s[i].of].amount
      /\ s[j].kind = "REVERSAL" /\ s[i].of = s[j].of => i = j

\* Between two points without a consumption no more is spent: of the entries a
\* consumption has not seen an expiry leaves the sum, and a reversal lowers it.
Steady(s) ==
  \A i, j \in 0..Len(s) :
    i <= j /\ NoneOf(s, i, j, "CONSUME") => SpentIn(s, j) <= SpentIn(s, i)

\* As long as it is not written off, an account is not overdrawn, and what is
\* left and what is spent are the grant.
Solvent(s, size) ==
  \A i \in 1..Len(s) :
    /\ NoneOf(s, 0, i - 1, "EXPIRE") => s[i].left >= 0
    /\ NoneOf(s, 0, i, "EXPIRE") => s[i].left + s[i].spent = size

Account(s, size) ==
  Balanced(s, size) /\ WrittenOff(s) /\ GivenBack(s) /\ Steady(s) /\ Solvent(s, size)

\* The snapshot of a transaction is a beginning of each account.
Snapshots ==
  \A c \in Caller, g \in Grant : call[c].pc = "open" => call[c].snap[g] <= Committed(g)

\* What a reversal is asked to take back is a consumption.
Undone ==
  \A r \in Reverser :
    undo[r].pc # "idle" =>
      /\ undo[r].grant \in Grant
      /\ undo[r].entry \in 1..Committed(undo[r].grant)
      /\ Is(undo[r].grant, undo[r].entry, "CONSUME")

IInv ==
  /\ TypeOK
  /\ \A g \in Grant : Account(ledger[g], Terms[g].size)
  /\ Snapshots
  /\ Undone

(***************************************************************************)
(* Appending an entry.                                                     *)
(***************************************************************************)
LEMMA Appended ==
  ASSUME NEW S, NEW s \in Seq(S), NEW e \in S
  PROVE  /\ Append(s, e) \in Seq(S)
         /\ Len(Append(s, e)) = Len(s) + 1
         /\ Len(s) \in Nat
         /\ Append(s, e)[Len(s) + 1] = e
         /\ \A i \in 1..Len(s) : Append(s, e)[i] = s[i]
  OBVIOUS

\* An entry that keeps the sums, spends nothing unless it is a consumption, leaves
\* no more than there was unless it is a reversal, and is a consumption's first and
\* exact reversal if it is one, keeps an account in order.
LEMMA Extended ==
  ASSUME NEW s \in Seq(Entries), NEW e \in Entries, NEW size \in Int, Account(s, size),
         e.left + e.spent <= size, e.spent <= size,
         e.kind = "CONSUME" => e.amount < 0,
         \/ e.kind = "REVERSAL"
         \/ e.left <= 0
         \/ e.kind = "CONSUME" /\ Len(s) > 0 /\ e.left <= s[Len(s)].left
         \/ e.kind = "GRANT" /\ Len(s) = 0,
         e.kind # "CONSUME" => e.spent <= SpentIn(s, Len(s)),
         NoneOf(s, 0, Len(s), "EXPIRE") =>
           /\ e.left >= 0
           /\ e.kind # "EXPIRE" => e.left + e.spent = size,
         e.kind = "REVERSAL" =>
           /\ e.of \in 1..Len(s)
           /\ s[e.of].kind = "CONSUME"
           /\ e.amount = -s[e.of].amount
           /\ \A j \in 1..Len(s) : s[j].kind = "REVERSAL" => s[j].of # e.of
  PROVE  Account(Append(s, e), size)
  <1> DEFINE t == Append(s, e)
             n == Len(s)
  <1>1. Len(t) = n + 1 /\ n \in Nat /\ t[n + 1] = e /\ \A i \in 1..n : t[i] = s[i]
    BY Appended
  <1>2. /\ \A i \in 1..n : s[i] \in Entries
        /\ t \in Seq(Entries)
    BY Appended, ElementOfSeq
  <1>3. \A i \in 1..(n + 1) : i \in 1..n \/ i = n + 1
    BY <1>1
  <1> HIDE DEF t, n
  <1>4. Balanced(t, size)
    BY <1>1, <1>3 DEF Balanced, Account, n
  <1>5. WrittenOff(t)
    <2> SUFFICES ASSUME NEW i \in 1..Len(t), NEW j \in 1..Len(t),
                        t[i].kind = "EXPIRE", i <= j, NoneOf(t, i, j, "REVERSAL")
                 PROVE  t[j].left <= 0
      BY DEF WrittenOff
    <2>1. CASE j \in 1..n
      <3>1. i \in 1..n
        BY <1>1, <2>1
      <3>2. NoneOf(s, i, j, "REVERSAL")
        BY <1>1, <2>1, <3>1 DEF NoneOf
      <3> QED
        BY <1>1, <2>1, <3>1, <3>2 DEF WrittenOff, Account, n
    <2>2. CASE j = n + 1 /\ i = n + 1
      <3>1. e.kind = "EXPIRE"
        BY <1>1, <2>2
      <3> QED
        BY <1>1, <2>2, <3>1
    <2>3. CASE j = n + 1 /\ i \in 1..n
      <3>1. e.kind # "REVERSAL"
        BY <1>1, <2>3 DEF NoneOf
      <3>2. NoneOf(s, i, n, "REVERSAL")
        BY <1>1, <2>3 DEF NoneOf
      <3>3. s[n].left <= 0
        BY <1>1, <2>3, <3>2 DEF WrittenOff, Account, n
      <3>4. e.left <= 0 \/ e.left <= s[n].left
        BY <2>3, <3>1 DEF n
      <3>5. n \in 1..n
        BY <1>1, <2>3
      <3>6. s[n].left \in Int /\ e.left \in Int
        BY <1>2, <3>5 DEF Entries
      <3> QED
        BY <1>1, <2>3, <3>3, <3>4, <3>6
    <2> QED
      BY <1>1, <1>3, <2>1, <2>2, <2>3
  <1>6. GivenBack(t)
    <2> SUFFICES ASSUME NEW i \in 1..Len(t), NEW j \in 1..Len(t), t[i].kind = "REVERSAL"
                 PROVE  /\ t[i].of \in 1..(i - 1)
                        /\ t[t[i].of].kind = "CONSUME"
                        /\ t[i].amount = -t[t[i].of].amount
                        /\ t[j].kind = "REVERSAL" /\ t[i].of = t[j].of => i = j
      BY DEF GivenBack
    <2>1. \A k \in 1..n : s[k].kind = "REVERSAL" =>
            /\ s[k].of \in 1..(k - 1)
            /\ s[k].of \in 1..n
            /\ s[s[k].of].kind = "CONSUME"
            /\ s[k].amount = -s[s[k].of].amount
            /\ \A l \in 1..n : s[l].kind = "REVERSAL" /\ s[k].of = s[l].of => k = l
      BY <1>1 DEF GivenBack, Account, n
    <2>2. CASE i \in 1..n
      <3>1. t[i] = s[i] /\ t[t[i].of] = s[s[i].of]
        BY <1>1, <2>1, <2>2
      <3>2. CASE j \in 1..n
        BY <1>1, <2>1, <2>2, <3>1, <3>2
      <3>3. CASE j = n + 1
        BY <1>1, <2>1, <2>2, <3>1, <3>3 DEF n
      <3> QED
        BY <1>1, <1>3, <3>2, <3>3
    <2>3. CASE i = n + 1
      <3>1. /\ t[i] = e /\ t[i].of \in 1..n /\ t[t[i].of] = s[e.of]
        BY <1>1, <2>3 DEF n
      <3>2. CASE j \in 1..n
        BY <1>1, <2>3, <3>1, <3>2 DEF n
      <3>3. CASE j = n + 1
        BY <1>1, <2>3, <3>1, <3>3 DEF n
      <3> QED
        BY <1>1, <1>3, <3>2, <3>3
    <2> QED
      BY <1>1, <1>3, <2>2, <2>3
  <1>7. Steady(t)
    <2> SUFFICES ASSUME NEW i \in 0..Len(t), NEW j \in 0..Len(t), i <= j,
                        NoneOf(t, i, j, "CONSUME")
                 PROVE  SpentIn(t, j) <= SpentIn(t, i)
      BY DEF Steady
    <2>1. ASSUME NEW k \in 0..n
          PROVE  SpentIn(t, k) = SpentIn(s, k) /\ SpentIn(s, k) \in Int
      <3>1. CASE k = 0
        BY <3>1 DEF SpentIn
      <3>2. CASE k \in 1..n
        <4>1. t[k] = s[k] /\ s[k].spent \in Int
          BY <1>1, <1>2, <3>2 DEF Entries
        <4> QED
          BY <1>1, <3>2, <4>1 DEF SpentIn
      <3> QED
        BY <1>1, <3>1, <3>2
    <2>2. CASE j \in 0..n
      <3>1. i \in 0..n /\ NoneOf(s, i, j, "CONSUME")
        BY <1>1, <2>2 DEF NoneOf
      <3>2. SpentIn(s, j) <= SpentIn(s, i)
        BY <2>2, <3>1 DEF Steady, Account, n
      <3> QED
        BY <2>1, <2>2, <3>1, <3>2
    <2>3. CASE j = n + 1 /\ i \in 0..n
      <3>1. e.kind # "CONSUME"
        BY <1>1, <2>3 DEF NoneOf
      <3>2. NoneOf(s, i, n, "CONSUME")
        BY <1>1, <2>3 DEF NoneOf
      <3>3. SpentIn(s, n) <= SpentIn(s, i)
        BY <1>1, <2>3, <3>2 DEF Steady, Account, n
      <3>4. SpentIn(t, n + 1) = e.spent /\ e.spent \in Int /\ n \in 0..n
        BY <1>1 DEF SpentIn, Entries
      <3>5. e.spent <= SpentIn(s, n)
        BY <3>1 DEF n
      <3> QED
        BY <2>1, <2>3, <3>3, <3>4, <3>5
    <2>4. CASE j = n + 1 /\ i = n + 1
      <3>1. SpentIn(t, n + 1) \in Int
        BY <1>1 DEF SpentIn, Entries
      <3> QED
        BY <2>4, <3>1
    <2>5. (j \in 0..n \/ j = n + 1) /\ (i \in 0..n \/ i = n + 1)
      BY <1>1
    <2> QED
      BY <1>1, <2>2, <2>3, <2>4, <2>5
  <1>8. Solvent(t, size)
    <2> SUFFICES ASSUME NEW i \in 1..Len(t)
                 PROVE  /\ NoneOf(t, 0, i - 1, "EXPIRE") => t[i].left >= 0
                        /\ NoneOf(t, 0, i, "EXPIRE") => t[i].left + t[i].spent = size
      BY DEF Solvent
    <2>1. CASE i \in 1..n
      <3>1. /\ NoneOf(t, 0, i - 1, "EXPIRE") => NoneOf(s, 0, i - 1, "EXPIRE")
            /\ NoneOf(t, 0, i, "EXPIRE") => NoneOf(s, 0, i, "EXPIRE")
        BY <1>1, <2>1 DEF NoneOf
      <3> QED
        BY <1>1, <2>1, <3>1 DEF Solvent, Account, n
    <2>2. CASE i = n + 1
      <3>1. NoneOf(t, 0, i - 1, "EXPIRE") => NoneOf(s, 0, n, "EXPIRE")
        BY <1>1, <2>2 DEF NoneOf
      <3>2. NoneOf(t, 0, i, "EXPIRE") => NoneOf(s, 0, n, "EXPIRE") /\ e.kind # "EXPIRE"
        BY <1>1, <2>2 DEF NoneOf
      <3> QED
        BY <1>1, <2>2, <3>1, <3>2 DEF n
    <2> QED
      BY <1>1, <1>3, <2>1, <2>2
  <1> QED
    BY <1>4, <1>5, <1>6, <1>7, <1>8 DEF Account, t

(***************************************************************************)
(* What a step may append to a grant's account.                            *)
(***************************************************************************)
Fits(g, e) ==
  /\ e \in Entries
  /\ e.kind = "GRANT" <=> Committed(g) = 0
  /\ e.left + e.spent <= Terms[g].size /\ e.spent <= Terms[g].size
  /\ NoneOf(ledger[g], 0, Committed(g), "EXPIRE") =>
       /\ e.left >= 0
       /\ e.kind # "EXPIRE" => e.left + e.spent = Terms[g].size
  /\ e.kind # "CONSUME" => e.spent <= SpentIn(ledger[g], Committed(g))
  /\ e.kind = "CONSUME" => e.amount < 0 /\ e.left <= ledger[g][Committed(g)].left
  /\ e.kind = "EXPIRE" => e.left <= 0
  /\ e.kind = "REVERSAL" =>
       /\ e.of \in 1..Committed(g)
       /\ Is(g, e.of, "CONSUME")
       /\ e.amount = -ledger[g][e.of].amount
       /\ \A j \in 1..Committed(g) : Is(g, j, "REVERSAL") => ledger[g][j].of # e.of

Grows ==
  /\ ledger' \in [Grant -> Seq(Entries)]
  /\ \A g \in Grant :
       \/ ledger'[g] = ledger[g]
       \/ \E e \in Entries : Fits(g, e) /\ ledger'[g] = Append(ledger[g], e)

LEMMA Constants ==
  /\ MaxTime \in Nat /\ MaxRequests \in Nat /\ MaxFaults \in Nat /\ MaxAttempts \in Nat \ {0}
  /\ Grant \subseteq Nat \ {0}
  /\ \A g \in Grant : Terms[g].size \in Nat \ {0}
  /\ \A o \in Op : Amount[o] \in Nat \ {0}
  <1>1. Grant \subseteq Nat \ {0} /\ \A g \in Grant : Terms[g].size \in Nat \ {0}
    <2>1. Terms \in Seq([size : Nat \ {0}, from : Nat, to : Nat, rank : Nat])
      BY TermsSound
    <2>2. Len(Terms) \in Nat /\ Grant = 1..Len(Terms)
      BY <2>1 DEF Grant
    <2>3. \A g \in 1..Len(Terms) : Terms[g] \in [size : Nat \ {0}, from : Nat, to : Nat, rank : Nat]
      BY <2>1, ElementOfSeq
    <2> QED
      BY <2>2, <2>3
  <1> QED
    BY <1>1, AmountsSound, Bounds DEF Op

LEMMA Ledger ==
  ASSUME TypeOK, NEW g \in Grant
  PROVE  /\ ledger[g] \in Seq(Entries)
         /\ Committed(g) \in Nat
         /\ \A i \in 1..Committed(g) : ledger[g][i] \in Entries
         /\ \A n \in 0..Committed(g) : Left(g, n) \in Int /\ Spent(g, n) \in Int
  <1>1. ledger[g] \in Seq(Entries)
    BY DEF TypeOK
  <1>2. Committed(g) \in Nat /\ \A i \in 1..Committed(g) : ledger[g][i] \in Entries
    BY <1>1, ElementOfSeq DEF Committed
  <1>3. \A i \in 1..Committed(g) : ledger[g][i].left \in Int /\ ledger[g][i].spent \in Int
    BY <1>2 DEF Entries
  <1> QED
    BY <1>1, <1>2, <1>3 DEF Left, Spent

Ops == Op \cup {NoOp}

LEMMA EntryTyped ==
  ASSUME TypeOK, NEW g \in Grant, NEW kind \in Kind, NEW amount \in Int,
         NEW op \in Ops, NEW of \in Nat
  PROVE  /\ Entry(g, kind, amount, op, of) \in Entries
         /\ Entry(g, kind, amount, op, of).kind = kind
         /\ Entry(g, kind, amount, op, of).amount = amount
         /\ Entry(g, kind, amount, op, of).op = op
         /\ Entry(g, kind, amount, op, of).of = of
         /\ Entry(g, kind, amount, op, of).left = Left(g, Committed(g)) + amount
         /\ Entry(g, kind, amount, op, of).spent =
              IF kind \in {"CONSUME", "REVERSAL"} THEN Spent(g, Committed(g)) - amount
              ELSE Spent(g, Committed(g))
  <1>1. Committed(g) \in Nat /\ Left(g, Committed(g)) \in Int /\ Spent(g, Committed(g)) \in Int
    BY Ledger
  <1> QED
    BY <1>1 DEF Entry, Entries, Ops

\* The sums of the account as it stands.
LEMMA Sums ==
  ASSUME IInv, NEW g \in Grant, NEW n \in 1..Committed(g)
  PROVE  /\ Left(g, n) \in Int /\ Spent(g, n) \in Int
         /\ Left(g, n) = ledger[g][n].left
         /\ Spent(g, n) = ledger[g][n].spent
         /\ Left(g, n) + Spent(g, n) <= Terms[g].size
         /\ Spent(g, n) <= Terms[g].size
  <1>1. TypeOK /\ Balanced(ledger[g], Terms[g].size)
    BY DEF IInv, Account
  <1>2. Committed(g) \in Nat
    BY <1>1, Ledger
  <1>3. Left(g, n) \in Int /\ Spent(g, n) \in Int
    BY <1>1, <1>2, Ledger
  <1> QED
    BY <1>1, <1>2, <1>3 DEF Balanced, Committed, Left, Spent

\* A step that appends at most one fitting entry to each account keeps every
\* account in order and what is in it.
LEMMA Growth ==
  ASSUME IInv, Grows
  PROVE  /\ \A g \in Grant : Account(ledger'[g], Terms[g].size)
         /\ \A g \in Grant : \A i \in 1..Len(ledger'[g]) :
              ledger'[g][i].kind = "GRANT" <=> i = 1
         /\ \A g \in Grant :
              /\ Committed(g) \in Nat /\ Len(ledger'[g]) \in Nat
              /\ Committed(g) <= Len(ledger'[g])
              /\ \A i \in 1..Committed(g) : ledger'[g][i] = ledger[g][i]
  <1> SUFFICES ASSUME NEW g \in Grant
               PROVE  /\ Account(ledger'[g], Terms[g].size)
                      /\ \A i \in 1..Len(ledger'[g]) : ledger'[g][i].kind = "GRANT" <=> i = 1
                      /\ Committed(g) \in Nat /\ Len(ledger'[g]) \in Nat
                      /\ Committed(g) <= Len(ledger'[g])
                      /\ \A i \in 1..Committed(g) : ledger'[g][i] = ledger[g][i]
    OBVIOUS
  <1>1. /\ TypeOK /\ Account(ledger[g], Terms[g].size)
        /\ ledger[g] \in Seq(Entries) /\ Committed(g) \in Nat
        /\ \A i \in 1..Committed(g) : ledger[g][i].kind = "GRANT" <=> i = 1
    BY Ledger DEF IInv, TypeOK, Is
  <1>2. CASE ledger'[g] = ledger[g]
    BY <1>1, <1>2 DEF Committed
  <1>3. ASSUME NEW e \in Entries, Fits(g, e), ledger'[g] = Append(ledger[g], e)
        PROVE  /\ Account(ledger'[g], Terms[g].size)
               /\ \A i \in 1..Len(ledger'[g]) : ledger'[g][i].kind = "GRANT" <=> i = 1
               /\ Len(ledger'[g]) \in Nat
               /\ Committed(g) <= Len(ledger'[g])
               /\ \A i \in 1..Committed(g) : ledger'[g][i] = ledger[g][i]
    <2>1. /\ Len(ledger'[g]) = Committed(g) + 1
          /\ ledger'[g][Committed(g) + 1] = e
          /\ \A i \in 1..Committed(g) : ledger'[g][i] = ledger[g][i]
      BY <1>1, <1>3, Appended DEF Committed
    <2>2. Terms[g].size \in Int
      BY Constants
    <2>3. e.kind \in Kind
      BY DEF Entries
    <2>4. Committed(g) = Len(ledger[g])
      BY DEF Committed
    <2>5. /\ e.kind = "GRANT" => Len(ledger[g]) = 0
          /\ e.kind = "CONSUME" => Len(ledger[g]) > 0
      BY <1>1, <1>3, <2>3, <2>4 DEF Fits
    <2>6. /\ e.left + e.spent <= Terms[g].size /\ e.spent <= Terms[g].size
          /\ NoneOf(ledger[g], 0, Len(ledger[g]), "EXPIRE") =>
               /\ e.left >= 0
               /\ e.kind # "EXPIRE" => e.left + e.spent = Terms[g].size
          /\ e.kind # "CONSUME" => e.spent <= SpentIn(ledger[g], Len(ledger[g]))
          /\ e.kind = "CONSUME" => e.amount < 0 /\ e.left <= ledger[g][Len(ledger[g])].left
          /\ e.kind = "EXPIRE" => e.left <= 0
          /\ e.kind = "REVERSAL" =>
               /\ e.of \in 1..Len(ledger[g])
               /\ ledger[g][e.of].kind = "CONSUME"
               /\ e.amount = -ledger[g][e.of].amount
               /\ \A j \in 1..Len(ledger[g]) :
                    ledger[g][j].kind = "REVERSAL" => ledger[g][j].of # e.of
      BY <1>3, <2>4 DEF Fits, Is
    <2>7. Account(Append(ledger[g], e), Terms[g].size)
      BY <1>1, <2>2, <2>3, <2>5, <2>6, Extended DEF Kind
    <2>8. \A i \in 1..Len(ledger'[g]) : ledger'[g][i].kind = "GRANT" <=> i = 1
      <3>1. e.kind = "GRANT" <=> Committed(g) = 0
        BY <1>3 DEF Fits
      <3>2. \A i \in 1..(Committed(g) + 1) : i \in 1..Committed(g) \/ i = Committed(g) + 1
        BY <1>1
      <3>3. Committed(g) + 1 = 1 <=> Committed(g) = 0
        BY <1>1
      <3> QED
        BY <1>1, <2>1, <3>1, <3>2, <3>3
    <2> QED
      BY <1>1, <1>3, <2>1, <2>7, <2>8
  <1> QED
    BY <1>1, <1>2, <1>3 DEF Grows

(***************************************************************************)
(* Entries that fit.                                                       *)
(***************************************************************************)
LEMMA GrantFits ==
  ASSUME IInv, NEW g \in Grant, Committed(g) = 0
  PROVE  Fits(g, Entry(g, "GRANT", Terms[g].size, NoOp, 0))
  <1> DEFINE e == Entry(g, "GRANT", Terms[g].size, NoOp, 0)
  <1>1. TypeOK /\ Terms[g].size \in Nat
    BY Constants DEF IInv
  <1>2. /\ e \in Entries /\ e.kind = "GRANT"
        /\ e.left = Left(g, Committed(g)) + Terms[g].size
        /\ e.spent = Spent(g, Committed(g))
    <2>1. "GRANT" \in Kind /\ Terms[g].size \in Int /\ 0 \in Nat /\ NoOp \in Ops
      BY <1>1 DEF Kind, Ops
    <2> QED
      BY <1>1, <2>1, EntryTyped
  <1>3. /\ Left(g, Committed(g)) = 0 /\ Spent(g, Committed(g)) = 0
        /\ SpentIn(ledger[g], Committed(g)) = 0
    BY DEF Left, Spent, SpentIn
  <1> HIDE DEF e
  <1>4. Fits(g, e)
    BY <1>1, <1>2, <1>3 DEF Fits
  <1> QED
    BY <1>4 DEF e

\* Of a grant that is not written off, what is left and what is spent are all.
LEMMA Whole ==
  ASSUME IInv, NEW g \in Grant, Committed(g) \in 1..Committed(g),
         NoneOf(ledger[g], 0, Committed(g), "EXPIRE")
  PROVE  Left(g, Committed(g)) + Spent(g, Committed(g)) = Terms[g].size
  <1>1. Solvent(ledger[g], Terms[g].size) /\ Committed(g) = Len(ledger[g])
    BY DEF IInv, Account, Committed
  <1>2. /\ Left(g, Committed(g)) = ledger[g][Committed(g)].left
        /\ Spent(g, Committed(g)) = ledger[g][Committed(g)].spent
    BY Sums
  <1> QED
    BY <1>1, <1>2 DEF Solvent

\* A consumption of no more than its snapshot left, where no consumption has
\* come since.
LEMMA ConsumptionFits ==
  ASSUME IInv, NEW g \in Grant, NEW n \in 1..Committed(g), NEW share \in Nat \ {0},
         share <= Left(g, n), NoneOf(ledger[g], n, Committed(g), "CONSUME"),
         NEW op \in Ops
  PROVE  Fits(g, Entry(g, "CONSUME", -share, op, 0))
  <1> DEFINE e == Entry(g, "CONSUME", -share, op, 0)
             m == Committed(g)
  <1>1. TypeOK /\ m \in Nat /\ m \in 1..m /\ Terms[g].size \in Nat
    BY Constants, Ledger DEF IInv
  <1>2. /\ e \in Entries /\ e.kind = "CONSUME" /\ e.amount = -share
        /\ e.left = Left(g, m) - share
        /\ e.spent = Spent(g, m) + share
    <2>1. -share \in Int /\ "CONSUME" \in Kind /\ 0 \in Nat
      BY DEF Kind
    <2>2. /\ e \in Entries /\ e.kind = "CONSUME" /\ e.amount = -share
          /\ e.left = Left(g, m) + (-share)
          /\ e.spent = Spent(g, m) - (-share)
      BY <1>1, <2>1, EntryTyped
    <2>3. Left(g, m) \in Int /\ Spent(g, m) \in Int
      BY <1>1, Sums
    <2> QED
      BY <2>2, <2>3
  <1>3. /\ Left(g, m) \in Int /\ Spent(g, m) \in Int
        /\ Left(g, m) = ledger[g][m].left
        /\ Left(g, m) + Spent(g, m) <= Terms[g].size
    BY <1>1, Sums
  <1>4. /\ Left(g, n) \in Int /\ Spent(g, n) \in Int
        /\ Left(g, n) + Spent(g, n) <= Terms[g].size
    BY Sums
  <1>5. Spent(g, m) <= Spent(g, n)
    <2>1. Steady(ledger[g]) /\ m = Len(ledger[g])
      BY DEF IInv, Account, Committed
    <2>2. n \in 0..m /\ m \in 0..m /\ n <= m
      BY <1>1
    <2>3. SpentIn(ledger[g], m) <= SpentIn(ledger[g], n)
      BY <2>1, <2>2 DEF Steady
    <2> QED
      BY <2>3 DEF SpentIn, Spent
  <1>6. NoneOf(ledger[g], 0, m, "EXPIRE") => Left(g, m) + Spent(g, m) = Terms[g].size
    BY <1>1, <1>3, Whole
  <1> HIDE DEF e, m
  <1>7. Fits(g, e)
    BY <1>1, <1>2, <1>3, <1>4, <1>5, <1>6 DEF Fits, m
  <1> QED
    BY <1>7 DEF e

LEMMA ReversalFits ==
  ASSUME IInv, NEW g \in Grant, NEW i \in 1..Committed(g), Is(g, i, "CONSUME"),
         \A j \in 1..Committed(g) : Is(g, j, "REVERSAL") => ledger[g][j].of # i
  PROVE  Fits(g, Entry(g, "REVERSAL", -ledger[g][i].amount, NoOp, i))
  <1> DEFINE give == -ledger[g][i].amount
             e == Entry(g, "REVERSAL", give, NoOp, i)
             m == Committed(g)
  <1>1. TypeOK /\ m \in Nat /\ m \in 1..m /\ Terms[g].size \in Nat
    BY Constants, Ledger DEF IInv
  <1>2. give \in Nat \ {0}
    <2>1. ledger[g][i] \in Entries
      BY <1>1, Ledger
    <2>2. ledger[g][i].amount \in Int
      BY <2>1 DEF Entries
    <2>3. ledger[g][i].amount < 0
      BY DEF IInv, Account, Balanced, Is, Committed
    <2> QED
      BY <2>2, <2>3
  <1>3. /\ Left(g, m) \in Int /\ Spent(g, m) \in Int
        /\ Left(g, m) + Spent(g, m) <= Terms[g].size
        /\ Spent(g, m) <= Terms[g].size
    BY <1>1, Sums
  <1>4. /\ e \in Entries /\ e.kind = "REVERSAL" /\ e.amount = give /\ e.of = i
        /\ e.left = Left(g, m) + give
        /\ e.spent = Spent(g, m) - give
    <2>1. "REVERSAL" \in Kind /\ i \in Nat /\ give \in Int /\ NoOp \in Ops
      BY <1>1, <1>2 DEF Kind, Ops
    <2> HIDE DEF give, m
    <2>2. /\ e \in Entries /\ e.kind = "REVERSAL" /\ e.amount = give /\ e.of = i
          /\ e.left = Left(g, Committed(g)) + give
          /\ e.spent = Spent(g, Committed(g)) - give
      BY <1>1, <2>1, EntryTyped
    <2> QED
      BY <2>2 DEF m
  <1>5. e.amount = -ledger[g][e.of].amount
    BY <1>4
  <1>6. NoneOf(ledger[g], 0, m, "EXPIRE") => Left(g, m) + Spent(g, m) = Terms[g].size
    BY <1>1, Whole
  <1>8. SpentIn(ledger[g], m) = Spent(g, m)
    BY DEF SpentIn, Spent
  <1> HIDE DEF e, m, give
  <1>7. Fits(g, e)
    BY <1>1, <1>2, <1>3, <1>4, <1>5, <1>6, <1>8 DEF Fits, m
  <1> QED
    BY <1>7 DEF e, give

LEMMA ExpiryFits ==
  ASSUME IInv, NEW g \in Grant, Left(g, Committed(g)) > 0
  PROVE  Fits(g, Entry(g, "EXPIRE", -Left(g, Committed(g)), NoOp, 0))
  <1> DEFINE m == Committed(g)
             rest == Left(g, m)
             e == Entry(g, "EXPIRE", -rest, NoOp, 0)
  <1>1. TypeOK /\ m \in Nat /\ Terms[g].size \in Nat
    BY Constants, Ledger DEF IInv
  <1>2. m # 0
    BY DEF Left
  <1>3. m \in 1..m
    BY <1>1, <1>2
  <1>4. /\ rest \in Int /\ Spent(g, m) \in Int /\ Spent(g, m) = ledger[g][m].spent
        /\ Spent(g, m) <= Terms[g].size
    BY <1>3, Sums
  <1>5. /\ e \in Entries /\ e.kind = "EXPIRE" /\ e.left = rest + (-rest)
        /\ e.spent = Spent(g, m)
    <2>1. "EXPIRE" \in Kind /\ -rest \in Int /\ 0 \in Nat /\ NoOp \in Ops
      BY <1>4 DEF Kind, Ops
    <2> DEFINE amount == -rest
    <2> HIDE DEF amount, m
    <2>2. amount \in Int /\ e = Entry(g, "EXPIRE", amount, NoOp, 0)
      BY <2>1 DEF amount
    <2> HIDE DEF e
    <2>3. /\ e \in Entries /\ e.kind = "EXPIRE" /\ e.left = Left(g, Committed(g)) + amount
          /\ e.spent = Spent(g, Committed(g))
      BY <1>1, <2>1, <2>2, EntryTyped
    <2> QED
      BY <2>3 DEF amount, m
  <1>6. e.left = 0
    BY <1>4, <1>5
  <1>7. Spent(g, m) = SpentIn(ledger[g], m)
    BY DEF Spent, SpentIn
  <1> HIDE DEF e, m
  <1>8. Fits(g, e)
    BY <1>1, <1>2, <1>4, <1>5, <1>6, <1>7 DEF Fits, m
  <1> QED
    BY <1>8 DEF e, m

(***************************************************************************)
(* Each step keeps the invariant.                                          *)
(***************************************************************************)
\* What a call takes of a grant is no more than its snapshot of it left.
LEMMA ShareBounded ==
  ASSUME IInv, NEW c \in Caller, NEW g \in Grant, call[c].pc = "open"
  PROVE  /\ call[c].snap[g] \in 0..Committed(g)
         /\ Offers(c, g) \in Int
         /\ Share(c, g) \in Nat
         /\ Share(c, g) > 0 => call[c].snap[g] \in 1..Committed(g) /\ Share(c, g) <= Offers(c, g)
  <1>1. TypeOK /\ call[c].snap[g] \in Nat /\ call[c].snap[g] <= Committed(g) /\ Committed(g) \in Nat
    BY Ledger DEF IInv, TypeOK, Calls, Snapshots
  <1>2. call[c].snap[g] \in 0..Committed(g)
    BY <1>1
  <1>3. Offers(c, g) \in Int
    BY <1>1, <1>2, Ledger DEF Offers
  <1> DEFINE k == Offers(c, g)
             T == {n \in 1..k : n <= Amount[call[c].op]
                     - OfferedBy(c, {h \in Available(c) : Terms[h].rank < Terms[g].rank})}
  <1>4. Share(c, g) = Cardinality(T)
    BY DEF Share
  <1>5. T \in SUBSET (1..k)
    OBVIOUS
  <1> HIDE DEF T, k
  <1>6. k \in Int
    BY <1>3 DEF k
  <1>7. IsFiniteSet(1..k) /\ Cardinality(1..k) = IF 1 > k THEN 0 ELSE k - 1 + 1
    BY <1>6, FS_Interval
  <1>8. IsFiniteSet(T) /\ Cardinality(T) <= Cardinality(1..k)
    BY <1>5, <1>7, FS_Subset
  <1>9. Cardinality(T) \in Nat
    BY <1>8, FS_CardinalityType
  <1>10. Cardinality(T) > 0 => k > 0 /\ Cardinality(T) <= k
    BY <1>6, <1>7, <1>8, <1>9
  <1>11. k > 0 => call[c].snap[g] # 0
    BY DEF k, Offers, Left
  <1> QED
    BY <1>1, <1>2, <1>3, <1>4, <1>9, <1>10, <1>11 DEF k

\* A step keeps the invariant if what it appends fits, if it keeps the types,
\* and if no call has seen, and no reversal names, what is not committed.
LEMMA Stable ==
  ASSUME IInv, Grows,
         clock' \in 0..MaxTime, requests' \in 0..MaxRequests, faults' \in 0..MaxFaults,
         call' \in [Caller -> Calls], undo' \in [Reverser -> Undoings],
         sweep' \in [Sweeper -> Sweeps],
         \A c \in Caller, g \in Grant :
           call'[c].pc = "open" => call'[c].snap[g] <= Committed(g),
         \A r \in Reverser :
           undo'[r].pc # "idle" =>
             /\ undo'[r].grant \in Grant
             /\ undo'[r].entry \in 1..Committed(undo'[r].grant)
             /\ Is(undo'[r].grant, undo'[r].entry, "CONSUME")
  PROVE  IInv'
  <1>1. /\ \A g \in Grant : Account(ledger'[g], Terms[g].size)
        /\ \A g \in Grant : \A i \in 1..Len(ledger'[g]) :
             ledger'[g][i].kind = "GRANT" <=> i = 1
        /\ \A g \in Grant :
             /\ Committed(g) \in Nat /\ Len(ledger'[g]) \in Nat
             /\ Committed(g) <= Len(ledger'[g])
             /\ \A i \in 1..Committed(g) : ledger'[g][i] = ledger[g][i]
    BY Growth
  <1>2. TypeOK'
    BY <1>1 DEF TypeOK, Grows, Committed, Is
  <1>3. (\A g \in Grant : Account(ledger[g], Terms[g].size))'
    BY <1>1
  <1>4. Snapshots'
    <2> SUFFICES ASSUME NEW c \in Caller, NEW g \in Grant, call'[c].pc = "open"
                 PROVE  call'[c].snap[g] <= Len(ledger'[g])
      BY DEF Snapshots, Committed
    <2>1. call'[c].snap[g] <= Committed(g) /\ call'[c].snap[g] \in Nat
      BY DEF Calls
    <2> QED
      BY <1>1, <2>1
  <1>5. Undone'
    <2> SUFFICES ASSUME NEW r \in Reverser, undo'[r].pc # "idle"
                 PROVE  /\ undo'[r].grant \in Grant
                        /\ undo'[r].entry \in 1..Len(ledger'[undo'[r].grant])
                        /\ ledger'[undo'[r].grant][undo'[r].entry].kind = "CONSUME"
      BY DEF Undone, Committed, Is
    <2>1. PICK g \in Grant : g = undo'[r].grant
      OBVIOUS
    <2>2. PICK i \in 1..Committed(g) : i = undo'[r].entry
      BY <2>1
    <2>3. i \in 1..Len(ledger'[g]) /\ ledger'[g][i] = ledger[g][i]
      BY <1>1
    <2>4. ledger[g][i].kind = "CONSUME"
      BY <2>1, <2>2 DEF Is
    <2> QED
      BY <2>1, <2>2, <2>3, <2>4
  <1> QED
    BY <1>2, <1>3, <1>4, <1>5 DEF IInv

\* What the invariant says of a call and of a reversal, for Stable.
LEMMA Standing ==
  ASSUME IInv
  PROVE  /\ clock \in 0..MaxTime /\ requests \in 0..MaxRequests /\ faults \in 0..MaxFaults
         /\ call \in [Caller -> Calls] /\ undo \in [Reverser -> Undoings]
         /\ sweep \in [Sweeper -> Sweeps]
         /\ \A c \in Caller, g \in Grant :
              call[c].pc = "open" => call[c].snap[g] <= Committed(g)
         /\ \A r \in Reverser :
              undo[r].pc # "idle" =>
                /\ undo[r].grant \in Grant
                /\ undo[r].entry \in 1..Committed(undo[r].grant)
                /\ Is(undo[r].grant, undo[r].entry, "CONSUME")
         /\ ledger' = ledger => Grows
  BY DEF IInv, TypeOK, Snapshots, Undone, Grows

LEMMA Writes ==
  ASSUME IInv, NEW g \in Grant, NEW e, Fits(g, e), Write(g, e)
  PROVE  Grows
  <1>1. TypeOK /\ ledger[g] \in Seq(Entries) /\ e \in Entries
    BY Ledger DEF IInv, Fits
  <1>2. Append(ledger[g], e) \in Seq(Entries)
    BY <1>1, Appended
  <1> QED
    BY <1>1, <1>2 DEF Write, Grows, TypeOK

LEMMA IdleTyped ==
  /\ Idle \in Calls /\ NoUndo \in Undoings /\ NoSweep \in Sweeps
  /\ Idle.pc = "idle" /\ NoUndo.pc = "idle"
  BY Constants DEF Idle, NoUndo, NoSweep, Calls, Undoings, Sweeps, Stages

LEMMA TickStep == IInv /\ Tick => IInv'
  <1> SUFFICES ASSUME IInv, Tick PROVE IInv'
    OBVIOUS
  <1>1. clock' \in 0..MaxTime
    BY Standing, Constants DEF Tick
  <1> QED
    BY <1>1, Standing, Stable DEF Tick

LEMMA IssueStep == \A g \in Grant : IInv /\ Issue(g) => IInv'
  <1> SUFFICES ASSUME NEW g \in Grant, IInv, Issue(g) PROVE IInv'
    OBVIOUS
  <1>1. Committed(g) = 0
    BY DEF Issue, Committed
  <1>2. Grows
    BY <1>1, GrantFits, Writes DEF Issue
  <1> QED
    BY <1>2, Standing, Stable DEF Issue

\* A caller's own step: its call is typed, and what it has seen is committed.
LEMMA CallerStep ==
  ASSUME IInv, Grows, NEW c \in Caller, NEW k \in Calls,
         k.pc = "open" => \A g \in Grant : k.snap[g] <= Committed(g),
         call' = [call EXCEPT ![c] = k], requests' \in 0..MaxRequests,
         UNCHANGED <<clock, undo, sweep, faults>>
  PROVE  IInv'
  <1>1. /\ call' \in [Caller -> Calls]
        /\ \A d \in Caller, g \in Grant :
             call'[d].pc = "open" => call'[d].snap[g] <= Committed(g)
    BY Standing
  <1> QED
    BY <1>1, Standing, Stable

LEMMA AskStep == \A c \in Caller, o \in Op : IInv /\ Ask(c, o) => IInv'
  <1> SUFFICES ASSUME NEW c \in Caller, NEW o \in Op, IInv, Ask(c, o) PROVE IInv'
    OBVIOUS
  <1> DEFINE k == [Idle EXCEPT !.pc = "asked", !.op = o, !.now = clock]
  <1>1. k \in Calls /\ k.pc = "asked"
    BY IdleTyped, Standing DEF Calls, Stages
  <1>2. requests' \in 0..MaxRequests
    BY Standing, Constants DEF Ask
  <1> HIDE DEF k
  <1>3. Grows /\ UNCHANGED <<clock, undo, sweep, faults>> /\ call' = [call EXCEPT ![c] = k]
    BY Standing DEF Ask, k
  <1> QED
    BY <1>1, <1>2, <1>3, CallerStep

LEMMA OpenStep == \A c \in Caller : IInv /\ Open(c) => IInv'
  <1> SUFFICES ASSUME NEW c \in Caller, IInv, Open(c) PROVE IInv'
    OBVIOUS
  <1> DEFINE k == [call[c] EXCEPT !.pc = "open", !.snap = [g \in Grant |-> Committed(g)]]
  <1>1. \A g \in Grant : Committed(g) \in Nat
    BY Ledger DEF IInv
  <1>2. k \in Calls /\ k.snap = [g \in Grant |-> Committed(g)]
    BY <1>1, Standing DEF Calls, Stages
  <1>3. \A g \in Grant : k.snap[g] <= Committed(g)
    BY <1>1, <1>2
  <1>4. call' = [call EXCEPT ![c] = k]
    BY Standing DEF Open, Calls
  <1>5. Grows /\ UNCHANGED <<clock, undo, sweep, faults>> /\ requests' \in 0..MaxRequests
    BY Standing DEF Open
  <1> HIDE DEF k
  <1> QED
    BY <1>2, <1>3, <1>4, <1>5, CallerStep

LEMMA AgainStep == \A c \in Caller : IInv /\ Again(c) => IInv'
  <1> SUFFICES ASSUME NEW c \in Caller, IInv, Again(c) PROVE IInv'
    OBVIOUS
  <1> DEFINE k == [call[c] EXCEPT !.pc = "asked", !.snap = Idle.snap,
                                  !.attempt = call[c].attempt + 1]
  <1>1. call[c] \in Calls /\ Idle.snap \in [Grant -> Nat]
    BY Standing, IdleTyped DEF Calls
  <1>2. call[c].attempt + 1 \in 0..MaxAttempts
    BY <1>1, Constants DEF Again, Calls
  <1>3. k \in Calls /\ k.pc = "asked"
    BY <1>1, <1>2 DEF Calls, Stages
  <1>4. call' = [call EXCEPT ![c] = k]
    BY DEF Again
  <1>5. Grows /\ UNCHANGED <<clock, undo, sweep, faults>> /\ requests' \in 0..MaxRequests
    BY Standing DEF Again
  <1> HIDE DEF k
  <1> QED
    BY <1>3, <1>4, <1>5, CallerStep

LEMMA ReturnStep == \A c \in Caller : IInv /\ Return(c) => IInv'
  <1> SUFFICES ASSUME NEW c \in Caller, IInv, Return(c) PROVE IInv'
    OBVIOUS
  <1>1. Grows /\ UNCHANGED <<clock, undo, sweep, faults>> /\ requests' \in 0..MaxRequests
    BY Standing DEF Return
  <1> QED
    BY <1>1, IdleTyped, CallerStep DEF Return

\* What a call that has not been overtaken appends, to each of its sources.
LEMMA Consumption ==
  ASSUME IInv, NEW c \in Caller, Consume(c), NEW g \in Grant, g \in Sources(c)
  PROVE  /\ call[c].snap[g] \in 1..Committed(g)
         /\ Share(c, g) \in Nat \ {0} /\ Share(c, g) <= Left(g, call[c].snap[g])
         /\ NoneOf(ledger[g], call[c].snap[g], Committed(g), "CONSUME")
  <1>1. call[c].pc = "open" /\ Share(c, g) > 0
    BY DEF Consume, Sources
  <1>2. /\ call[c].snap[g] \in 1..Committed(g)
        /\ Share(c, g) \in Nat \ {0} /\ Share(c, g) <= Left(g, call[c].snap[g])
    BY <1>1, ShareBounded DEF Offers
  <1>3. ~Overtaken(c)
    BY DEF Consume
  <1>4. NoneOf(ledger[g], call[c].snap[g], Committed(g), "CONSUME")
    BY <1>3 DEF Overtaken, NoneOf, Is
  <1> QED
    BY <1>2, <1>4

LEMMA ConsumeStep == \A c \in Caller : IInv /\ Consume(c) => IInv'
  <1> SUFFICES ASSUME NEW c \in Caller, IInv, Consume(c) PROVE IInv'
    OBVIOUS
  <1> DEFINE e(g) == Entry(g, "CONSUME", -Share(c, g), call[c].op, 0)
  <1>1. call[c].op \in Ops
    BY Standing DEF Calls, Ops
  <1>2. ASSUME NEW g \in Sources(c)
        PROVE  /\ Fits(g, e(g)) /\ e(g) \in Entries
               /\ Append(ledger[g], e(g)) \in Seq(Entries)
    <2>1. g \in Grant
      BY DEF Sources, Available
    <2>2. Fits(g, e(g))
      BY <1>1, <1>2, <2>1, Consumption, ConsumptionFits
    <2>3. e(g) \in Entries
      BY <2>2 DEF Fits
    <2>4. ledger[g] \in Seq(Entries)
      BY <2>1, Ledger DEF IInv
    <2> HIDE DEF e
    <2> QED
      BY <2>2, <2>3, <2>4, Appended
  <1>3. ledger' = [g \in Grant |-> IF g \in Sources(c) THEN Append(ledger[g], e(g)) ELSE ledger[g]]
    BY DEF Consume
  <1>4. \A g \in Grant : ledger[g] \in Seq(Entries)
    BY Ledger DEF IInv
  <1> HIDE DEF e
  <1>5. Grows
    BY <1>2, <1>3, <1>4 DEF Grows
  <1> QED
    BY <1>5, Standing, IdleTyped, CallerStep DEF Consume

\* A reverser's own step: its request is typed, and it names a consumption.
LEMMA ReverserStep ==
  ASSUME IInv, Grows, NEW r \in Reverser, NEW u \in Undoings,
         u.pc # "idle" =>
           /\ u.grant \in Grant
           /\ u.entry \in 1..Committed(u.grant)
           /\ Is(u.grant, u.entry, "CONSUME"),
         undo' = [undo EXCEPT ![r] = u],
         UNCHANGED <<clock, call, sweep, requests, faults>>
  PROVE  IInv'
  <1>1. /\ undo' \in [Reverser -> Undoings]
        /\ \A q \in Reverser :
             undo'[q].pc # "idle" =>
               /\ undo'[q].grant \in Grant
               /\ undo'[q].entry \in 1..Committed(undo'[q].grant)
               /\ Is(undo'[q].grant, undo'[q].entry, "CONSUME")
    BY Standing
  <1> QED
    BY <1>1, Standing, Stable

LEMMA AskReversalStep ==
  \A r \in Reverser, g \in Grant : \A i \in 1..Committed(g) : IInv /\ AskReversal(r, g, i) => IInv'
  <1> SUFFICES ASSUME NEW r \in Reverser, NEW g \in Grant, NEW i \in 1..Committed(g), IInv,
                      AskReversal(r, g, i)
               PROVE  IInv'
    OBVIOUS
  <1> DEFINE u == [pc |-> "asked", grant |-> g, entry |-> i, now |-> clock]
  <1>1. u \in Undoings
    <2>1. Committed(g) \in Nat /\ g \in Nat
      BY Ledger, Constants DEF IInv
    <2> QED
      BY <2>1, Standing DEF Undoings, Stages
  <1>2. u.grant = g /\ u.entry = i /\ Is(g, i, "CONSUME") /\ undo' = [undo EXCEPT ![r] = u]
    BY DEF AskReversal
  <1>3. Grows /\ UNCHANGED <<clock, call, sweep, requests, faults>>
    BY Standing DEF AskReversal
  <1> HIDE DEF u
  <1> QED
    BY <1>1, <1>2, <1>3, ReverserStep

LEMMA ReturnReversalStep == \A r \in Reverser : IInv /\ ReturnReversal(r) => IInv'
  <1> SUFFICES ASSUME NEW r \in Reverser, IInv, ReturnReversal(r) PROVE IInv'
    OBVIOUS
  <1> QED
    BY Standing, IdleTyped, ReverserStep DEF ReturnReversal

\* What a reversal appends.
LEMMA Reversal ==
  ASSUME IInv, NEW r \in Reverser, TakeBack(r)
  PROVE  \E g \in Grant : \E i \in 1..Committed(g) :
           /\ Is(g, i, "CONSUME")
           /\ \A j \in 1..Committed(g) : Is(g, j, "REVERSAL") => ledger[g][j].of # i
           /\ Write(g, Entry(g, "REVERSAL", -ledger[g][i].amount, NoOp, i))
  <1>1. PICK g \in Grant : g = undo[r].grant
    BY Standing DEF TakeBack
  <1>2. PICK i \in 1..Committed(g) : i = undo[r].entry /\ Is(g, i, "CONSUME")
    BY <1>1, Standing DEF TakeBack
  <1>3. /\ ~Reversed(g, i, Committed(g))
        /\ Write(g, Entry(g, "REVERSAL", -ledger[g][i].amount, NoOp, i))
    BY <1>1, <1>2 DEF TakeBack
  <1> QED
    BY <1>2, <1>3 DEF Reversed

LEMMA TakeBackStep == \A r \in Reverser : IInv /\ TakeBack(r) => IInv'
  <1> SUFFICES ASSUME NEW r \in Reverser, IInv, TakeBack(r) PROVE IInv'
    OBVIOUS
  <1>1. Grows
    BY Reversal, ReversalFits, Writes
  <1> QED
    BY <1>1, IdleTyped, ReverserStep DEF TakeBack

\* A sweeper's own step.
LEMMA SweeperStep ==
  ASSUME IInv, Grows, sweep' \in [Sweeper -> Sweeps], faults' \in 0..MaxFaults,
         UNCHANGED <<clock, call, undo, requests>>
  PROVE  IInv'
  BY Standing, Stable

LEMMA GotoTyped ==
  ASSUME IInv, NEW x \in Sweeper, NEW todo \in SUBSET Grant, Goto(x, todo)
  PROVE  sweep' \in [Sweeper -> Sweeps]
  BY Standing, IdleTyped DEF Goto, Sweeps

LEMMA BeginStep == \A x \in Sweeper : IInv /\ Begin(x) => IInv'
  <1> SUFFICES ASSUME NEW x \in Sweeper, IInv, Begin(x) PROVE IInv'
    OBVIOUS
  <1>1. sweep' \in [Sweeper -> Sweeps]
    BY Standing DEF Begin, Due, Sweeps
  <1> QED
    BY <1>1, Standing, SweeperStep DEF Begin

LEMMA ExpireStep == \A x \in Sweeper : IInv /\ Expire(x) => IInv'
  <1> SUFFICES ASSUME NEW x \in Sweeper, IInv, Expire(x) PROVE IInv'
    OBVIOUS
  <1> DEFINE Rest(g) == Left(g, Committed(g))
  <1>1. PICK g \in Grant :
          /\ Goto(x, sweep[x].todo \ {g})
          /\ \/ Rest(g) > 0 /\ Write(g, Entry(g, "EXPIRE", -Rest(g), NoOp, 0))
             \/ UNCHANGED ledger
    BY DEF Expire
  <1>2. sweep' \in [Sweeper -> Sweeps]
    <2>1. sweep[x].todo \ {g} \in SUBSET Grant
      BY Standing DEF Sweeps
    <2> QED
      BY <1>1, <2>1, GotoTyped
  <1>3. Grows
    BY <1>1, ExpiryFits, Writes, Standing
  <1> QED
    BY <1>2, <1>3, Standing, SweeperStep DEF Expire

LEMMA StumbleStep == \A x \in Sweeper : IInv /\ Stumble(x) => IInv'
  <1> SUFFICES ASSUME NEW x \in Sweeper, IInv, Stumble(x) PROVE IInv'
    OBVIOUS
  <1>1. sweep' \in [Sweeper -> Sweeps]
    BY GotoTyped DEF Stumble
  <1> QED
    BY <1>1, Standing, SweeperStep DEF Stumble

LEMMA DieStep == \A x \in Sweeper : IInv /\ Die(x) => IInv'
  <1> SUFFICES ASSUME NEW x \in Sweeper, IInv, Die(x) PROVE IInv'
    OBVIOUS
  <1>1. sweep' \in [Sweeper -> Sweeps]
    BY GotoTyped DEF Die
  <1>2. faults' \in 0..MaxFaults
    BY Standing, Constants DEF Die
  <1> QED
    BY <1>1, <1>2, Standing, SweeperStep DEF Die

LEMMA Start == Init => IInv
  <1> SUFFICES ASSUME Init PROVE IInv
    OBVIOUS
  <1>1. \A g \in Grant : ledger[g] = <<>> /\ Committed(g) = 0
    BY DEF Init, Committed
  <1>2. TypeOK
    BY <1>1, Constants, IdleTyped DEF Init, TypeOK
  <1>3. \A g \in Grant : Account(ledger[g], Terms[g].size)
    <2> SUFFICES ASSUME NEW g \in Grant PROVE Account(<<>>, Terms[g].size)
      BY <1>1
    <2>1. Balanced(<<>>, Terms[g].size) /\ WrittenOff(<<>>) /\ GivenBack(<<>>)
      BY DEF Balanced, WrittenOff, GivenBack
    <2>2. Steady(<<>>)
      BY DEF Steady, SpentIn
    <2>3. Solvent(<<>>, Terms[g].size)
      BY DEF Solvent
    <2> QED
      BY <2>1, <2>2, <2>3 DEF Account
  <1>4. Snapshots /\ Undone
    BY IdleTyped DEF Init, Snapshots, Undone
  <1> QED
    BY <1>2, <1>3, <1>4 DEF IInv

LEMMA Inductive == IInv /\ [Next]_vars => IInv'
  <1>1. IInv /\ UNCHANGED vars => IInv'
    BY Standing, Stable DEF vars
  <1>2. IInv /\ Next => IInv'
    BY TickStep, IssueStep, AskStep, OpenStep, ConsumeStep, AgainStep, ReturnStep,
       AskReversalStep, TakeBackStep, ReturnReversalStep,
       BeginStep, ExpireStep, StumbleStep, DieStep
    DEF Next, Sweeping
  <1> QED
    BY <1>1, <1>2

LEMMA Safe == Spec => []IInv
  BY Start, Inductive, PTL DEF Spec

(***************************************************************************)
(* Theorems.                                                               *)
(***************************************************************************)
\* The state of the ledger, of the requests for consumption and reversal and of
\* the sweeps keeps its types, whatever the bounds, and an account's entries
\* follow its one grant.
THEOREM CreditTypes == Spec => []TypeOK
  <1>1. IInv => TypeOK
    BY DEF IInv
  <1> QED
    BY <1>1, Safe, PTL

\* Whatever number of requests consume and take back at the same time, on
\* whatever snapshots, what is spent of a grant never exceeds it, and a
\* consumption is given back once, in full.
THEOREM CreditsSpentWithinGrant == Spec => []SpentWithinGrant
  <1>1. IInv => SpentWithinGrant
    BY DEF IInv, Account, Balanced, GivenBack, SpentWithinGrant, Committed, Is
  <1> QED
    BY <1>1, Safe, PTL

\* Only a transaction that began before the expiry of a grant overdraws it: one
\* that has seen it finds nothing to take, unless a reversal came late.
THEOREM ExpiredCreditsStay == Spec => WrittenOffIsSpent
  <1>1. IInv /\ [Next]_vars =>
          \A c \in Caller, g \in Grant :
            LET seen == 1..call[c].snap[g]
                taken == /\ call[c].pc = "open" /\ call'[c].pc = "idle"
                         /\ ledger'[g] # ledger[g]
            IN  taken /\ (\E i \in seen : Is(g, i, "EXPIRE"))
                  => \E i \in seen : Is(g, i, "REVERSAL") /\ Late(g, i)
    <2> SUFFICES ASSUME IInv, [Next]_vars, NEW c \in Caller, NEW g \in Grant,
                        call[c].pc = "open", call'[c].pc = "idle", ledger'[g] # ledger[g],
                        NEW i \in 1..call[c].snap[g], Is(g, i, "EXPIRE"),
                        \A k \in 1..call[c].snap[g] : ~(Is(g, k, "REVERSAL") /\ Late(g, k))
                 PROVE  FALSE
      OBVIOUS
    <2>1. Consume(c)
      <3>1. call'[c] # call[c]
        OBVIOUS
      <3> QED
        BY <3>1, Standing
        DEF Next, vars, Tick, Issue, Ask, Open, Consume, Again, Return, AskReversal,
            TakeBack, ReturnReversal, Sweeping, Begin, Expire, Stumble, Die
    <2>2. g \in Sources(c)
      BY <2>1 DEF Consume
    <2> DEFINE n == call[c].snap[g]
    <2>3. /\ n \in 1..Committed(g) /\ Committed(g) \in Nat
          /\ Share(c, g) \in Nat \ {0} /\ Share(c, g) <= Left(g, n) /\ Left(g, n) \in Int
          /\ Left(g, n) = ledger[g][n].left
      <3>1. TypeOK
        BY DEF IInv
      <3> QED
        BY <2>1, <2>2, <3>1, Consumption, Sums, Ledger
    <2>4. NoneOf(ledger[g], i, n, "REVERSAL")
      BY <2>3 DEF NoneOf, Late, Is
    <2>5. WrittenOff(ledger[g]) /\ Committed(g) = Len(ledger[g])
      BY DEF IInv, Account, Committed
    <2>6. ledger[g][n].left <= 0
      BY <2>3, <2>4, <2>5 DEF WrittenOff, Is
    <2> QED
      BY <2>3, <2>6
  <1> QED
    BY <1>1, Safe, PTL DEF Spec, WrittenOffIsSpent

\* A grant is overdrawn only after it has been written off.
OverdrawnOnlyLate ==
  \A g \in Grant : Left(g, Committed(g)) < 0 => Late(g, Committed(g))

\* As long as no entry follows its expiry a grant is not overdrawn: what makes the
\* sweeps stumble is always an entry that came after one of them.
THEOREM OverdraftsAreLate == Spec => []OverdrawnOnlyLate
  <1>1. IInv => OverdrawnOnlyLate
    <2> SUFFICES ASSUME IInv, NEW g \in Grant, Left(g, Committed(g)) < 0
                 PROVE  Late(g, Committed(g))
      BY DEF OverdrawnOnlyLate
    <2> DEFINE m == Committed(g)
    <2>1. m \in Nat /\ Solvent(ledger[g], Terms[g].size) /\ m = Len(ledger[g])
      BY Ledger DEF IInv, Account, Committed
    <2>2. m \in 1..m
      BY <2>1 DEF Left
    <2>3. Left(g, m) = ledger[g][m].left /\ Left(g, m) \in Int
      BY <2>2, Sums
    <2>4. ~NoneOf(ledger[g], 0, m - 1, "EXPIRE")
      BY <2>1, <2>2, <2>3 DEF Solvent
    <2> QED
      BY <2>1, <2>4 DEF NoneOf, Late, Is
  <1> QED
    BY <1>1, Safe, PTL

(***************************************************************************)
(* What a consumption takes of all its grants together.                    *)
(***************************************************************************)
LEMMA FiniteGrants ==
  /\ Len(Terms) \in Nat /\ Grant = 1..Len(Terms)
  /\ \A S \in SUBSET Grant : IsFiniteSet(S)
  /\ \A g \in Grant : Terms[g].rank \in Nat
  /\ \A g, h \in Grant : Terms[g].rank = Terms[h].rank => g = h
  <1>1. Terms \in Seq([size : Nat \ {0}, from : Nat, to : Nat, rank : Nat])
    BY TermsSound
  <1>2. Len(Terms) \in Nat /\ Grant = 1..Len(Terms)
    BY <1>1 DEF Grant
  <1>3. \A g \in 1..Len(Terms) : Terms[g] \in [size : Nat \ {0}, from : Nat, to : Nat, rank : Nat]
    BY <1>1, ElementOfSeq
  <1>4. IsFiniteSet(Grant)
    BY <1>2, FS_Interval
  <1>5. \A g, h \in Grant : Terms[g].rank = Terms[h].rank => g = h
    BY TermsSound, Zenon
  <1> QED
    BY <1>2, <1>3, <1>4, <1>5, FS_Subset

\* There is a rank above those of all grants.
LEMMA RankAboveAll == \E r \in Nat : \A g \in Grant : Terms[g].rank < r
  <1> DEFINE N == {n \in Nat : \E r \in Nat : \A g \in Grant : g <= n => Terms[g].rank < r}
  <1>1. 0 \in N
    BY FiniteGrants
  <1>2. ASSUME NEW n \in N PROVE n + 1 \in N
    <2>1. PICK r \in Nat : \A g \in Grant : g <= n => Terms[g].rank < r
      OBVIOUS
    <2>2. CASE n + 1 \in Grant
      <3> DEFINE t == Terms[n + 1].rank + 1
                 u == IF r < t THEN t ELSE r
      <3>1. u \in Nat /\ r <= u /\ Terms[n + 1].rank < u
        BY <2>2, FiniteGrants
      <3> HIDE DEF u
      <3>2. ASSUME NEW g \in Grant, g <= n + 1 PROVE Terms[g].rank < u
        BY <2>1, <3>1, <3>2, FiniteGrants
      <3> QED
        BY <3>1, <3>2
    <2>3. CASE n + 1 \notin Grant
      <3>1. ASSUME NEW g \in Grant, g <= n + 1 PROVE g <= n
        BY <2>3, <3>1, FiniteGrants
      <3> QED
        BY <2>1, <3>1
    <2> QED
      BY <2>2, <2>3
  <1> HIDE DEF N
  <1>3. N \in SUBSET Nat
    BY DEF N
  <1>4. N = Nat
    BY <1>1, <1>2, <1>3, SetInduction
  <1>5. Len(Terms) \in N /\ \A g \in Grant : g <= Len(Terms)
    BY <1>4, FiniteGrants
  <1>6. PICK r \in Nat : \A g \in Grant : g <= Len(Terms) => Terms[g].rank < r
    BY <1>5 DEF N
  <1> QED
    BY <1>5, <1>6

\* What the grants offer a call, and what it takes of them.
OfferOf(c) == [g \in Grant |-> Offers(c, g)]
ShareOf(c) == [g \in Grant |-> Share(c, g)]
Before(c, r) == {h \in Available(c) : Terms[h].rank < r}

LEMMA OffersAndShares ==
  ASSUME IInv, NEW c \in Caller, call[c].pc = "open"
  PROVE  /\ Available(c) \in SUBSET Grant
         /\ \A g \in Grant : OfferOf(c)[g] \in Int /\ OfferOf(c)[g] = Offers(c, g)
         /\ \A g \in Grant : ShareOf(c)[g] \in Nat /\ ShareOf(c)[g] = Share(c, g)
         /\ \A S \in SUBSET Grant : /\ OfferedBy(c, S) = SumFunctionOnSet(OfferOf(c), S)
                                    /\ SumFunctionOnSet(OfferOf(c), S) \in Int
                                    /\ SumFunctionOnSet(ShareOf(c), S) \in Int
  <1>1. Available(c) \in SUBSET Grant
    BY DEF Available
  <1>2. \A g \in Grant : OfferOf(c)[g] \in Int /\ OfferOf(c)[g] = Offers(c, g)
    BY ShareBounded DEF OfferOf
  <1>3. \A g \in Grant : ShareOf(c)[g] \in Nat /\ ShareOf(c)[g] = Share(c, g)
    BY ShareBounded DEF ShareOf
  <1>4. ASSUME NEW S \in SUBSET Grant
        PROVE  /\ OfferedBy(c, S) = SumFunctionOnSet(OfferOf(c), S)
               /\ SumFunctionOnSet(OfferOf(c), S) \in Int
               /\ SumFunctionOnSet(ShareOf(c), S) \in Int
    <2> DEFINE f == [g \in S |-> Offers(c, g)]
    <2>1. IsFiniteSet(S) /\ S \in SUBSET S /\ S \ S = {}
      BY FiniteGrants
    <2>2. OfferedBy(c, S) = SumFunctionOnSet(f, S)
      BY DEF OfferedBy, SumFunction
    <2>3. \A x \in S : f[x] = OfferOf(c)[x] /\ OfferOf(c)[x] \in Int /\ ShareOf(c)[x] \in Int
      BY <1>2, <1>3
    <2> HIDE DEF f
    <2>4. SumFunctionOnSet(f, S) = SumFunctionOnSet(OfferOf(c), S)
      BY <2>1, <2>3, SumSupport
    <2>5. SumFunctionOnSet(OfferOf(c), S) \in Int /\ SumFunctionOnSet(ShareOf(c), S) \in Int
      BY <2>1, <2>3, SumInt
    <2> QED
      BY <2>2, <2>4, <2>5
  <1> QED
    BY <1>1, <1>2, <1>3, <1>4

\* Of a grant a call takes what those before it leave open, as far as it offers it.
LEMMA ShareIs ==
  ASSUME IInv, NEW c \in Caller, call[c].pc = "open", call[c].op \in Op, Sufficient(c),
         NEW g \in Available(c)
  PROVE  LET open == Amount[call[c].op] - SumFunctionOnSet(OfferOf(c), Before(c, Terms[g].rank))
         IN  /\ Offers(c, g) \in Nat
             /\ Share(c, g) = IF open <= 0 THEN 0
                              ELSE IF Offers(c, g) <= open THEN Offers(c, g) ELSE open
  <1> DEFINE b == SumFunctionOnSet(OfferOf(c), Before(c, Terms[g].rank))
             a == Amount[call[c].op]
             k == Offers(c, g)
             T == {n \in 1..k : n <= a - b}
             most == IF a - b <= 0 THEN 0 ELSE IF k <= a - b THEN k ELSE a - b
  <1>1. g \in Grant /\ Before(c, Terms[g].rank) \in SUBSET Grant
    BY DEF Available, Before
  <1>2. b \in Int /\ OfferedBy(c, Before(c, Terms[g].rank)) = b
    BY <1>1, OffersAndShares
  <1>3. a \in Nat
    BY Constants
  <1>4. k \in Nat
    BY <1>1, ShareBounded DEF Sufficient
  <1>5. Share(c, g) = Cardinality(T)
    BY <1>2 DEF Share, Before
  <1> HIDE DEF a, b, k
  <1>6. T = 1..most /\ most \in Nat
    BY <1>2, <1>3, <1>4
  <1> HIDE DEF most, T
  <1>7. Cardinality(1..most) = most
    BY <1>6, FS_Interval
  <1> QED
    BY <1>4, <1>5, <1>6, <1>7 DEF a, b, k, most

\* The grants up to a rank give what is asked for, or all they offer if that is less.
LEMMA SharesBefore ==
  ASSUME IInv, NEW c \in Caller, call[c].pc = "open", call[c].op \in Op, Sufficient(c), NEW r \in Nat
  PROVE  LET offered == SumFunctionOnSet(OfferOf(c), Before(c, r))
         IN  SumFunctionOnSet(ShareOf(c), Before(c, r)) =
               IF offered <= Amount[call[c].op] THEN offered ELSE Amount[call[c].op]
  <1> DEFINE a == Amount[call[c].op]
             o(S) == SumFunctionOnSet(OfferOf(c), S)
             s(S) == SumFunctionOnSet(ShareOf(c), S)
             N == {n \in Nat : s(Before(c, n)) = IF o(Before(c, n)) <= a THEN o(Before(c, n)) ELSE a}
  <1>1. a \in Nat
    BY Constants
  <1>2. \A n : Before(c, n) \in SUBSET Grant
    BY DEF Before, Available
  <1>3. 0 \in N
    <2>1. Before(c, 0) = {}
      BY <1>2, FiniteGrants DEF Before
    <2> QED
      BY <1>1, <2>1, SumEmpty
  <1>4. ASSUME NEW n \in N PROVE n + 1 \in N
    <2>1. n \in Nat /\ s(Before(c, n)) = IF o(Before(c, n)) <= a THEN o(Before(c, n)) ELSE a
      OBVIOUS
    <2>2. CASE \A g \in Available(c) : Terms[g].rank # n
      <3>1. Before(c, n + 1) = Before(c, n)
        BY <2>1, <2>2, FiniteGrants DEF Before, Available
      <3> QED
        BY <2>1, <3>1
    <2>3. ASSUME NEW g \in Available(c), Terms[g].rank = n
          PROVE  n + 1 \in N
      <3>1. g \in Grant /\ g \notin Before(c, n)
        BY <2>1, <2>3 DEF Available, Before
      <3>2. Before(c, n + 1) = Before(c, n) \cup {g}
        <4>1. ASSUME NEW h \in Grant PROVE Terms[h].rank < n + 1 <=> Terms[h].rank < n \/ h = g
          <5>1. Terms[h].rank \in Nat /\ (Terms[h].rank = n => h = g)
            BY <2>3, <3>1, FiniteGrants
          <5> QED
            BY <2>1, <2>3, <5>1
        <4> QED
          BY <4>1 DEF Before, Available
      <3> DEFINE B == Before(c, n)
                 off == OfferOf(c)
                 sha == ShareOf(c)
      <3>3. /\ IsFiniteSet(B) /\ B \in SUBSET Grant
            /\ \A x \in B : off[x] \in Int /\ sha[x] \in Int
            /\ off[g] = Offers(c, g) /\ sha[g] = Share(c, g)
            /\ off[g] \in Int /\ sha[g] \in Int
            /\ o(B) \in Int
        BY <1>2, <3>1, OffersAndShares, FiniteGrants
      <3>4. /\ Offers(c, g) \in Nat
            /\ Share(c, g) = IF a - o(B) <= 0 THEN 0
                             ELSE IF Offers(c, g) <= a - o(B) THEN Offers(c, g) ELSE a - o(B)
        BY <2>3, ShareIs
      <3> HIDE DEF B, off, sha
      <3>5. /\ SumFunctionOnSet(off, B \cup {g}) = off[g] + SumFunctionOnSet(off, B)
            /\ SumFunctionOnSet(sha, B \cup {g}) = sha[g] + SumFunctionOnSet(sha, B)
        BY <3>1, <3>3, SumAdd DEF B
      <3>6. o(Before(c, n + 1)) = Offers(c, g) + o(B) /\ s(Before(c, n + 1)) = Share(c, g) + s(B)
        BY <3>2, <3>3, <3>5 DEF B, off, sha
      <3>7. s(B) = IF o(B) <= a THEN o(B) ELSE a
        BY <2>1 DEF B
      <3> DEFINE p == o(B)
                 q == o(Before(c, n + 1))
                 u == s(B)
                 v == s(Before(c, n + 1))
      <3>8. /\ p \in Int /\ q = Offers(c, g) + p /\ v = Share(c, g) + u
            /\ u = IF p <= a THEN p ELSE a
            /\ Share(c, g) = IF a - p <= 0 THEN 0
                             ELSE IF Offers(c, g) <= a - p THEN Offers(c, g) ELSE a - p
        BY <3>3, <3>4, <3>6, <3>7
      <3> HIDE DEF p, q, u, v, a
      <3>9. v = IF q <= a THEN q ELSE a
        BY <1>1, <3>4, <3>8
      <3> QED
        BY <2>1, <3>9 DEF q, v, a
    <2> QED
      BY <2>2, <2>3
  <1> HIDE DEF N
  <1>5. N \in SUBSET Nat
    BY DEF N
  <1>6. N = Nat
    BY <1>3, <1>4, <1>5, SetInduction
  <1> QED
    BY <1>6 DEF N

\* A call that goes through takes of all its grants together what it asks for.
LEMMA SharesAddUp ==
  ASSUME IInv, NEW c \in Caller, call[c].pc = "open", call[c].op \in Op, Sufficient(c)
  PROVE  SumFunctionOnSet(ShareOf(c), Available(c)) = Amount[call[c].op]
  <1>1. PICK r \in Nat : \A g \in Grant : Terms[g].rank < r
    BY RankAboveAll
  <1>2. Available(c) \in SUBSET Grant /\ Before(c, r) = Available(c)
    BY <1>1 DEF Before, Available
  <1> DEFINE a == Amount[call[c].op]
             o == SumFunctionOnSet(OfferOf(c), Available(c))
  <1>3. o \in Int /\ a \in Nat /\ o >= a
    BY <1>2, OffersAndShares, Constants DEF Sufficient
  <1>4. SumFunctionOnSet(ShareOf(c), Available(c)) = IF o <= a THEN o ELSE a
    BY <1>2, SharesBefore
  <1> QED
    BY <1>3, <1>4

(***************************************************************************)
(* The charges of an operation.                                            *)
(***************************************************************************)
IsCharged(o) == \E g \in Grant : Charges(o, g) # {}
Total(o) == SumFunction([g \in Grant |-> TakenBy(o, g)])

\* Whether a step leaves the charges of an operation as they are.
SameCharges(o) ==
  \A g \in Grant :
    /\ Charges(o, g)' = Charges(o, g)
    /\ \A i \in Charges(o, g) : ledger'[g][i] = ledger[g][i]

LEMMA OtherEntries ==
  ASSUME IInv, NEW o \in Op, ledger' \in [Grant -> Seq(Entries)],
         \A g \in Grant :
           \/ ledger'[g] = ledger[g]
           \/ \E e \in Entries : e.op # o /\ ledger'[g] = Append(ledger[g], e)
  PROVE  SameCharges(o)
  <1>1. ASSUME NEW g \in Grant
        PROVE  /\ \A i \in 1..Len(ledger[g]) : ledger'[g][i] = ledger[g][i]
               /\ \A i : i \in 1..Len(ledger'[g]) /\ ledger'[g][i].op = o
                         <=> i \in 1..Len(ledger[g]) /\ ledger[g][i].op = o
    <2>1. ledger[g] \in Seq(Entries)
      BY Ledger DEF IInv
    <2>2. CASE ledger'[g] = ledger[g]
      BY <2>1, <2>2
    <2>3. ASSUME NEW e \in Entries, e.op # o, ledger'[g] = Append(ledger[g], e)
          PROVE  /\ \A i \in 1..Len(ledger[g]) : ledger'[g][i] = ledger[g][i]
                 /\ \A i : i \in 1..Len(ledger'[g]) /\ ledger'[g][i].op = o
                           <=> i \in 1..Len(ledger[g]) /\ ledger[g][i].op = o
      <3>1. /\ Len(ledger'[g]) = Len(ledger[g]) + 1 /\ Len(ledger[g]) \in Nat
            /\ ledger'[g][Len(ledger[g]) + 1] = e
            /\ \A k \in 1..Len(ledger[g]) : ledger'[g][k] = ledger[g][k]
        BY <2>1, <2>3, Appended
      <3> QED
        BY <2>3, <3>1
    <2> QED
      BY <2>2, <2>3
  <1> QED
    BY <1>1 DEF SameCharges, Charges, Committed

\* What a consumption appends.
LEMMA ConsumptionEntries ==
  ASSUME IInv, NEW c \in Caller, Consume(c)
  PROVE  LET e(g) == Entry(g, "CONSUME", -Share(c, g), call[c].op, 0)
         IN  /\ \A g \in Grant : /\ e(g) \in Entries
                                 /\ e(g).op = call[c].op
                                 /\ e(g).amount = -Share(c, g)
             /\ ledger' = [g \in Grant |-> IF g \in Sources(c) THEN Append(ledger[g], e(g))
                                           ELSE ledger[g]]
             /\ ledger' \in [Grant -> Seq(Entries)]
  <1> DEFINE e(g) == Entry(g, "CONSUME", -Share(c, g), call[c].op, 0)
  <1>1. ASSUME NEW g \in Grant
        PROVE  /\ e(g) \in Entries /\ e(g).op = call[c].op /\ e(g).amount = -Share(c, g)
               /\ ledger[g] \in Seq(Entries)
               /\ Append(ledger[g], e(g)) \in Seq(Entries)
    <2>1. TypeOK
      BY DEF IInv
    <2>2. Share(c, g) \in Nat
      BY ShareBounded DEF Consume
    <2>3. "CONSUME" \in Kind /\ -Share(c, g) \in Int /\ 0 \in Nat /\ call[c].op \in Ops
      BY <2>2, Standing DEF Kind, Calls, Ops
    <2>4. e(g) \in Entries /\ e(g).op = call[c].op /\ e(g).amount = -Share(c, g)
      BY <2>1, <2>3, EntryTyped
    <2>5. ledger[g] \in Seq(Entries)
      BY <2>1, Ledger
    <2> HIDE DEF e
    <2> QED
      BY <2>4, <2>5, Appended
  <1>2. ledger' = [g \in Grant |-> IF g \in Sources(c) THEN Append(ledger[g], e(g)) ELSE ledger[g]]
    BY DEF Consume
  <1> HIDE DEF e
  <1>3. ledger' \in [Grant -> Seq(Entries)]
    BY <1>1, <1>2
  <1> QED
    BY <1>1, <1>2, <1>3 DEF e

LEMMA ConsumptionSpares ==
  ASSUME IInv, NEW c \in Caller, Consume(c), NEW o \in Op, o # call[c].op
  PROVE  SameCharges(o)
  <1> DEFINE e(g) == Entry(g, "CONSUME", -Share(c, g), call[c].op, 0)
  <1>1. /\ \A g \in Grant : e(g) \in Entries /\ e(g).op # o
        /\ ledger' = [g \in Grant |-> IF g \in Sources(c) THEN Append(ledger[g], e(g))
                                      ELSE ledger[g]]
        /\ ledger' \in [Grant -> Seq(Entries)]
    BY ConsumptionEntries
  <1> HIDE DEF e
  <1>2. \A g \in Grant : \/ ledger'[g] = ledger[g]
                         \/ e(g).op # o /\ ledger'[g] = Append(ledger[g], e(g))
    BY <1>1
  <1> QED
    BY <1>1, <1>2, OtherEntries

\* Only a consumption for an operation charges it.
LEMMA OthersStep ==
  ASSUME IInv, [Next]_vars, NEW o \in Op, \A c \in Caller : Consume(c) => call[c].op # o
  PROVE  SameCharges(o)
  <1>1. TypeOK /\ NoOp \in Ops /\ NoOp # o
    BY AmountsSound DEF IInv, Ops
  <1>2. ASSUME NEW g \in Grant, NEW kind \in Kind, NEW amount \in Int, NEW of \in Nat,
               Write(g, Entry(g, kind, amount, NoOp, of))
        PROVE  SameCharges(o)
    <2> DEFINE e == Entry(g, kind, amount, NoOp, of)
    <2>1. e \in Entries /\ e.op = NoOp
      <3>1. /\ TypeOK /\ NoOp \in Ops
            /\ g \in Grant /\ kind \in Kind /\ amount \in Int /\ of \in Nat
        BY <1>1
      <3>2. Entry(g, kind, amount, NoOp, of) \in Entries
        BY <3>1, EntryTyped
      <3>3. Entry(g, kind, amount, NoOp, of).op = NoOp
        BY <3>1, EntryTyped
      <3> QED
        BY <3>2, <3>3
    <2> HIDE DEF e
    <2>2. ledger' = [ledger EXCEPT ![g] = Append(ledger[g], e)]
      BY <1>2 DEF Write, e
    <2>3. ledger' \in [Grant -> Seq(Entries)]
      BY <1>1, <2>1, <2>2, Appended DEF TypeOK
    <2>4. \A h \in Grant : \/ ledger'[h] = ledger[h]
                           \/ e.op # o /\ ledger'[h] = Append(ledger[h], e)
      BY <1>1, <2>1, <2>2 DEF TypeOK
    <2> QED
      BY <2>1, <2>3, <2>4, OtherEntries
  <1>3. ASSUME UNCHANGED ledger PROVE SameCharges(o)
    BY <1>3 DEF SameCharges, Charges, Committed
  <1>4. ASSUME NEW g \in Grant, Issue(g) PROVE SameCharges(o)
    <2>1. "GRANT" \in Kind /\ Terms[g].size \in Int /\ 0 \in Nat
      BY Constants DEF Kind
    <2> QED
      BY <1>2, <1>4, <2>1 DEF Issue
  <1>5. ASSUME NEW c \in Caller, Consume(c) PROVE SameCharges(o)
    BY <1>5, ConsumptionSpares
  <1>6. ASSUME NEW r \in Reverser, TakeBack(r) PROVE SameCharges(o)
    <2>1. PICK g \in Grant : g = undo[r].grant
      BY <1>6, Standing DEF TakeBack
    <2>2. PICK i \in 1..Committed(g) : i = undo[r].entry
      BY <1>6, <2>1, Standing DEF TakeBack
    <2>3. ledger[g][i] \in Entries /\ i \in Nat
      BY <1>1, Ledger
    <2>4. -ledger[g][i].amount \in Int /\ "REVERSAL" \in Kind
      BY <2>3 DEF Entries, Kind
    <2>5. Write(g, Entry(g, "REVERSAL", -ledger[g][i].amount, NoOp, i))
      BY <1>6, <2>1, <2>2 DEF TakeBack
    <2> QED
      BY <1>2, <2>3, <2>4, <2>5
  <1>7. ASSUME NEW x \in Sweeper, Expire(x) PROVE SameCharges(o)
    <2>1. PICK g \in Grant :
            \/ Write(g, Entry(g, "EXPIRE", -Left(g, Committed(g)), NoOp, 0))
            \/ UNCHANGED ledger
      BY <1>7 DEF Expire
    <2>2. Committed(g) \in 0..Committed(g)
      BY <1>1, Ledger
    <2>3. -Left(g, Committed(g)) \in Int /\ "EXPIRE" \in Kind /\ 0 \in Nat
      BY <1>1, <2>2, Ledger DEF Kind
    <2> QED
      BY <1>2, <1>3, <2>1, <2>3
  <1> QED
    BY <1>3, <1>4, <1>5, <1>6, <1>7
    DEF Next, vars, Tick, Ask, Open, Again, Return, AskReversal, ReturnReversal,
        Sweeping, Begin, Stumble, Die

\* A consumption goes through only if its operation has not been charged.
LEMMA Uncharged ==
  ASSUME IInv, NEW c \in Caller, Consume(c), NEW g \in Grant
  PROVE  Charges(call[c].op, g) = {}
  <1>1. SUFFICES ASSUME NEW i \in 1..Committed(g), ledger[g][i].op = call[c].op PROVE FALSE
    BY DEF Charges
  <1>2. call[c].snap[g] \in Nat /\ Committed(g) \in Nat
    BY Ledger, Standing DEF IInv, Calls
  <1>3. i \in 1..call[c].snap[g] \/ i \in (call[c].snap[g] + 1)..Committed(g)
    BY <1>2
  <1>4. ~Charged(c) /\ ~Overtaken(c)
    BY DEF Consume
  <1> QED
    BY <1>1, <1>3, <1>4 DEF Charged, Overtaken

LEMMA ChargedStep ==
  ASSUME IInv, [Next]_vars, NEW o \in Op, IsCharged(o)
  PROVE  SameCharges(o)
  BY OthersStep, Uncharged DEF IsCharged

LEMMA SameTotal == ASSUME NEW o \in Op, SameCharges(o) PROVE Total(o)' = Total(o)
  <1>1. ASSUME NEW g \in Grant PROVE TakenBy(o, g)' = TakenBy(o, g)
    <2>1. /\ Charges(o, g)' = Charges(o, g)
          /\ \A i \in Charges(o, g) : ledger'[g][i] = ledger[g][i]
      BY DEF SameCharges
    <2>2. [i \in Charges(o, g)' |-> ledger'[g][i].amount]
            = [i \in Charges(o, g) |-> ledger[g][i].amount]
      BY <2>1
    <2> QED
      BY <2>2 DEF TakenBy
  <1>2. [g \in Grant |-> TakenBy(o, g)'] = [g \in Grant |-> TakenBy(o, g)]
    BY <1>1
  <1> QED
    BY <1>2 DEF Total

\* What a consumption takes of one grant is in its account once.
LEMMA TakenOnce ==
  ASSUME IInv, NEW c \in Caller, Consume(c), NEW g \in Grant, NEW o \in Op, o = call[c].op
  PROVE  TakenBy(o, g)' = IF g \in Sources(c) THEN -Share(c, g) ELSE 0
  <1> DEFINE e == Entry(g, "CONSUME", -Share(c, g), call[c].op, 0)
             m == Len(ledger[g])
             C == {i \in 1..Len(ledger'[g]) : ledger'[g][i].op = o}
             f == [i \in C |-> ledger'[g][i].amount]
  <1>1. \A i \in 1..m : ledger[g][i].op # o
    BY Uncharged DEF Charges, Committed
  <1>2. TakenBy(o, g)' = SumFunctionOnSet(f, C)
    BY DEF TakenBy, SumFunction, Charges, Committed
  <1>3. /\ e \in Entries /\ e.op = o /\ e.amount = -Share(c, g)
        /\ ledger'[g] = IF g \in Sources(c) THEN Append(ledger[g], e) ELSE ledger[g]
    BY ConsumptionEntries
  <1>4. ledger[g] \in Seq(Entries) /\ m \in Nat
    BY Ledger DEF IInv
  <1> HIDE DEF e
  <1>5. CASE g \notin Sources(c)
    <2>1. C = {}
      BY <1>1, <1>3, <1>5
    <2> HIDE DEF C, f
    <2> QED
      BY <1>2, <1>5, <2>1, SumEmpty
  <1>6. CASE g \in Sources(c)
    <2>1. /\ Len(ledger'[g]) = m + 1 /\ ledger'[g][m + 1] = e
          /\ \A i \in 1..m : ledger'[g][i] = ledger[g][i]
      BY <1>3, <1>4, <1>6, Appended
    <2>2. C = {m + 1}
      BY <1>1, <1>3, <1>4, <2>1
    <2>3. f[m + 1] = -Share(c, g) /\ -Share(c, g) \in Int
      <3>1. Share(c, g) \in Nat
        BY ShareBounded DEF Consume
      <3> QED
        BY <1>3, <2>1, <2>2, <3>1
    <2> HIDE DEF C, f, m
    <2>4. SumFunctionOnSet(f, {m + 1}) = f[m + 1]
      BY <2>3, SumSingle
    <2> QED
      BY <1>2, <1>6, <2>2, <2>3, <2>4
  <1> QED
    BY <1>5, <1>6

\* A consumption charges its operation in full.
LEMMA ConsumptionCharges ==
  ASSUME IInv, NEW c \in Caller, Consume(c), NEW o \in Op, o = call[c].op
  PROVE  Total(o)' = -Amount[o]
  <1> DEFINE f == [g \in Grant |-> TakenBy(o, g)']
             n == [g \in Grant |-> -Share(c, g)]
             A == Available(c)
  <1>1. call[c].pc = "open" /\ Sufficient(c)
    BY DEF Consume
  <1>2. Total(o)' = SumFunctionOnSet(f, Grant)
    BY DEF Total, SumFunction
  <1>3. A \in SUBSET Grant /\ IsFiniteSet(A) /\ IsFiniteSet(Grant)
    BY FiniteGrants DEF Available
  <1>4. /\ \A g \in A : f[g] = n[g] /\ n[g] \in Int /\ ShareOf(c)[g] \in Int
                        /\ n[g] = -ShareOf(c)[g]
        /\ \A g \in Grant \ A : f[g] = 0
    <2>1. ASSUME NEW g \in Grant
          PROVE  /\ f[g] = IF g \in Sources(c) THEN -Share(c, g) ELSE 0
                 /\ n[g] = -Share(c, g) /\ Share(c, g) \in Nat /\ ShareOf(c)[g] = Share(c, g)
      BY <1>1, TakenOnce, OffersAndShares DEF ShareOf
    <2>2. \A g \in Grant : g \in Sources(c) <=> g \in A /\ Share(c, g) > 0
      BY DEF Sources, Available
    <2> HIDE DEF f, n, A
    <2> QED
      BY <1>3, <2>1, <2>2
  <1>5. SumFunctionOnSet(ShareOf(c), A) = Amount[o]
    BY <1>1, SharesAddUp
  <1> HIDE DEF f, n, A
  <1>6. SumFunctionOnSet(f, Grant) = SumFunctionOnSet(n, A)
    BY <1>3, <1>4, SumSupport
  <1>7. SumFunctionOnSet(n, A) = -SumFunctionOnSet(ShareOf(c), A)
    BY <1>3, <1>4, SumNegated
  <1> QED
    BY <1>2, <1>5, <1>6, <1>7

\* What is charged of an operation is what it asks for.
InFull == \A o \in Op : IsCharged(o) => Total(o) = -Amount[o]

LEMMA InFullStep == IInv /\ InFull /\ [Next]_vars => InFull'
  <1> SUFFICES ASSUME IInv, InFull, [Next]_vars, NEW o \in Op, IsCharged(o)'
               PROVE  Total(o)' = -Amount[o]
    BY DEF InFull
  <1>1. ASSUME NEW c \in Caller, Consume(c), call[c].op = o
        PROVE  Total(o)' = -Amount[o]
    BY <1>1, ConsumptionCharges
  <1>2. CASE \A c \in Caller : Consume(c) => call[c].op # o
    <2>1. SameCharges(o)
      BY <1>2, OthersStep
    <2>2. IsCharged(o)
      BY <2>1 DEF IsCharged, SameCharges
    <2> QED
      BY <2>1, <2>2, SameTotal DEF InFull
  <1> QED
    BY <1>1, <1>2

LEMMA NothingTaken == \A o \in Op : ~IsCharged(o) => Total(o) = 0
  <1> SUFFICES ASSUME NEW o \in Op, ~IsCharged(o) PROVE Total(o) = 0
    OBVIOUS
  <1> DEFINE f == [g \in Grant |-> TakenBy(o, g)]
  <1>1. ASSUME NEW g \in Grant PROVE f[g] = 0
    <2>1. Charges(o, g) = {}
      BY DEF IsCharged
    <2> DEFINE h == [i \in Charges(o, g) |-> ledger[g][i].amount]
    <2>2. TakenBy(o, g) = SumFunctionOnSet(h, Charges(o, g))
      BY DEF TakenBy, SumFunction
    <2> HIDE DEF h
    <2>3. TakenBy(o, g) = 0
      BY <2>1, <2>2, SumEmpty
    <2> QED
      BY <2>3
  <1>2. Total(o) = SumFunctionOnSet(f, Grant)
    BY DEF Total, SumFunction
  <1>3. IsFiniteSet(Grant) /\ {} \in SUBSET Grant /\ \A g \in Grant \ {} : f[g] = 0
    BY <1>1, FiniteGrants
  <1> HIDE DEF f
  <1>4. SumFunctionOnSet(f, Grant) = SumFunctionOnSet(f, {})
    BY <1>3, SumSupport
  <1> QED
    BY <1>2, <1>4, SumEmpty

\* An operation once charged is not charged again, to this grant or another:
\* a transaction that has not seen the charge is rejected for the operation's key.
THEOREM ChargedForGood ==
  Spec => [][\A o \in Op : (\E g \in Grant : Charges(o, g) # {})
               => \A g \in Grant : Charges(o, g)' = Charges(o, g)]_vars
  <1>1. IInv /\ [Next]_vars =>
          \A o \in Op : (\E g \in Grant : Charges(o, g) # {})
            => \A g \in Grant : Charges(o, g)' = Charges(o, g)
    BY ChargedStep DEF IsCharged, SameCharges
  <1> QED
    BY <1>1, Safe, PTL DEF Spec

\* Of an operation nothing is charged or all it asks for, from however many
\* grants it is paid, and whatever becomes of the repetitions of its request:
\* the shares of the grants, taken by rank, add up to the amount.
THEOREM OperationsChargedOnce == Spec => []ChargedOnce
  <1>1. Init => InFull
    BY DEF Init, InFull, IsCharged, Charges, Committed
  <1>2. InFull => ChargedOnce
    BY NothingTaken DEF InFull, ChargedOnce, Total
  <1> QED
    BY <1>1, <1>2, InFullStep, Safe, PTL DEF Spec

(***************************************************************************)
(* What an account says of an operation.                                   *)
(***************************************************************************)
\* Consumptions carry an operation, nothing else does, and each operation has
\* one entry at most.
Marked(s) ==
  \A i \in 1..Len(s) :
    /\ s[i].kind = "CONSUME" <=> s[i].op \in Op
    /\ \A j \in 1..Len(s) : s[i].op \in Op /\ s[i].op = s[j].op => i = j

ReversedIn(s, i) == \E j \in 1..Len(s) : s[j].kind = "REVERSAL" /\ s[j].of = i
KeptIn(s, o) == {i \in 1..Len(s) : s[i].op = o /\ ~ReversedIn(s, i)}
PaidIn(s, o) == -SumFunction([i \in KeptIn(s, o) |-> s[i].amount])

LEMMA MarkedAppend ==
  ASSUME NEW s \in Seq(Entries), NEW e \in Entries, Marked(s),
         e.kind = "CONSUME" <=> e.op \in Op,
         e.op \in Op => \A i \in 1..Len(s) : s[i].op # e.op
  PROVE  Marked(Append(s, e))
  <1> DEFINE t == Append(s, e)
             n == Len(s)
  <1>1. Len(t) = n + 1 /\ n \in Nat /\ t[n + 1] = e /\ \A i \in 1..n : t[i] = s[i]
    BY Appended
  <1>2. \A i \in 1..(n + 1) : i \in 1..n \/ i = n + 1
    BY <1>1
  <1> HIDE DEF t
  <1>3. Marked(t)
    BY <1>1, <1>2 DEF Marked
  <1> QED
    BY <1>3 DEF t

\* An entry that neither is of an operation nor reverses one of it leaves what
\* the operation paid as it was.
LEMMA PaidKept ==
  ASSUME NEW s \in Seq(Entries), NEW e \in Entries, NEW o, e.op # o,
         \A i \in 1..Len(s) : s[i].op = o => ~(e.kind = "REVERSAL" /\ e.of = i)
  PROVE  PaidIn(Append(s, e), o) = PaidIn(s, o)
  <1> DEFINE t == Append(s, e)
             n == Len(s)
  <1>1. Len(t) = n + 1 /\ n \in Nat /\ t[n + 1] = e /\ \A i \in 1..n : t[i] = s[i]
    BY Appended
  <1>2. \A i \in 1..(n + 1) : i \in 1..n \/ i = n + 1
    BY <1>1
  <1> HIDE DEF t
  <1>3. ASSUME NEW i \in 1..n, s[i].op = o PROVE ReversedIn(t, i) <=> ReversedIn(s, i)
    <2>1. ReversedIn(s, i) => ReversedIn(t, i)
      BY <1>1 DEF ReversedIn
    <2>2. ASSUME NEW j \in 1..(n + 1), t[j].kind = "REVERSAL", t[j].of = i PROVE ReversedIn(s, i)
      <3>1. j # n + 1
        BY <1>1, <1>3, <2>2
      <3>2. j \in 1..n /\ t[j] = s[j]
        BY <1>1, <1>2, <3>1
      <3> QED
        BY <2>2, <3>2 DEF ReversedIn
    <2> QED
      BY <1>1, <2>1, <2>2 DEF ReversedIn
  <1>4. KeptIn(t, o) = KeptIn(s, o)
    BY <1>1, <1>2, <1>3 DEF KeptIn
  <1>5. \A i \in KeptIn(s, o) : t[i] = s[i]
    BY <1>1 DEF KeptIn
  <1>6. [i \in KeptIn(t, o) |-> t[i].amount] = [i \in KeptIn(s, o) |-> s[i].amount]
    BY <1>4, <1>5
  <1>7. PaidIn(t, o) = PaidIn(s, o)
    BY <1>6 DEF PaidIn
  <1> QED
    BY <1>7 DEF t

LEMMA PaidNone ==
  ASSUME NEW s, NEW o, KeptIn(s, o) = {}
  PROVE  PaidIn(s, o) = 0
  <1> DEFINE f == [k \in KeptIn(s, o) |-> s[k].amount]
  <1>1. PaidIn(s, o) = -SumFunctionOnSet(f, KeptIn(s, o))
    BY DEF PaidIn, SumFunction
  <1> HIDE DEF f
  <1>2. SumFunctionOnSet(f, KeptIn(s, o)) = 0
    BY SumEmpty
  <1> QED
    BY <1>1, <1>2

LEMMA PaidSingle ==
  ASSUME NEW s, NEW o, NEW i, KeptIn(s, o) = {i}, s[i].amount \in Int
  PROVE  PaidIn(s, o) = -s[i].amount
  <1> DEFINE f == [k \in KeptIn(s, o) |-> s[k].amount]
  <1>1. PaidIn(s, o) = -SumFunctionOnSet(f, KeptIn(s, o))
    BY DEF PaidIn, SumFunction
  <1>2. f[i] = s[i].amount
    OBVIOUS
  <1> HIDE DEF f
  <1>3. SumFunctionOnSet(f, KeptIn(s, o)) = s[i].amount
    BY <1>2, SumSingle
  <1> QED
    BY <1>1, <1>3

\* An operation that has one entry paid what it says, until it is reversed.
LEMMA PaidOnce ==
  ASSUME NEW s \in Seq(Entries), Marked(s), NEW i \in 1..Len(s), s[i].op \in Op
  PROVE  PaidIn(s, s[i].op) = IF ReversedIn(s, i) THEN 0 ELSE -s[i].amount
  <1>1. s[i] \in Entries
    BY ElementOfSeq
  <1>2. s[i].amount \in Int
    BY <1>1 DEF Entries
  <1>3. KeptIn(s, s[i].op) = IF ReversedIn(s, i) THEN {} ELSE {i}
    BY DEF KeptIn, Marked
  <1>4. CASE ReversedIn(s, i)
    BY <1>3, <1>4, PaidNone
  <1>5. CASE ~ReversedIn(s, i)
    BY <1>2, <1>3, <1>5, PaidSingle
  <1> QED
    BY <1>4, <1>5

LEMMA PaidNothing ==
  ASSUME NEW s \in Seq(Entries), NEW o, \A i \in 1..Len(s) : s[i].op # o
  PROVE  PaidIn(s, o) = 0
  BY PaidNone DEF KeptIn

(***************************************************************************)
(* What a step may do to the ledger.                                       *)
(***************************************************************************)
Asking == \A c \in Caller : call[c].pc # "idle" => call[c].op \in Op
Keyed == Asking /\ \A g \in Grant : Marked(ledger[g])

LEMMA LedgerStep ==
  ASSUME IInv, [Next]_vars
  PROVE  \/ UNCHANGED ledger
         \/ \E g \in Grant : /\ ledger[g] = <<>>
                             /\ Write(g, Entry(g, "GRANT", Terms[g].size, NoOp, 0))
         \/ \E g \in Grant : /\ Left(g, Committed(g)) > 0
                             /\ Write(g, Entry(g, "EXPIRE", -Left(g, Committed(g)), NoOp, 0))
         \/ \E g \in Grant : \E i \in 1..Committed(g) :
              /\ Is(g, i, "CONSUME")
              /\ \A j \in 1..Committed(g) : Is(g, j, "REVERSAL") => ledger[g][j].of # i
              /\ Write(g, Entry(g, "REVERSAL", -ledger[g][i].amount, NoOp, i))
         \/ \E c \in Caller : Consume(c)
  <1>1. ASSUME NEW r \in Reverser, TakeBack(r)
        PROVE  \E g \in Grant : \E i \in 1..Committed(g) :
                 /\ Is(g, i, "CONSUME")
                 /\ \A j \in 1..Committed(g) : Is(g, j, "REVERSAL") => ledger[g][j].of # i
                 /\ Write(g, Entry(g, "REVERSAL", -ledger[g][i].amount, NoOp, i))
    BY <1>1, Reversal
  <1>2. ASSUME NEW x \in Sweeper, Expire(x)
        PROVE  \/ UNCHANGED ledger
               \/ \E g \in Grant : /\ Left(g, Committed(g)) > 0
                                   /\ Write(g, Entry(g, "EXPIRE", -Left(g, Committed(g)), NoOp, 0))
    BY <1>2 DEF Expire
  <1> QED
    BY <1>1, <1>2
    DEF Next, vars, Tick, Issue, Ask, Open, Again, Return, AskReversal, ReturnReversal,
        Sweeping, Begin, Stumble, Die

\* The entry of a step other than a consumption.
LEMMA OtherEntry ==
  ASSUME IInv, Keyed, NEW g \in Grant, NEW kind \in Kind, kind # "CONSUME",
         NEW amount \in Int, NEW of \in Nat, Write(g, Entry(g, kind, amount, NoOp, of))
  PROVE  /\ \A h \in Grant : Marked(ledger'[h])
         /\ \A h \in Grant : h # g => ledger'[h] = ledger[h]
         /\ Len(ledger'[g]) = Len(ledger[g]) + 1
         /\ \A o \in Op : SameCharges(o)
         /\ \A o \in Op :
              (kind = "REVERSAL" => \A i \in 1..Len(ledger[g]) : ledger[g][i].op = o => of # i)
                => PaidIn(ledger'[g], o) = PaidIn(ledger[g], o)
         /\ Spent(g, Committed(g))' =
              IF kind = "REVERSAL" THEN Spent(g, Committed(g)) - amount ELSE Spent(g, Committed(g))
         /\ \A i \in 1..Len(ledger[g]) : ledger'[g][i] = ledger[g][i]
         /\ ledger'[g][Len(ledger[g]) + 1].kind = kind
         /\ ledger'[g][Len(ledger[g]) + 1].of = of
  <1> DEFINE e == Entry(g, kind, amount, NoOp, of)
             s == ledger[g]
  <1>1. TypeOK /\ NoOp \in Ops /\ NoOp \notin Op /\ Len(s) \in Nat
    BY Ledger, AmountsSound DEF IInv, Ops, Committed
  <1>2. /\ e \in Entries /\ e.kind = kind /\ e.op = NoOp /\ e.of = of
        /\ e.spent = IF kind = "REVERSAL" THEN Spent(g, Committed(g)) - amount
                     ELSE Spent(g, Committed(g))
    BY <1>1, EntryTyped
  <1>3. s \in Seq(Entries)
    BY <1>1, Ledger
  <1>4. ledger' = [ledger EXCEPT ![g] = Append(s, e)] /\ ledger \in [Grant -> Seq(Entries)]
    BY <1>1 DEF Write, TypeOK
  <1> HIDE DEF e
  <1>5. ledger'[g] = Append(s, e) /\ \A h \in Grant : h # g => ledger'[h] = ledger[h]
    BY <1>4
  <1>6. /\ Len(ledger'[g]) = Len(s) + 1
        /\ ledger'[g][Len(s) + 1] = e
        /\ \A i \in 1..Len(s) : ledger'[g][i] = s[i]
        /\ Append(s, e) \in Seq(Entries)
    BY <1>2, <1>3, <1>5, Appended
  <1>7. \A h \in Grant : Marked(ledger'[h])
    <2>1. Marked(Append(s, e))
      BY <1>1, <1>2, <1>3, MarkedAppend DEF Keyed
    <2> QED
      BY <1>5, <2>1 DEF Keyed
  <1>8. ASSUME NEW o \in Op PROVE SameCharges(o)
    <2>1. e.op # o
      BY <1>1, <1>2
    <2>2. ledger' \in [Grant -> Seq(Entries)]
      BY <1>4, <1>6
    <2> QED
      BY <1>2, <1>5, <2>1, <2>2, OtherEntries
  <1>9. ASSUME NEW o \in Op,
               kind = "REVERSAL" => \A i \in 1..Len(s) : s[i].op = o => of # i
        PROVE  PaidIn(ledger'[g], o) = PaidIn(s, o)
    BY <1>1, <1>2, <1>3, <1>5, <1>9, PaidKept
  <1>10. Spent(g, Committed(g))' = e.spent
    BY <1>1, <1>6 DEF Spent, Committed
  <1> QED
    BY <1>2, <1>5, <1>6, <1>7, <1>8, <1>9, <1>10

\* What a consumption does to one account.
Portion(c, g) == IF g \in Sources(c) THEN Share(c, g) ELSE 0

LEMMA ConsumptionEntry ==
  ASSUME IInv, Keyed, NEW c \in Caller, Consume(c), NEW g \in Grant
  PROVE  /\ call[c].op \in Op
         /\ Portion(c, g) \in Nat
         /\ Portion(c, g) > 0 => ledger[g] # <<>> /\ Spent(g, Committed(g)) + Portion(c, g) <= Terms[g].size
         /\ Marked(ledger'[g])
         /\ ledger'[g] = <<>> <=> ledger[g] = <<>>
         /\ PaidIn(ledger'[g], call[c].op) = Portion(c, g)
         /\ \A o \in Op : o # call[c].op => PaidIn(ledger'[g], o) = PaidIn(ledger[g], o)
         /\ Spent(g, Committed(g))' = Spent(g, Committed(g)) + Portion(c, g)
  <1> DEFINE s == ledger[g]
             o == call[c].op
             e == Entry(g, "CONSUME", -Share(c, g), o, 0)
  <1>1. call[c].pc = "open" /\ o \in Op
    BY DEF Consume, Keyed, Asking
  <1>2. Share(c, g) \in Nat /\ Portion(c, g) \in Nat
    BY <1>1, ShareBounded DEF Portion
  <1>3. s \in Seq(Entries) /\ Marked(s) /\ Len(s) \in Nat /\ Spent(g, Committed(g)) \in Int
    <2>1. Committed(g) \in Nat /\ Committed(g) \in 0..Committed(g)
      BY Ledger DEF IInv
    <2> QED
      BY <2>1, Ledger DEF IInv, Keyed, Committed
  <1>4. \A i \in 1..Len(s) : s[i].op # o
    BY Uncharged DEF Charges, Committed
  <1>5. CASE g \notin Sources(c)
    <2>1. ledger'[g] = s /\ Portion(c, g) = 0
      BY <1>5, ConsumptionEntries DEF Portion
    <2>2. PaidIn(s, o) = 0
      BY <1>3, <1>4, PaidNothing
    <2>3. Spent(g, Committed(g))' = Spent(g, Committed(g))
      BY <2>1 DEF Spent, Committed
    <2> QED
      BY <1>1, <1>2, <1>3, <2>1, <2>2, <2>3
  <1>6. CASE g \in Sources(c)
    <2>1. Portion(c, g) = Share(c, g) /\ Share(c, g) \in Nat \ {0}
      BY <1>6, Consumption DEF Portion
    <2>2. /\ e \in Entries /\ e.op = o /\ e.amount = -Share(c, g)
          /\ ledger'[g] = Append(s, e)
      BY <1>6, ConsumptionEntries
    <2>3. /\ e.kind = "CONSUME"
          /\ e.spent = Spent(g, Committed(g)) - (-Share(c, g))
      <3>1. TypeOK /\ "CONSUME" \in Kind /\ -Share(c, g) \in Int /\ 0 \in Nat /\ o \in Ops
        BY <1>1, <1>2 DEF IInv, Kind, Ops
      <3> QED
        BY <3>1, EntryTyped
    <2> HIDE DEF e
    <2>4. /\ Append(s, e) \in Seq(Entries) /\ Len(Append(s, e)) = Len(s) + 1
          /\ Append(s, e)[Len(s) + 1] = e
          /\ \A i \in 1..Len(s) : Append(s, e)[i] = s[i]
      BY <1>3, <2>2, Appended
    <2>5. Marked(Append(s, e))
      BY <1>1, <1>3, <1>4, <2>2, <2>3, MarkedAppend
    <2>6. ~ReversedIn(Append(s, e), Len(s) + 1)
      <3>1. ASSUME NEW j \in 1..(Len(s) + 1), Append(s, e)[j].kind = "REVERSAL",
                   Append(s, e)[j].of = Len(s) + 1
            PROVE  FALSE
        <4>1. j # Len(s) + 1
          BY <2>3, <2>4, <3>1
        <4>2. j \in 1..Len(s) /\ s[j].kind = "REVERSAL" /\ s[j].of = Len(s) + 1
          BY <1>3, <2>4, <3>1, <4>1
        <4>3. s[j].of \in 1..(j - 1)
          BY <4>2 DEF IInv, Account, GivenBack
        <4> QED
          BY <1>3, <4>2, <4>3
      <3> QED
        BY <2>4, <3>1 DEF ReversedIn
    <2>7. PaidIn(Append(s, e), o) = Share(c, g)
      <3>1. Len(s) + 1 \in 1..Len(Append(s, e)) /\ Append(s, e)[Len(s) + 1].op = o
        BY <1>3, <2>2, <2>4
      <3>2. PaidIn(Append(s, e), o) = -(-Share(c, g))
        BY <1>1, <2>2, <2>4, <2>5, <2>6, <3>1, PaidOnce
      <3> QED
        BY <1>2, <3>2
    <2>8. \A p \in Op : p # o => PaidIn(Append(s, e), p) = PaidIn(s, p)
      <3>1. ASSUME NEW p \in Op, p # o PROVE PaidIn(Append(s, e), p) = PaidIn(s, p)
        BY <1>3, <2>2, <2>3, <3>1, PaidKept
      <3> QED
        BY <3>1
    <2>9. Spent(g, Committed(g))' = Spent(g, Committed(g)) + Share(c, g)
      <3>1. Spent(g, Committed(g))' = e.spent
        BY <1>3, <2>2, <2>4 DEF Spent, Committed
      <3> QED
        BY <1>2, <1>3, <2>3, <3>1
    <2>10. ledger[g] # <<>> /\ Spent(g, Committed(g)) + Share(c, g) <= Terms[g].size
      <3>1. /\ call[c].snap[g] \in 1..Committed(g)
            /\ Share(c, g) <= Left(g, call[c].snap[g])
            /\ NoneOf(ledger[g], call[c].snap[g], Committed(g), "CONSUME")
        BY <1>6, Consumption
      <3>2. Committed(g) = Len(s)
        BY DEF Committed
      <3>3. s # <<>>
        BY <1>3, <3>1, <3>2
      <3>4. Fits(g, e)
        <4>1. o \in Ops
          BY <1>1 DEF Ops
        <4> QED
          BY <2>1, <3>1, <4>1, ConsumptionFits DEF e
      <3>5. e.spent <= Terms[g].size
        BY <3>4 DEF Fits
      <3> QED
        BY <1>2, <1>3, <2>3, <3>3, <3>5
    <2>11. ledger'[g] # <<>>
      <3>1. Len(ledger'[g]) # 0
        BY <1>3, <2>2, <2>4
      <3> QED
        BY <3>1
    <2> QED
      BY <1>1, <1>2, <2>1, <2>2, <2>5, <2>7, <2>8, <2>9, <2>10, <2>11
  <1> QED
    BY <1>5, <1>6

LEMMA AskingStep == IInv /\ Asking /\ [Next]_vars => Asking'
  <1> SUFFICES ASSUME IInv, Asking, [Next]_vars, NEW c \in Caller, call'[c].pc # "idle"
               PROVE  call'[c].op \in Op
    BY DEF Asking
  <1>1. CASE call' = call
    BY <1>1 DEF Asking
  <1>2. ASSUME NEW d \in Caller, NEW o \in Op, Ask(d, o) PROVE call'[c].op \in Op
    <2> DEFINE k == [Idle EXCEPT !.pc = "asked", !.op = o, !.now = clock]
    <2>1. k.op = o
      BY IdleTyped DEF Calls
    <2> HIDE DEF k
    <2>2. call' = [call EXCEPT ![d] = k] /\ call \in [Caller -> Calls]
      BY <1>2, Standing DEF Ask, k
    <2>3. call'[c] = IF c = d THEN k ELSE call[c]
      BY <2>2
    <2> QED
      BY <2>1, <2>3 DEF Asking
  <1>3. ASSUME NEW d \in Caller, Open(d) \/ Again(d) PROVE call'[c].op \in Op
    <2>1. call \in [Caller -> Calls] /\ call[d].pc # "idle"
      BY <1>3, Standing DEF Open, Again
    <2>2. PICK k : k.op = call[d].op /\ call' = [call EXCEPT ![d] = k]
      <3>1. CASE Open(d)
        <4> DEFINE k == [call[d] EXCEPT !.pc = "open", !.snap = [g \in Grant |-> Committed(g)]]
        <4>1. k.op = call[d].op /\ call' = [call EXCEPT ![d] = k]
          BY <2>1, <3>1 DEF Open, Calls
        <4> QED
          BY <4>1
      <3>2. CASE Again(d)
        <4> DEFINE k == [call[d] EXCEPT !.pc = "asked", !.snap = Idle.snap,
                                        !.attempt = call[d].attempt + 1]
        <4>1. k.op = call[d].op /\ call' = [call EXCEPT ![d] = k]
          BY <2>1, <3>2 DEF Again, Calls
        <4> QED
          BY <4>1
      <3> QED
        BY <1>3, <3>1, <3>2
    <2>3. call'[c] = IF c = d THEN k ELSE call[c]
      BY <2>1, <2>2
    <2> QED
      BY <2>1, <2>2, <2>3 DEF Asking
  <1>4. ASSUME NEW d \in Caller, Consume(d) \/ Return(d) PROVE call'[c].op \in Op
    BY <1>4, Standing, IdleTyped DEF Consume, Return, Asking
  <1> QED
    BY <1>1, <1>2, <1>3, <1>4
    DEF Next, vars, Tick, Issue, AskReversal, TakeBack, ReturnReversal, Sweeping,
        Begin, Expire, Stumble, Die

\* What the amounts of the entries other than consumptions are.
LEMMA Amounts ==
  ASSUME IInv, NEW g \in Grant
  PROVE  /\ {"GRANT", "EXPIRE", "REVERSAL"} \subseteq Kind \ {"CONSUME"}
         /\ 0 \in Nat /\ Terms[g].size \in Int /\ -Left(g, Committed(g)) \in Int
         /\ Left(g, Committed(g)) > 0 => ledger[g] # <<>>
         /\ \A i \in 1..Committed(g) : i \in Nat /\ ledger[g][i] \in Entries
                                       /\ ledger[g][i].amount \in Int /\ -ledger[g][i].amount \in Int
  <1>1. TypeOK /\ Committed(g) \in Nat /\ Committed(g) \in 0..Committed(g)
    BY Ledger DEF IInv
  <1>2. Terms[g].size \in Int /\ Left(g, Committed(g)) \in Int
    BY <1>1, Ledger, Constants
  <1>3. \A i \in 1..Committed(g) : i \in Nat /\ ledger[g][i] \in Entries
    BY <1>1, Ledger
  <1>4. \A i \in 1..Committed(g) : ledger[g][i].amount \in Int
    BY <1>3 DEF Entries
  <1>5. Left(g, Committed(g)) > 0 => ledger[g] # <<>>
    BY DEF Left, Committed
  <1> QED
    BY <1>2, <1>3, <1>4, <1>5 DEF Kind

LEMMA KeyedStep == IInv /\ Keyed /\ [Next]_vars => Keyed'
  <1> SUFFICES ASSUME IInv, Keyed, [Next]_vars PROVE \A g \in Grant : Marked(ledger'[g])
    BY AskingStep DEF Keyed
  <1>1. CASE UNCHANGED ledger
    BY <1>1 DEF Keyed
  <1>2. ASSUME NEW g \in Grant, Write(g, Entry(g, "GRANT", Terms[g].size, NoOp, 0))
        PROVE  \A h \in Grant : Marked(ledger'[h])
    BY <1>2, Amounts, OtherEntry
  <1>3. ASSUME NEW g \in Grant, Write(g, Entry(g, "EXPIRE", -Left(g, Committed(g)), NoOp, 0))
        PROVE  \A h \in Grant : Marked(ledger'[h])
    BY <1>3, Amounts, OtherEntry
  <1>4. ASSUME NEW g \in Grant, NEW i \in 1..Committed(g),
               Write(g, Entry(g, "REVERSAL", -ledger[g][i].amount, NoOp, i))
        PROVE  \A h \in Grant : Marked(ledger'[h])
    BY <1>4, Amounts, OtherEntry
  <1>5. ASSUME NEW c \in Caller, Consume(c) PROVE \A h \in Grant : Marked(ledger'[h])
    BY <1>5, ConsumptionEntry
  <1> QED
    BY <1>1, <1>2, <1>3, <1>4, <1>5, LedgerStep

(***************************************************************************)
(* The ledger implements Wallet.                                           *)
(***************************************************************************)
LEMMA WalletSum == \A f : W!SumFunction(f) = SumFunction(f)
  BY DEF W!SumFunction, W!SumFunctionOnSet, W!FoldFunctionOnSet, W!MapThenFoldSet,
         SumFunction, SumFunctionOnSet, FoldFunctionOnSet, MapThenFoldSet

LEMMA PaidByIs ==
  \A o \in Op, g \in Grant : /\ PaidBy(o, g) = PaidIn(ledger[g], o)
                             /\ PaidBy(o, g)' = PaidIn(ledger'[g], o)
  <1> SUFFICES ASSUME NEW o \in Op, NEW g \in Grant
               PROVE  /\ PaidBy(o, g) = PaidIn(ledger[g], o)
                      /\ PaidBy(o, g)' = PaidIn(ledger'[g], o)
    OBVIOUS
  <1> DEFINE kept(s) == {i \in {i \in 1..Len(s) : s[i].op = o} :
                           ~ \E j \in 1..Len(s) : s[j].kind = "REVERSAL" /\ s[j].of = i}
  <1>1. \A s : kept(s) = KeptIn(s, o)
    BY DEF KeptIn, ReversedIn
  <1>2. /\ PaidBy(o, g) = -SumFunction([i \in kept(ledger[g]) |-> ledger[g][i].amount])
        /\ PaidBy(o, g)' = -SumFunction([i \in kept(ledger'[g]) |-> ledger'[g][i].amount])
    BY DEF PaidBy, Charges, Reversed, Committed, Is
  <1> HIDE DEF kept
  <1> QED
    BY <1>1, <1>2 DEF PaidIn

Made == {g \in Grant : ledger[g] # <<>>}
ChargedOps == {o \in Op : IsCharged(o)}
PaidOf == [o \in Op |-> [g \in Grant |-> PaidBy(o, g)]]
SpentOf == [g \in Grant |-> Spent(g, Committed(g))]

\* A step that is not a consumption changes what operations paid and what is
\* spent of a grant only where it reverses something.
LEMMA OtherStep ==
  ASSUME IInv, Keyed, NEW g \in Grant, NEW kind \in {"GRANT", "EXPIRE"},
         NEW amount \in Int, Write(g, Entry(g, kind, amount, NoOp, 0))
  PROVE  /\ Made' = Made \cup {g}
         /\ UNCHANGED <<ChargedOps, PaidOf, SpentOf>>
  <1>1. kind \in Kind /\ kind # "CONSUME" /\ kind # "REVERSAL" /\ 0 \in Nat
    BY DEF Kind
  <1>2. /\ \A h \in Grant : h # g => ledger'[h] = ledger[h]
        /\ Len(ledger'[g]) = Len(ledger[g]) + 1
        /\ \A o \in Op : SameCharges(o)
        /\ \A o \in Op : PaidIn(ledger'[g], o) = PaidIn(ledger[g], o)
        /\ Spent(g, Committed(g))' = Spent(g, Committed(g))
    BY <1>1, OtherEntry
  <1>3. Made' = Made \cup {g}
    <2>1. Len(ledger[g]) \in Nat
      BY Ledger DEF IInv, Committed
    <2>2. ledger'[g] # <<>>
      <3>1. Len(ledger'[g]) # 0
        BY <1>2, <2>1
      <3> QED
        BY <3>1
    <2> QED
      BY <1>2, <2>2 DEF Made
  <1>4. ChargedOps' = ChargedOps
    BY <1>2 DEF ChargedOps, IsCharged, SameCharges
  <1>5. \A o \in Op, h \in Grant : PaidBy(o, h)' = PaidBy(o, h)
    BY <1>2, PaidByIs
  <1>6. \A h \in Grant : Spent(h, Committed(h))' = Spent(h, Committed(h))
    BY <1>2 DEF Spent, Committed
  <1> QED
    BY <1>3, <1>4, <1>5, <1>6 DEF PaidOf, SpentOf

LEMMA ReversalGivesBack ==
  ASSUME IInv, Keyed, NEW g \in Grant, NEW i \in 1..Committed(g), Is(g, i, "CONSUME"),
         \A j \in 1..Committed(g) : Is(g, j, "REVERSAL") => ledger[g][j].of # i,
         Write(g, Entry(g, "REVERSAL", -ledger[g][i].amount, NoOp, i))
  PROVE  /\ ledger[g][i].op \in Op
         /\ PaidOf[ledger[g][i].op][g] > 0
         /\ PaidOf' = [PaidOf EXCEPT ![ledger[g][i].op][g] = 0]
         /\ SpentOf' = [SpentOf EXCEPT ![g] = SpentOf[g] - PaidOf[ledger[g][i].op][g]]
         /\ UNCHANGED <<Made, ChargedOps>>
  <1> DEFINE s == ledger[g]
             t == ledger'[g]
             amount == s[i].amount
  <1>1. PICK o \in Op : o = s[i].op
    BY DEF Keyed, Marked, Is, Committed
  <1>2. /\ amount \in Int /\ -amount \in Int /\ i \in Nat /\ i \in 1..Len(s)
        /\ amount < 0 /\ Len(s) \in Nat /\ s \in Seq(Entries) /\ Marked(s)
    BY Amounts, Ledger DEF IInv, Account, Balanced, Committed, Is, Keyed
  <1>3. /\ \A h \in Grant : Marked(ledger'[h])
        /\ \A h \in Grant : h # g => ledger'[h] = ledger[h]
        /\ Len(t) = Len(s) + 1
        /\ \A p \in Op : SameCharges(p)
        /\ \A p \in Op : (\A k \in 1..Len(s) : s[k].op = p => i # k) => PaidIn(t, p) = PaidIn(s, p)
        /\ Spent(g, Committed(g))' = Spent(g, Committed(g)) - (-amount)
        /\ \A k \in 1..Len(s) : t[k] = s[k]
        /\ t[Len(s) + 1].kind = "REVERSAL" /\ t[Len(s) + 1].of = i
    <2>1. "REVERSAL" \in Kind /\ "REVERSAL" # "CONSUME"
      BY DEF Kind
    <2> DEFINE give == -amount
    <2>2. give \in Int /\ Write(g, Entry(g, "REVERSAL", give, NoOp, i))
      BY <1>2
    <2> HIDE DEF give
    <2>3. /\ \A h \in Grant : Marked(ledger'[h])
          /\ \A h \in Grant : h # g => ledger'[h] = ledger[h]
          /\ Len(t) = Len(s) + 1
          /\ \A p \in Op : SameCharges(p)
          /\ \A p \in Op : (\A k \in 1..Len(s) : s[k].op = p => i # k)
                             => PaidIn(t, p) = PaidIn(s, p)
          /\ Spent(g, Committed(g))' = Spent(g, Committed(g)) - give
          /\ \A k \in 1..Len(s) : t[k] = s[k]
          /\ t[Len(s) + 1].kind = "REVERSAL" /\ t[Len(s) + 1].of = i
      BY <1>2, <2>1, <2>2, OtherEntry
    <2> QED
      BY <2>3 DEF give
  <1>4. PaidIn(s, o) = -amount
    <2>1. ~ReversedIn(s, i)
      BY DEF ReversedIn, Is, Committed
    <2> QED
      BY <1>1, <1>2, <2>1, PaidOnce
  <1>5. PaidIn(t, o) = 0
    <2>1. ReversedIn(t, i) /\ i \in 1..Len(t) /\ t[i].op = o
      <3>1. Len(s) + 1 \in 1..Len(t)
        BY <1>2, <1>3
      <3> QED
        BY <1>1, <1>2, <1>3, <3>1 DEF ReversedIn
    <2>2. t \in Seq(Entries)
      <3>1. Grows
        BY ReversalFits, Writes
      <3> QED
        BY <3>1 DEF Grows
    <2> HIDE DEF t
    <2>3. Marked(t)
      BY <1>3 DEF t
    <2> QED
      BY <2>1, <2>2, <2>3, PaidOnce
  <1>6. \A p \in Op : p # o => PaidIn(t, p) = PaidIn(s, p)
    BY <1>1, <1>3
  <1> HIDE DEF s, t, amount
  <1>7. \A p \in Op, h \in Grant : PaidOf[p][h] = PaidIn(ledger[h], p)
    BY PaidByIs DEF PaidOf
  <1>8. PaidOf[o][g] = -amount
    BY <1>4, <1>7 DEF s
  <1>9. PaidOf' = [PaidOf EXCEPT ![o][g] = 0]
    <2>1. \A p \in Op, h \in Grant : PaidBy(p, h)' = IF p = o /\ h = g THEN 0 ELSE PaidBy(p, h)
      BY <1>3, <1>5, <1>6, PaidByIs DEF s, t
    <2>2. PaidOf' = [p \in Op |-> [h \in Grant |-> PaidBy(p, h)']]
      BY DEF PaidOf
    <2>3. PaidOf' = [p \in Op |-> [h \in Grant |-> IF p = o /\ h = g THEN 0 ELSE PaidBy(p, h)]]
      BY <2>1, <2>2
    <2> QED
      BY <2>3 DEF PaidOf
  <1>10. SpentOf' = [SpentOf EXCEPT ![g] = SpentOf[g] - PaidOf[o][g]]
    <2>1. \A h \in Grant : h # g => Spent(h, Committed(h))' = Spent(h, Committed(h))
      BY <1>3 DEF Spent, Committed
    <2> QED
      BY <1>3, <1>8, <2>1 DEF SpentOf
  <1>11. Made' = Made
    <2>1. s # <<>> /\ t # <<>>
      <3>1. Len(s) # 0 /\ Len(t) # 0
        BY <1>2, <1>3
      <3> QED
        BY <3>1
    <2> QED
      BY <1>3, <2>1 DEF Made, s, t
  <1>12. ChargedOps' = ChargedOps
    BY <1>3 DEF ChargedOps, IsCharged, SameCharges
  <1> QED
    BY <1>1, <1>2, <1>8, <1>9, <1>10, <1>11, <1>12 DEF s

LEMMA ConsumptionPays ==
  ASSUME IInv, Keyed, NEW c \in Caller, Consume(c)
  PROVE  W!Charge(call[c].op)
  <1> DEFINE share == [g \in Grant |-> Portion(c, g)]
             A == Available(c)
  <1>1. PICK o \in Op : o = call[c].op
    BY DEF Consume, Keyed, Asking
  <1>2. call[c].pc = "open" /\ Sufficient(c) /\ Amount[o] \in Nat \ {0}
    BY Constants DEF Consume
  <1>3. A \in SUBSET Grant /\ IsFiniteSet(A) /\ IsFiniteSet(Grant)
    BY FiniteGrants DEF Available
  <1>4. \A g \in Grant : share[g] = Portion(c, g) /\ share[g] \in Nat
    BY ConsumptionEntry
  <1>5. /\ \A g \in A : share[g] = ShareOf(c)[g] /\ ShareOf(c)[g] \in Int
        /\ \A g \in Grant \ A : share[g] = 0
    <2>1. \A g \in Grant : ShareOf(c)[g] \in Nat /\ ShareOf(c)[g] = Share(c, g)
      BY <1>2, OffersAndShares
    <2>2. \A g \in Grant : g \in Sources(c) <=> g \in A /\ Share(c, g) > 0
      BY DEF Sources, Available
    <2> HIDE DEF share, A
    <2>3. ASSUME NEW g \in Grant PROVE (g \in A => share[g] = Share(c, g)) /\ (g \notin A => share[g] = 0)
      BY <1>4, <2>1, <2>2 DEF Portion
    <2> QED
      BY <1>3, <2>1, <2>3
  <1>6. SumFunctionOnSet(share, Grant) = Amount[o]
    <2>1. SumFunctionOnSet(ShareOf(c), A) = Amount[o]
      BY <1>1, <1>2, SharesAddUp
    <2> HIDE DEF share, A
    <2>2. SumFunctionOnSet(share, Grant) = SumFunctionOnSet(ShareOf(c), A)
      BY <1>3, <1>5, SumSupport
    <2> QED
      BY <2>1, <2>2
  <1>7. share \in [Grant -> 0..Amount[o]] /\ SumFunction(share) = Amount[o]
    <2>1. DOMAIN share = Grant
      OBVIOUS
    <2> HIDE DEF share
    <2>2. \A g \in Grant : share[g] <= SumFunctionOnSet(share, Grant)
      BY <1>3, <1>4, SumOfNaturals
    <2>3. \A g \in Grant : share[g] \in 0..Amount[o]
      BY <1>2, <1>4, <1>6, <2>2
    <2>4. share \in [Grant -> 0..Amount[o]]
      BY <2>3 DEF share
    <2> QED
      BY <1>6, <2>1, <2>4 DEF SumFunction
  <1>8. PICK g \in Grant : share[g] # 0
    <2>1. SUFFICES ASSUME \A g \in Grant : share[g] = 0 PROVE FALSE
      OBVIOUS
    <2> HIDE DEF share
    <2>2. {} \in SUBSET Grant /\ \A g \in Grant \ {} : share[g] = 0
      BY <2>1
    <2>3. SumFunctionOnSet(share, Grant) = SumFunctionOnSet(share, {})
      BY <1>3, <2>2, SumSupport
    <2> QED
      BY <1>2, <1>6, <2>3, SumEmpty
  <1>9. IsCharged(o)'
    <2>1. g \in Sources(c)
      BY <1>8 DEF Portion
    <2> DEFINE e == Entry(g, "CONSUME", -Share(c, g), call[c].op, 0)
    <2>2. e \in Entries /\ e.op = o /\ ledger'[g] = Append(ledger[g], e)
      BY <1>1, <2>1, ConsumptionEntries
    <2>3. ledger[g] \in Seq(Entries)
      BY Ledger DEF IInv
    <2> HIDE DEF e
    <2>4. Len(ledger[g]) + 1 \in 1..Len(ledger'[g]) /\ ledger'[g][Len(ledger[g]) + 1].op = o
      BY <2>2, <2>3, Appended
    <2> QED
      BY <2>4 DEF IsCharged, Charges, Committed
  <1>10. ~IsCharged(o)
    BY <1>1, Uncharged DEF IsCharged
  <1>11. ChargedOps' = ChargedOps \cup {o}
    <2>1. ASSUME NEW p \in Op, p # o PROVE IsCharged(p)' <=> IsCharged(p)
      BY <1>1, <2>1, ConsumptionSpares DEF IsCharged, SameCharges
    <2> QED
      BY <1>9, <2>1 DEF ChargedOps
  <1>12. PaidOf' = [PaidOf EXCEPT ![o] = share]
    <2>1. ASSUME NEW p \in Op, NEW h \in Grant
          PROVE  PaidBy(p, h)' = IF p = o THEN share[h] ELSE PaidBy(p, h)
      BY <1>1, <1>4, ConsumptionEntry, PaidByIs
    <2>2. PaidOf' = [p \in Op |-> [h \in Grant |-> PaidBy(p, h)']]
      BY DEF PaidOf
    <2>3. share = [h \in Grant |-> share[h]]
      OBVIOUS
    <2> HIDE DEF share
    <2>4. PaidOf' = [p \in Op |-> IF p = o THEN share ELSE [h \in Grant |-> PaidBy(p, h)]]
      BY <2>1, <2>2, <2>3
    <2> QED
      BY <2>4 DEF PaidOf
  <1>13. SpentOf' = [h \in Grant |-> SpentOf[h] + share[h]]
    <2>1. \A h \in Grant : Spent(h, Committed(h))' = Spent(h, Committed(h)) + share[h]
      BY <1>4, ConsumptionEntry
    <2> HIDE DEF share
    <2> QED
      BY <2>1 DEF SpentOf
  <1>14. Made' = Made
    BY ConsumptionEntry DEF Made
  <1>15. \A h \in Grant : share[h] > 0 => h \in Made /\ SpentOf[h] + share[h] <= Terms[h].size
    BY <1>4, ConsumptionEntry DEF Made, SpentOf
  <1> HIDE DEF share
  <1>16. W!Charge(o)
    <2>1. /\ o \notin ChargedOps
          /\ W!SumFunction(share) = Amount[o]
          /\ \A h \in Grant : [u \in Grant |-> Terms[u].size][h] = Terms[h].size
      BY <1>7, <1>10, WalletSum DEF ChargedOps
    <2> QED
      BY <1>7, <1>11, <1>12, <1>13, <1>14, <1>15, <2>1
      DEF W!Charge, ChargedOps, IsCharged, PaidOf, SpentOf, Made
  <1> QED
    BY <1>1, <1>16

LEMMA WalletStep ==
  ASSUME IInv, Keyed, [Next]_vars
  PROVE  [W!Next]_<<Made, ChargedOps, PaidOf, SpentOf>>
  <1>1. CASE UNCHANGED ledger
    BY <1>1 DEF Made, ChargedOps, IsCharged, PaidOf, SpentOf, PaidBy, Charges, Reversed, Is, Committed,
                Spent
  <1>2. ASSUME NEW g \in Grant, ledger[g] = <<>>, Write(g, Entry(g, "GRANT", Terms[g].size, NoOp, 0))
        PROVE  W!Next
    <2>1. Made' = Made \cup {g} /\ UNCHANGED <<ChargedOps, PaidOf, SpentOf>>
      BY <1>2, Amounts, OtherStep
    <2>2. g \notin Made
      BY <1>2 DEF Made
    <2> QED
      BY <2>1, <2>2 DEF W!Next, W!Make, Made, ChargedOps, IsCharged, PaidOf, SpentOf
  <1>3. ASSUME NEW g \in Grant, Left(g, Committed(g)) > 0,
               Write(g, Entry(g, "EXPIRE", -Left(g, Committed(g)), NoOp, 0))
        PROVE  UNCHANGED <<Made, ChargedOps, PaidOf, SpentOf>>
    <2>1. Made' = Made \cup {g} /\ UNCHANGED <<ChargedOps, PaidOf, SpentOf>>
      BY <1>3, Amounts, OtherStep
    <2>2. g \in Made
      BY <1>3, Amounts DEF Made
    <2> QED
      BY <2>1, <2>2
  <1>4. ASSUME NEW g \in Grant, NEW i \in 1..Committed(g), Is(g, i, "CONSUME"),
               \A j \in 1..Committed(g) : Is(g, j, "REVERSAL") => ledger[g][j].of # i,
               Write(g, Entry(g, "REVERSAL", -ledger[g][i].amount, NoOp, i))
        PROVE  W!Next
    BY <1>4, ReversalGivesBack
    DEF W!Next, W!GiveBack, Made, ChargedOps, IsCharged, PaidOf, SpentOf
  <1>5. ASSUME NEW c \in Caller, Consume(c) PROVE W!Next
    <2>1. call[c].op \in Op
      BY <1>5 DEF Consume, Keyed, Asking
    <2> QED
      BY <1>5, <2>1, ConsumptionPays DEF W!Next
  <1> QED
    BY <1>1, <1>2, <1>3, <1>4, <1>5, LedgerStep

\* The ledger implements Wallet: whatever snapshots requests decide on, each
\* operation pays once, in full and out of what the grants have, and what it
\* paid from a grant comes back once at most.
THEOREM ImplementsWallet == Spec => WalletSpec
  <1>1. Init => Keyed
    BY IdleTyped DEF Init, Keyed, Asking, Marked
  <1>2. Init => W!Init
    <2> SUFFICES ASSUME Init PROVE W!Init
      OBVIOUS
    <2>1. \A g \in Grant : ledger[g] = <<>> /\ Committed(g) = 0
      BY DEF Init, Committed
    <2>2. Made = {} /\ ChargedOps = {}
      BY <2>1 DEF Made, ChargedOps, IsCharged, Charges
    <2>3. \A o \in Op, g \in Grant : PaidBy(o, g) = 0
      <3>1. <<>> \in Seq(Entries) /\ Len(<<>>) = 0
        OBVIOUS
      <3>2. ASSUME NEW o \in Op PROVE PaidIn(<<>>, o) = 0
        <4>1. \A i \in 1..Len(<<>>) : <<>>[i].op # o
          BY <3>1
        <4> QED
          BY <3>1, <4>1, PaidNothing
      <3> QED
        BY <2>1, <3>2, PaidByIs
    <2>4. \A g \in Grant : Spent(g, Committed(g)) = 0
      BY <2>1 DEF Spent
    <2> QED
      BY <2>2, <2>3, <2>4 DEF W!Init, Made, ChargedOps, IsCharged
  <1>3. IInv /\ Keyed /\ [Next]_vars => [W!Next]_<<Made, ChargedOps, PaidOf, SpentOf>>
    BY WalletStep
  <1> QED
    BY <1>1, <1>2, <1>3, KeyedStep, Safe, PTL
    DEF Spec, WalletSpec, W!Spec, Made, ChargedOps, IsCharged, PaidOf, SpentOf
=============================================================================
