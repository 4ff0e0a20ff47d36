--------------------------- MODULE UserModeProofs ---------------------------
(***************************************************************************)
(* Proofs about UserMode, for any width of a byte, place of the task       *)
(* segment, size of the stack and number of programs: the descriptors read *)
(* back as asked, the segments and the stack go together, a program costs  *)
(* one frame, and the screen names the exception.                          *)
(***************************************************************************)
EXTENDS UserMode, SequenceTheorems, TLAPS

(***************************************************************************)
(* Digits.                                                                 *)
(***************************************************************************)
\* Quotient and remainder, and that there are no others.
LEMMA DivMod ==
  ASSUME NEW a \in Nat, NEW b \in Nat \ {0}
  PROVE  a \div b \in Nat /\ a % b \in 0 .. b - 1 /\ a = (b * (a \div b)) + (a % b)
  OBVIOUS

LEMMA QuotientIs ==
  ASSUME NEW b \in Nat \ {0}, NEW q \in Nat, NEW r \in 0 .. b - 1
  PROVE  (r + b * q) \div b = q /\ (r + b * q) % b = r
<1> DEFINE a == r + b * q
<1>1. a \in Nat
  OBVIOUS
<1>2. a \div b \in Nat /\ a % b \in 0 .. b - 1 /\ a = (b * (a \div b)) + (a % b)
  BY <1>1, DivMod
<1> HIDE DEF a
<1>3. ASSUME NEW p \in Nat, NEW s \in 0 .. b - 1, r + b * q = b * p + s PROVE p = q /\ s = r
  <2>1. b * (p - q) = r - s
    BY <1>3
  <2>2. p - q < 1 /\ q - p < 1
    BY <2>1, <1>3
  <2> QED
    BY <1>3, <2>2
<1> QED
  BY <1>2, <1>3 DEF a

\* Dividing by a product is dividing twice.
LEMMA DivDiv ==
  ASSUME NEW a \in Nat, NEW b \in Nat \ {0}, NEW c \in Nat \ {0}
  PROVE  a \div (b * c) = (a \div b) \div c
<1> DEFINE q == a \div b
           p == q \div c
<1>1. q \in Nat /\ a % b \in 0 .. b - 1 /\ a = b * q + (a % b)
  BY DivMod
<1>2. p \in Nat /\ q % c \in 0 .. c - 1 /\ q = c * p + (q % c)
  BY <1>1, DivMod
<1> HIDE DEF p, q
<1> DEFINE r == b * (q % c) + (a % b)
<1>3. b * c \in Nat \ {0}
  OBVIOUS
<1>4. r \in 0 .. (b * c) - 1
  <2>1. q % c \in Nat /\ a % b \in Nat /\ (q % c) + 1 <= c
    BY <1>1, <1>2
  <2>2. b * (q % c) \in Nat /\ b * ((q % c) + 1) <= b * c
    BY <2>1
  <2>3. b * ((q % c) + 1) = b * (q % c) + b
    BY <2>1
  <2> QED
    BY <1>1, <1>3, <2>1, <2>2, <2>3
<1>5. a = r + (b * c) * p
  <2>1. b * q = b * (c * p) + b * (q % c)
    BY <1>2
  <2> QED
    BY <1>1, <1>2, <2>1
<1>6. (r + (b * c) * p) \div (b * c) = p
  BY <1>2, <1>3, <1>4, QuotientIs
<1> QED
  BY <1>5, <1>6 DEF p, q

\* A quotient is small when what is divided is.
LEMMA QuotientFits ==
  ASSUME NEW a \in Nat, NEW b \in Nat \ {0}, NEW c \in Nat \ {0}, a < b * c
  PROVE  a \div b < c /\ a \div b \in 0 .. c - 1
<1>1. a \div b \in Nat /\ b * (a \div b) <= a
  BY DivMod
<1>2. ASSUME a \div b >= c PROVE FALSE
  <2>1. b * (a \div b) >= b * c
    BY <1>1, <1>2
  <2> QED
    BY <1>1, <2>1
<1> QED
  BY <1>1, <1>2

\* The two lowest digits of base b, and what is left.
LEMMA LowDigits ==
  ASSUME NEW b \in Nat \ {0}, NEW a \in Nat
  PROVE  /\ a \div (b * b) = (a \div b) \div b
         /\ a \div (b * b) \in Nat /\ a \div b \in Nat
         /\ a % b \in 0 .. b - 1 /\ (a \div b) % b \in 0 .. b - 1
         /\ a = (a % b) + b * (a \div b)
         /\ a \div b = ((a \div b) % b) + b * (a \div (b * b))
<1>1. a \div b \in Nat /\ a % b \in 0 .. b - 1 /\ a = (b * (a \div b)) + (a % b)
  BY DivMod
<1>2. a \div (b * b) = (a \div b) \div b
  BY DivDiv
<1>3. ASSUME NEW x \in Nat
      PROVE  x \div b \in Nat /\ x % b \in 0 .. b - 1 /\ x = (b * (x \div b)) + (x % b)
  BY DivMod
<1> HIDE DivMod
<1>4. /\ (a \div b) \div b \in Nat /\ (a \div b) % b \in 0 .. b - 1
      /\ a \div b = (b * ((a \div b) \div b)) + ((a \div b) % b)
  BY <1>1, <1>3
<1>5. /\ (a \div b) % b \in Nat /\ a % b \in Nat /\ b * (a \div b) \in Nat
      /\ b * (a \div (b * b)) \in Nat
  BY <1>1, <1>2, <1>4
<1> QED
  BY <1>1, <1>2, <1>4, <1>5

\* Two digits and a rest are the number.
LEMMA ThreeDigits ==
  ASSUME NEW b \in Nat \ {0}, NEW h \in Nat \ {0}, NEW a \in Nat, a < b * b * h
  PROVE  /\ a \div (b * b) \in 0 .. h - 1
         /\ a = (a % b) + b * (((a \div b) % b) + b * (a \div (b * b)))
<1>1. a \div (b * b) \in 0 .. h - 1
  <2>1. b * b \in Nat \ {0}
    OBVIOUS
  <2> QED
    BY <2>1, QuotientFits
<1>2. /\ a = (a % b) + b * (a \div b)
      /\ a \div b = ((a \div b) % b) + b * (a \div (b * b))
  BY LowDigits
<1> QED
  BY <1>1, <1>2

\* Four digits of base b, the lowest first, are the number.
LEMMA FourDigits ==
  ASSUME NEW b \in Nat \ {0}, NEW a \in Nat, a < b * b * b * b
  PROVE  a = (a % b) + b * (((a \div b) % b) + b * (((a \div (b * b)) % b)
                + b * ((a \div (b * b * b)) % b)))
<1> DEFINE y == a \div (b * b)
           z == a \div (b * b * b)
<1>1. /\ a = (a % b) + b * (a \div b) /\ y \in Nat
      /\ a \div b = ((a \div b) % b) + b * y
  BY LowDigits
<1>2. b * b \in Nat \ {0} /\ (b * b) * b \in Nat \ {0}
  OBVIOUS
<1>3. z = y \div b
  BY <1>2, DivDiv
<1>4. z \in 0 .. b - 1
  BY <1>2, QuotientFits
<1>5. z % b = z
  <2> HIDE DEF z
  <2> QED
    BY <1>4
<1>6. y = (y % b) + b * z
  <2>1. ASSUME NEW x \in Nat PROVE x = (x % b) + b * (x \div b)
    BY LowDigits
  <2> HIDE DEF y, z
  <2> QED
    BY <1>1, <1>3, <2>1
<1> HIDE DEF y, z
<1>7. a = (a % b) + b * (((a \div b) % b) + b * ((y % b) + b * (z % b)))
  BY <1>1, <1>5, <1>6
<1> QED
  BY <1>7 DEF y, z

(***************************************************************************)
(* The descriptors.                                                        *)
(***************************************************************************)
\* What the assumptions say of the numbers.
LEMMA Widths ==
  /\ Half \in Nat /\ Half >= 4 /\ Byte \in Nat \ {0} /\ Byte = Half * Half /\ Byte >= 16
  /\ Flat \in 1 .. Half - 1 /\ TssSize \in Nat /\ TssSize >= 1 /\ TssSize <= G!MaxLimit
  /\ TssPlaces \subseteq 0 .. Byte * Byte * Byte * Byte - 1
  /\ G!MaxLimit \in Nat /\ G!MaxLimit + 1 = Byte * Byte * Half
  /\ MaxNested = 2
<1>1. Half \in Nat /\ Half >= 4 /\ Byte = Half * Half
  BY UserModeAssumption DEF G!GdtAssumption
<1>2. Byte \in Nat \ {0} /\ Byte >= 16
  BY <1>1
<1>3. G!MaxLimit \in Nat /\ G!MaxLimit + 1 = Byte * Byte * Half
  <2>1. Byte * Byte * Half \in Nat /\ Byte * Byte * Half >= 1
    BY <1>1, <1>2
  <2> QED
    BY <2>1 DEF G!MaxLimit
<1> QED
  BY <1>1, <1>2, <1>3, UserModeAssumption DEF G!GdtAssumption

\* Descriptors as createGdt asks for them: what fits into the bytes.
Sound(e) ==
    /\ e.base \in Nat /\ e.base < Byte * Byte * Byte * Byte
    /\ e.limit \in Nat /\ e.limit <= G!MaxLimit
    /\ e.access \in 0 .. Byte - 1 /\ e.flags \in 0 .. Half - 1
    /\ e = [base |-> e.base, limit |-> e.limit, access |-> e.access, flags |-> e.flags]

\* A kind and a privilege fit into the access byte and can be told apart.
LEMMA AccessHolds ==
  ASSUME NEW kind \in 0 .. 3, NEW dpl \in 0 .. 3
  PROVE  /\ G!Access(kind, dpl) \in 0 .. Byte - 1
         /\ G!Access(kind, dpl) \div Half = dpl
<1>1. kind \in 0 .. Half - 1 /\ Half \in Nat \ {0} /\ dpl \in Nat
  BY Widths
<1>2. (kind + Half * dpl) \div Half = dpl
  BY <1>1, QuotientIs
<1>3. Half * dpl \in Nat /\ Half * dpl <= Half * (Half - 1) /\ Half * (Half - 1) = Half * Half - Half
  BY Widths
<1> QED
  BY <1>1, <1>2, <1>3, Widths DEF G!Access

\* The limit's highest digit and the flags share a byte.
LEMMA SharedByte ==
  ASSUME NEW x \in 0 .. Half - 1, NEW f \in 0 .. Half - 1
  PROVE  /\ (x % Half) + Half * f \in 0 .. Byte - 1
         /\ ((x % Half) + Half * f) % Half = x
         /\ ((x % Half) + Half * f) \div Half = f
<1>1. Half \in Nat \ {0} /\ x \in Nat /\ f \in Nat
  BY Widths
<1>2. x % Half = x
  BY <1>1
<1>3. (x + Half * f) \div Half = f /\ (x + Half * f) % Half = x
  BY <1>1, QuotientIs
<1>4. Half * f \in Nat /\ Half * f <= Half * (Half - 1) /\ Half * (Half - 1) = Half * Half - Half
  BY Widths
<1> QED
  BY <1>1, <1>2, <1>3, <1>4, Widths

\* What createGdt asks for fits.
LEMMA EntriesSound ==
  ASSUME tss \in TssPlaces, NEW k \in 1 .. 6
  PROVE  DOMAIN G!Entries = 1 .. 6 /\ Sound(G!Entries[k])
<1>1. tss \in Nat /\ tss < Byte * Byte * Byte * Byte
  <2>1. Byte * Byte * Byte * Byte \in Nat
    BY Widths
  <2> QED
    BY <2>1, Widths
<1>2. /\ 0 < Byte * Byte * Byte * Byte /\ TssSize - 1 \in Nat /\ TssSize - 1 <= G!MaxLimit
      /\ Flat \in 0 .. Half - 1 /\ 0 \in 0 .. Half - 1 /\ G!MaxLimit \in Nat
  BY Widths
<1>3. \A kind \in 0 .. 3, dpl \in 0 .. 3 : G!Access(kind, dpl) \in 0 .. Byte - 1
  BY AccessHolds
<1>4. /\ G!Access(0, 0) \in 0 .. Byte - 1 /\ G!Access(1, 0) \in 0 .. Byte - 1
      /\ G!Access(2, 0) \in 0 .. Byte - 1 /\ G!Access(1, 3) \in 0 .. Byte - 1
      /\ G!Access(2, 3) \in 0 .. Byte - 1 /\ G!Access(3, 0) \in 0 .. Byte - 1
  BY <1>3
<1>5. k \in {1, 2, 3, 4, 5, 6}
  OBVIOUS
<1> QED
  BY <1>1, <1>2, <1>4, <1>5
     DEF G!Entries, G!Segment, G!None, G!Code, G!Data, G!Task, Sound

\* What is encoded at a place reads back from it, and from there only.
LEMMA EncodedReads ==
  ASSUME NEW k \in 0 .. 5, NEW e, Sound(e), memory \in [G!Bytes -> 0 .. Byte - 1],
         memory' = G!encodeGdtEntry(8 * k, e)
  PROVE  /\ memory' \in [G!Bytes -> 0 .. Byte - 1]
         /\ G!Described(8 * k)' = e
         /\ \A j \in 0 .. 5 : j # k => G!Described(8 * j)' = G!Described(8 * j)
<1> DEFINE a == 8 * k
<1>1. /\ a \in 0 .. 40 /\ a \in Nat
      /\ memory' = [i \in G!Bytes |-> IF i \in a .. a + 7 THEN G!Encoded(e)[i - a + 1]
                                      ELSE memory[i]]
  BY Widths DEF G!encodeGdtEntry, Sound
<1>2. \A j \in 0 .. 5 : G!At(8 * j) = 8 * j
  BY DEF G!At
<1>3. /\ memory'[a] = e.limit % Byte
      /\ memory'[a + 1] = (e.limit \div Byte) % Byte
      /\ memory'[a + 2] = e.base % Byte
      /\ memory'[a + 3] = (e.base \div Byte) % Byte
      /\ memory'[a + 4] = (e.base \div (Byte * Byte)) % Byte
      /\ memory'[a + 5] = e.access
      /\ memory'[a + 6] = G!LimitAndFlags(e.limit, e.flags)
      /\ memory'[a + 7] = (e.base \div (Byte * Byte * Byte)) % Byte
  <2> DEFINE c == G!Encoded(e)
  <2>1. /\ c[1] = e.limit % Byte
        /\ c[2] = (e.limit \div Byte) % Byte
        /\ c[3] = e.base % Byte
        /\ c[4] = (e.base \div Byte) % Byte
        /\ c[5] = (e.base \div (Byte * Byte)) % Byte
        /\ c[6] = e.access
        /\ c[7] = G!LimitAndFlags(e.limit, e.flags)
        /\ c[8] = (e.base \div (Byte * Byte * Byte)) % Byte
    BY DEF G!Encoded, G!BaseBytes
  <2> HIDE DEF c
  <2>2. \A n \in 0 .. 7 : memory'[a + n] = c[n + 1]
    <3> TAKE n \in 0 .. 7
    <3>1. a + n \in G!Bytes /\ a + n \in a .. a + 7 /\ (a + n) - a + 1 = n + 1
      BY <1>1 DEF G!Bytes
    <3> HIDE DEF a
    <3> QED
      BY <1>1, <3>1 DEF c
  <2> HIDE DEF a
  <2> QED
    BY <1>1, <2>1, <2>2
<1>4. /\ e.base \in Nat /\ e.base < Byte * Byte * Byte * Byte
      /\ e.limit \in Nat /\ e.limit < Byte * Byte * Half
      /\ e.access \in 0 .. Byte - 1 /\ e.flags \in 0 .. Half - 1
      /\ e = [base |-> e.base, limit |-> e.limit, access |-> e.access, flags |-> e.flags]
      /\ Byte \in Nat \ {0} /\ Half \in Nat \ {0}
  BY Widths DEF Sound
<1>5. /\ e.limit \div (Byte * Byte) \in 0 .. Half - 1
      /\ e.limit = (e.limit % Byte) + Byte * (((e.limit \div Byte) % Byte)
                     + Byte * (e.limit \div (Byte * Byte)))
  BY <1>4, ThreeDigits
<1>6. /\ G!LimitAndFlags(e.limit, e.flags) \in 0 .. Byte - 1
      /\ G!LimitAndFlags(e.limit, e.flags) % Half = e.limit \div (Byte * Byte)
      /\ G!LimitAndFlags(e.limit, e.flags) \div Half = e.flags
  BY <1>4, <1>5, SharedByte DEF G!LimitAndFlags
<1>7. e.base = (e.base % Byte) + Byte * (((e.base \div Byte) % Byte)
                 + Byte * (((e.base \div (Byte * Byte)) % Byte)
                 + Byte * ((e.base \div (Byte * Byte * Byte)) % Byte)))
  BY <1>4, FourDigits
<1>8. G!Described(8 * k)' = e
  <2> HIDE DEF a
  <2>1. G!Described(8 * k)' =
          [base |-> memory'[a + 2] + Byte * (memory'[a + 3] + Byte * (memory'[a + 4]
                       + Byte * memory'[a + 7])),
           limit |-> memory'[a] + Byte * (memory'[a + 1] + Byte * (memory'[a + 6] % Half)),
           access |-> memory'[a + 5],
           flags |-> memory'[a + 6] \div Half]
    BY <1>2 DEF G!Described, a
  <2> QED
    BY <1>3, <1>4, <1>5, <1>6, <1>7, <2>1
<1>9. ASSUME NEW j \in 0 .. 5, j # k PROVE G!Described(8 * j)' = G!Described(8 * j)
  <2>1. \A n \in 0 .. 7 : 8 * j + n \in G!Bytes /\ 8 * j + n \notin a .. a + 7
    BY <1>9 DEF G!Bytes
  <2>2. \A n \in 0 .. 7 : memory'[8 * j + n] = memory[8 * j + n]
    <3> HIDE DEF a
    <3> QED
      BY <1>1, <2>1
  <2>3. /\ memory'[8 * j] = memory[8 * j] /\ memory'[8 * j + 1] = memory[8 * j + 1]
        /\ memory'[8 * j + 2] = memory[8 * j + 2] /\ memory'[8 * j + 3] = memory[8 * j + 3]
        /\ memory'[8 * j + 4] = memory[8 * j + 4] /\ memory'[8 * j + 5] = memory[8 * j + 5]
        /\ memory'[8 * j + 6] = memory[8 * j + 6] /\ memory'[8 * j + 7] = memory[8 * j + 7]
    <3>1. 8 * j + 0 = 8 * j
      OBVIOUS
    <3> QED
      BY <2>2, <3>1
  <2> QED
    BY <1>2, <2>3 DEF G!Described
<1>10. memory' \in [G!Bytes -> 0 .. Byte - 1]
  <2>1. \A x \in Nat : x % Byte \in 0 .. Byte - 1
    BY <1>4, DivMod
  <2>2. /\ e.limit \div Byte \in Nat /\ e.base \div Byte \in Nat
        /\ e.base \div (Byte * Byte) \in Nat /\ e.base \div (Byte * Byte * Byte) \in Nat
    <3>1. \A x \in Nat, y \in Nat \ {0} : x \div y \in Nat
      BY DivMod
    <3>2. Byte * Byte \in Nat \ {0} /\ Byte * Byte * Byte \in Nat \ {0}
      BY <1>4
    <3> QED
      BY <1>4, <3>1, <3>2
  <2>3. \A n \in 0 .. 7 : memory'[a + n] \in 0 .. Byte - 1
    <3> TAKE n \in 0 .. 7
    <3>1. n \in {0, 1, 2, 3, 4, 5, 6, 7} /\ a + 0 = a
      BY <1>1
    <3> HIDE DEF a
    <3> QED
      BY <1>3, <1>4, <1>6, <2>1, <2>2, <3>1
  <2>4. ASSUME NEW i \in G!Bytes PROVE memory'[i] \in 0 .. Byte - 1
    <3> HIDE DEF a
    <3>1. CASE i \in a .. a + 7
      <4>1. i - a \in 0 .. 7 /\ a + (i - a) = i
        BY <1>1, <3>1
      <4> QED
        BY <2>3, <4>1
    <3>2. CASE i \notin a .. a + 7
      BY <1>1, <3>2
    <3> QED
      BY <3>1, <3>2
  <2> HIDE DEF a
  <2> QED
    BY <1>1, <2>4
<1> QED
  BY <1>8, <1>9, <1>10

(***************************************************************************)
(* The segments: Gdt's part of the invariant.                              *)
(***************************************************************************)
LEMMA InitGIInv == G!Init => G!GIInv
<1> SUFFICES ASSUME G!Init PROVE G!GIInv
  OBVIOUS
<1> USE DEF G!Init
<1>1. G!TypeOK
  BY Widths DEF G!TypeOK, G!Bytes, G!On, G!Boot, G!Selectors
<1>2. G!DescribesWhatItAsked /\ G!ContextsHold
  BY DEF G!DescribesWhatItAsked, G!ContextsHold, G!On, G!Loaded, G!Entries
<1> QED
  BY <1>1, <1>2 DEF G!GIInv, G!On, G!Written

\* One more descriptor is written, and those before it stay.
LEMMA CreateGIInv == ASSUME G!GIInv, G!createGdt PROVE G!GIInv'
<1>1. /\ tss \in TssPlaces /\ G!TypeOK /\ G!DescribesWhatItAsked /\ returns = <<>>
      /\ pc \in 1 .. 6 /\ DOMAIN G!Entries = 1 .. 6
  <2>1. tss \in TssPlaces /\ DOMAIN G!Entries = 1 .. 6
    BY DEF G!GIInv, G!Entries
  <2> QED
    BY <2>1 DEF G!GIInv, G!ContextsHold, G!createGdt, G!On
<1>2. /\ UNCHANGED <<tss, cs, ds, ss, tr, returns>> /\ pc' = pc + 1
      /\ memory' = G!encodeGdtEntry(8 * (pc - 1), G!Entries[pc])
      /\ ss0' = IF pc = 6 THEN 16 ELSE ss0
  BY DEF G!createGdt
<1>3. PICK at \in 0 .. 5 : at = pc - 1
  BY <1>1
<1> DEFINE e == G!Entries[pc]
<1>4. /\ memory' \in [G!Bytes -> 0 .. Byte - 1]
      /\ G!Described(8 * at)' = e
      /\ \A j \in 0 .. 5 : j # at => G!Described(8 * j)' = G!Described(8 * j)
  <2>1. memory \in [G!Bytes -> 0 .. Byte - 1]
    BY <1>1 DEF G!TypeOK
  <2>2. Sound(e)
    BY <1>1, EntriesSound
  <2>3. memory' = G!encodeGdtEntry(8 * at, e)
    BY <1>2, <1>3
  <2> HIDE DEF e
  <2> QED
    BY <2>1, <2>2, <2>3, EncodedReads
<1>5. G!DescribesWhatItAsked'
  <2>1. G!Entries' = G!Entries
    BY <1>2 DEF G!Entries
  <2>2. ASSUME NEW k \in 1 .. 6, k < pc + 1
        PROVE  G!Described(8 * (k - 1))' = G!Entries[k]
    <3>1. CASE k = pc
      <4>1. k - 1 = at
        BY <1>3, <3>1
      <4> QED
        BY <1>4, <3>1, <4>1
    <3>2. CASE k # pc
      <4>1. k - 1 \in 0 .. 5 /\ k - 1 # at /\ k < pc
        BY <1>1, <1>3, <2>2, <3>2
      <4>2. G!Described(8 * (k - 1)) = G!Entries[k]
        BY <1>1, <4>1 DEF G!DescribesWhatItAsked
      <4> QED
        BY <1>4, <4>1, <4>2
    <3> QED
      BY <3>1, <3>2
  <2> QED
    BY <1>1, <1>2, <2>1, <2>2 DEF G!DescribesWhatItAsked
<1>6. G!TypeOK'
  BY <1>1, <1>2, <1>4 DEF G!TypeOK, G!On, G!Selectors
<1>7. G!ContextsHold' /\ (pc' >= G!Written => ss0' = 16) /\ pc' # G!On
  BY <1>1, <1>2 DEF G!ContextsHold, G!On, G!Loaded, G!Written
<1> QED
  BY <1>1, <1>2, <1>5, <1>6, <1>7 DEF G!GIInv

\* The moves leave the table as it is.
LEMMA MoveKeepsTable ==
  ASSUME G!GIInv, UNCHANGED <<memory, tss>>, pc >= G!Written
  PROVE  G!DescribesWhatItAsked'
<1>1. G!Entries' = G!Entries /\ DOMAIN G!Entries = 1 .. 6
  BY DEF G!Entries
<1>2. \A k \in 1 .. 6 : G!Described(8 * (k - 1))' = G!Described(8 * (k - 1))
  BY DEF G!Described
<1>3. \A k \in 1 .. 6 : k < pc
  BY DEF G!Written, G!GIInv, G!TypeOK, G!On
<1> QED
  BY <1>1, <1>2, <1>3 DEF G!GIInv, G!DescribesWhatItAsked

\* The two kinds of context there are.
LEMMA Contexts ==
  /\ G!Kernels.cs = 8 /\ G!Kernels.ss = 16 /\ G!Programs.cs = 27 /\ G!Programs.ss = 35
  /\ G!Kernels # G!Programs
  /\ {G!Kernels, G!Programs} \subseteq [cs : G!Selectors, ss : G!Selectors]
  /\ G!Running = G!Kernels <=> cs = 8 /\ ss = 16
  /\ G!Running = G!Programs <=> cs = 27 /\ ss = 35
  /\ G!Running.cs = cs /\ G!Running.ss = ss
<1>1. /\ G!Kernels.cs = 8 /\ G!Kernels.ss = 16 /\ G!Programs.cs = 27 /\ G!Programs.ss = 35
      /\ G!Running.cs = cs /\ G!Running.ss = ss
  BY DEF G!Kernels, G!Programs, G!Running
<1>2. {G!Kernels, G!Programs} \subseteq [cs : G!Selectors, ss : G!Selectors]
  BY DEF G!Kernels, G!Programs, G!Selectors
<1>3. /\ cs = 8 /\ ss = 16 => G!Running = G!Kernels
      /\ cs = 27 /\ ss = 35 => G!Running = G!Programs
  BY DEF G!Kernels, G!Programs, G!Running
<1> QED
  BY <1>1, <1>2, <1>3

\* What the invariant says once the segments are loaded.
LEMMA Loaded ==
  ASSUME G!GIInv, pc >= G!Written
  PROVE  /\ returns \in Seq([cs : G!Selectors, ss : G!Selectors]) /\ Len(returns) \in Nat
         /\ DOMAIN returns = 1 .. Len(returns) /\ ss0 = 16 /\ tss \in TssPlaces
         /\ memory \in [G!Bytes -> 0 .. Byte - 1] /\ pc \in 7 .. 9
         /\ {cs, ds, ss, tr, ss0} \subseteq G!Selectors \cup {G!Boot}
         /\ pc < 9 => returns = <<>>
         /\ pc = 9 => tr = 40
         /\ pc >= 8 => /\ G!Running \in {G!Kernels, G!Programs}
                       /\ \A i \in 1 .. Len(returns) : returns[i] \in {G!Kernels, G!Programs}
                       /\ \A i \in 2 .. Len(returns) : returns[i] = G!Kernels
                       /\ returns # <<>> => G!Running = G!Kernels /\ ds = G!DataOf(returns[1])
                       /\ returns = <<>> => ds = G!DataOf(G!Running)
  BY DEF G!GIInv, G!TypeOK, G!ContextsHold, G!On, G!Loaded, G!Written

\* Selectors in a context are selectors, so its types follow.
LEMMA StillGIInv ==
  ASSUME G!GIInv, UNCHANGED <<memory, tss, ss0>>, pc >= G!Written, pc' \in {G!Loaded, G!On},
         {cs', ds', ss', tr'} \subseteq G!Selectors \cup {G!Boot},
         returns' \in Seq([cs : G!Selectors, ss : G!Selectors]),
         G!ContextsHold', pc' = G!On => tr' = 40
  PROVE  G!GIInv'
<1>1. \A i \in DOMAIN returns' : returns'[i] \in [cs : G!Selectors, ss : G!Selectors]
  <2>1. DOMAIN returns' = 1 .. Len(returns')
    BY LenProperties
  <2> QED
    BY <2>1, ElementOfSeq
<1>2. \A i \in DOMAIN returns' : {returns'[i].cs, returns'[i].ss} \subseteq G!Selectors
  BY <1>1
<1>3. G!TypeOK' /\ tss' \in TssPlaces /\ ss0' = 16
  BY <1>2, Loaded DEF G!TypeOK, G!On, G!Loaded
<1>4. G!DescribesWhatItAsked'
  BY MoveKeepsTable
<1> QED
  BY <1>3, <1>4 DEF G!GIInv

\* The kernel loads its segments, enters a program and comes back from it.
LEMMA MoveGIInv ==
  ASSUME G!GIInv, G!setGdt \/ G!ltr \/ G!jump_usermode \/ G!kernel_return
  PROVE  G!GIInv'
<1>1. /\ UNCHANGED <<memory, tss, ss0>> /\ pc >= G!Written /\ pc' \in {G!Loaded, G!On}
  BY DEF G!setGdt, G!ltr, G!jump_usermode, G!kernel_return, G!Written, G!Loaded, G!On
<1>2. G!Selectors = {0, 8, 16, 27, 35, 40}
  BY DEF G!Selectors
<1>3. /\ returns' = <<>> /\ {cs', ds', ss', tr'} \subseteq G!Selectors \cup {G!Boot}
      /\ (cs' = 8 /\ ss' = 16 /\ ds' = 16) \/ (cs' = 27 /\ ss' = 35 /\ ds' = 35)
      /\ pc' = G!On => tr' = 40
  <2>1. CASE G!setGdt
    <3>1. pc = 7
      BY <2>1 DEF G!setGdt, G!Written
    <3> QED
      BY <1>1, <1>2, <2>1, <3>1, Loaded DEF G!setGdt, G!Loaded, G!On
  <2>2. CASE G!ltr
    <3>1. G!Running \in {G!Kernels, G!Programs} /\ returns = <<>> /\ ds = G!DataOf(G!Running)
      BY <1>1, <2>2, Loaded DEF G!ltr, G!Loaded
    <3>2. (cs = 8 /\ ss = 16 /\ ds = 16) \/ (cs = 27 /\ ss = 35 /\ ds = 35)
      BY <3>1, Contexts DEF G!DataOf
    <3> QED
      BY <1>2, <2>2, <3>1, <3>2 DEF G!ltr
  <2>3. CASE G!jump_usermode \/ G!kernel_return
    <3>1. pc = 9 /\ tr = 40
      BY <1>1, <2>3, Loaded DEF G!jump_usermode, G!kernel_return, G!On
    <3> QED
      BY <1>2, <2>3, <3>1 DEF G!jump_usermode, G!kernel_return, G!UserData, G!KernelSegments
  <2> QED
    BY <2>1, <2>2, <2>3
<1>4. G!ContextsHold'
  <2>1. /\ G!Running' \in {G!Kernels, G!Programs} /\ ds' = G!DataOf(G!Running)'
    <3>1. G!Running' = IF cs' = 8 THEN G!Kernels ELSE G!Programs
      BY <1>3 DEF G!Running, G!Kernels, G!Programs
    <3>2. G!DataOf(G!Running)' = IF G!Running' = G!Programs THEN 35 ELSE 16
      BY DEF G!DataOf, G!Programs
    <3> QED
      BY <1>3, <3>1, <3>2, Contexts
  <2> QED
    BY <1>3, <2>1 DEF G!ContextsHold, G!Kernels, G!Programs
<1>5. returns' \in Seq([cs : G!Selectors, ss : G!Selectors])
  BY <1>3
<1> QED
  BY <1>1, <1>3, <1>4, <1>5, StillGIInv

\* An interrupt goes on top, and the kernel runs.
LEMMA InterruptGIInv == ASSUME G!GIInv, G!Interrupt PROVE G!GIInv'
<1>1. /\ pc = 9 /\ pc' = 9 /\ UNCHANGED <<memory, tss, ss0, ds, tr>> /\ cs' = 8
      /\ returns' = Append(returns, G!Running)
      /\ ss' = IF cs % 4 = 3 THEN ss0 ELSE ss
  BY DEF G!Interrupt, G!On, G!kernel_cs, G!Privilege, G!Running
<1>2. /\ pc >= G!Written /\ ss0 = 16 /\ tr = 40
      /\ returns \in Seq([cs : G!Selectors, ss : G!Selectors]) /\ Len(returns) \in Nat
      /\ DOMAIN returns = 1 .. Len(returns)
      /\ G!Running \in {G!Kernels, G!Programs}
      /\ \A i \in 1 .. Len(returns) : returns[i] \in {G!Kernels, G!Programs}
      /\ returns # <<>> => G!Running = G!Kernels /\ ds = G!DataOf(returns[1])
      /\ returns = <<>> => ds = G!DataOf(G!Running)
      /\ \A i \in 2 .. Len(returns) : returns[i] = G!Kernels
      /\ {ds, tr} \subseteq G!Selectors \cup {G!Boot}
  <2>1. pc >= G!Written
    BY <1>1 DEF G!Written
  <2> QED
    BY <1>1, <2>1, Loaded
<1>3. ss' = 16
  <2>1. (cs = 8 /\ ss = 16) \/ (cs = 27 /\ ss = 35)
    BY <1>2, Contexts
  <2> QED
    BY <1>1, <1>2, <2>1
<1>4. /\ returns' \in Seq([cs : G!Selectors, ss : G!Selectors])
      /\ Len(returns') = Len(returns) + 1 /\ returns'[Len(returns) + 1] = G!Running
      /\ \A i \in 1 .. Len(returns) : returns'[i] = returns[i]
  <2>1. G!Running \in [cs : G!Selectors, ss : G!Selectors]
    BY <1>2, Contexts
  <2> QED
    BY <1>1, <1>2, <2>1, AppendProperties
<1>5. G!ContextsHold'
  <2>1. \A i \in 1 .. Len(returns') : returns'[i] \in {G!Kernels, G!Programs}
    <3> TAKE i \in 1 .. Len(returns')
    <3>1. i \in 1 .. Len(returns) \/ i = Len(returns) + 1
      BY <1>2, <1>4
    <3> QED
      BY <1>2, <1>4, <3>1
  <2>2. \A i \in 2 .. Len(returns') : returns'[i] = G!Kernels
    <3> TAKE i \in 2 .. Len(returns')
    <3>1. (i \in 2 .. Len(returns) /\ i \in 1 .. Len(returns)) \/ i = Len(returns) + 1
      BY <1>2, <1>4
    <3>2. returns # <<>>
      BY <1>2, <1>4, <3>1
    <3> QED
      BY <1>2, <1>4, <3>1, <3>2
  <2>3. ds = G!DataOf(returns'[1])
    <3>1. CASE returns = <<>>
      <4>1. returns'[1] = G!Running
        BY <1>4, <3>1
      <4> QED
        BY <1>2, <3>1, <4>1
    <3>2. CASE returns # <<>>
      <4>1. 1 \in 1 .. Len(returns)
        BY <1>2, <3>2, EmptySeq
      <4> QED
        BY <1>2, <1>4, <3>2, <4>1
    <3> QED
      BY <3>1, <3>2
  <2>4. G!Running' = G!Kernels /\ returns' # <<>>
    <3>1. G!Running' = G!Kernels
      BY <1>1, <1>3 DEF G!Running, G!Kernels
    <3> QED
      BY <1>2, <1>4, <3>1
  <2>5. G!Kernels' = G!Kernels /\ G!Programs' = G!Programs
        /\ ds' = G!DataOf(returns[1])'
    BY <1>1, <2>3 DEF G!Kernels, G!Programs, G!DataOf
  <2> QED
    BY <1>1, <2>1, <2>2, <2>4, <2>5 DEF G!ContextsHold, G!On, G!Loaded
<1>6. /\ {cs', ds', ss', tr'} \subseteq G!Selectors \cup {G!Boot}
      /\ pc' \in {G!Loaded, G!On} /\ tr' = 40
  BY <1>1, <1>2, <1>3 DEF G!Selectors, G!On
<1> QED
  BY <1>1, <1>2, <1>4, <1>5, <1>6, StillGIInv

\* What was interrupted comes back: a program only from the bottom.
LEMMA IretGIInv ==
  ASSUME G!GIInv, G!Iret
  PROVE  /\ G!GIInv' /\ cs' = returns[Len(returns)].cs
         /\ Len(returns) \in Nat /\ Len(returns') = Len(returns) - 1
         /\ \A i \in 1 .. Len(returns) - 1 : returns'[i] = returns[i]
<1>1. /\ pc = 9 /\ pc' = 9 /\ UNCHANGED <<memory, tss, ss0, ds, tr>>
      /\ cs' = returns[Len(returns)].cs /\ ss' = returns[Len(returns)].ss
      /\ returns' = SubSeq(returns, 1, Len(returns) - 1) /\ returns # <<>>
  BY DEF G!Iret, G!On
<1>2. /\ pc >= G!Written /\ ss0 = 16 /\ tr = 40
      /\ returns \in Seq([cs : G!Selectors, ss : G!Selectors]) /\ Len(returns) \in Nat
      /\ DOMAIN returns = 1 .. Len(returns)
      /\ \A i \in 1 .. Len(returns) : returns[i] \in {G!Kernels, G!Programs}
      /\ ds = G!DataOf(returns[1])
      /\ \A i \in 2 .. Len(returns) : returns[i] = G!Kernels
      /\ {ds, tr} \subseteq G!Selectors \cup {G!Boot}
  <2>1. pc >= G!Written
    BY <1>1 DEF G!Written
  <2> QED
    BY <1>1, <2>1, Loaded
<1>3. Len(returns) >= 1 /\ Len(returns) - 1 \in Int
  BY <1>1, <1>2, EmptySeq
<1> DEFINE n == Len(returns) - 1
<1>4. /\ returns' \in Seq([cs : G!Selectors, ss : G!Selectors])
      /\ Len(returns') = n
      /\ \A i \in 1 .. n : returns'[i] = returns[i]
  <2>1. \A i \in 1 .. n : returns[i] \in [cs : G!Selectors, ss : G!Selectors]
    BY <1>2, <1>3, Contexts
  <2>2. n \in Nat /\ n - 1 + 1 = n /\ 1 \in Int /\ n \in Int
    BY <1>2, <1>3
  <2> HIDE DEF n
  <2>3. /\ SubSeq(returns, 1, n) \in Seq([cs : G!Selectors, ss : G!Selectors])
        /\ Len(SubSeq(returns, 1, n)) = IF 1 <= n THEN n - 1 + 1 ELSE 0
        /\ \A i \in 1 .. n - 1 + 1 : SubSeq(returns, 1, n)[i] = returns[1 + i - 1]
    BY <2>1, <2>2, SubSeqProperties
  <2>4. returns' = SubSeq(returns, 1, n)
    BY <1>1 DEF n
  <2> QED
    BY <2>2, <2>3, <2>4
<1>5. /\ returns[Len(returns)] \in {G!Kernels, G!Programs}
      /\ G!Running' = returns[Len(returns)]
  <2>1. returns[Len(returns)] \in {G!Kernels, G!Programs}
    BY <1>2, <1>3
  <2>2. G!Running' = [cs |-> cs', ss |-> ss']
    BY DEF G!Running
  <2> QED
    BY <1>1, <2>1, <2>2 DEF G!Kernels, G!Programs
<1>6. G!ContextsHold'
  <2>1. /\ \A i \in 1 .. Len(returns') : returns'[i] \in {G!Kernels, G!Programs}
        /\ \A i \in 2 .. Len(returns') : returns'[i] = G!Kernels
    BY <1>2, <1>3, <1>4
  <2>2. returns' = <<>> => ds' = G!DataOf(G!Running)'
    <3> SUFFICES ASSUME returns' = <<>> PROVE ds' = G!DataOf(G!Running)'
      OBVIOUS
    <3>1. Len(returns) = 1
      <4>1. Len(returns') = 0
        OBVIOUS
      <4>2. Len(returns') = Len(returns) - 1
        BY <1>4
      <4>3. Len(returns) \in Nat
        BY <1>2
      <4> QED
        BY <4>1, <4>2, <4>3
    <3> QED
      BY <1>1, <1>2, <1>5, <3>1 DEF G!DataOf
  <2>3. returns' # <<>> => G!Running' = G!Kernels /\ ds' = G!DataOf(returns[1])'
    <3> SUFFICES ASSUME returns' # <<>>
                 PROVE  G!Running' = G!Kernels /\ ds' = G!DataOf(returns[1])'
      OBVIOUS
    <3>1. Len(returns) >= 2
      BY <1>2, <1>3, <1>4, EmptySeq
    <3>2. returns'[1] = returns[1] /\ returns[Len(returns)] = G!Kernels
      BY <1>2, <1>4, <3>1
    <3> QED
      BY <1>1, <1>2, <1>5, <3>2 DEF G!DataOf
  <2>4. G!Running' \in {G!Kernels, G!Programs}
    BY <1>5
  <2>5. G!Kernels' = G!Kernels /\ G!Programs' = G!Programs
    BY DEF G!Kernels, G!Programs
  <2> QED
    BY <1>1, <2>1, <2>2, <2>3, <2>4, <2>5 DEF G!ContextsHold, G!On, G!Loaded
<1>7. /\ {cs', ds', ss', tr'} \subseteq G!Selectors \cup {G!Boot}
      /\ pc' \in {G!Loaded, G!On} /\ tr' = 40
  BY <1>1, <1>2, <1>5, Contexts DEF G!Selectors, G!On
<1> QED
  BY <1>1, <1>2, <1>4, <1>6, <1>7, StillGIInv

\* Every step of the segments preserves their part.
LEMMA StepGIInv == ASSUME G!GIInv, [G!Next]_segments PROVE G!GIInv'
<1>1. CASE UNCHANGED segments
  BY <1>1 DEF segments, G!GIInv, G!TypeOK, G!DescribesWhatItAsked, G!ContextsHold, G!Entries,
     G!Described, G!Running, G!DataOf
<1> QED
  BY <1>1, CreateGIInv, MoveGIInv, InterruptGIInv, IretGIInv DEF G!Next

\* The whole table, as the CPU reads it through the selectors the kernel loads.
LEMMA TableReads ==
  ASSUME G!GIInv, pc >= G!Written
  PROVE  /\ G!Described(8) = G!Segment(1, 0) /\ G!Described(16) = G!Segment(2, 0)
         /\ G!Described(27) = G!Segment(1, 3) /\ G!Described(35) = G!Segment(2, 3)
         /\ G!Described(40) =
               [base |-> tss, limit |-> TssSize - 1, access |-> G!Access(3, 0), flags |-> 0]
<1>1. \A k \in 1 .. 6 : k < pc /\ k \in DOMAIN G!Entries
  BY DEF G!GIInv, G!TypeOK, G!On, G!Written, G!Entries
<1>2. \A k \in 1 .. 6 : G!Described(8 * (k - 1)) = G!Entries[k]
  BY <1>1 DEF G!GIInv, G!DescribesWhatItAsked
<1>3. /\ G!Described(8 * (2 - 1)) = G!Entries[2] /\ G!Described(8 * (3 - 1)) = G!Entries[3]
      /\ G!Described(8 * (4 - 1)) = G!Entries[4] /\ G!Described(8 * (5 - 1)) = G!Entries[5]
      /\ G!Described(8 * (6 - 1)) = G!Entries[6]
  BY <1>2
<1>4. /\ 8 * (2 - 1) = 8 /\ 8 * (3 - 1) = 16 /\ 8 * (4 - 1) = 24 /\ 8 * (5 - 1) = 32
      /\ 8 * (6 - 1) = 40
  OBVIOUS
<1>5. G!At(27) = G!At(24) /\ G!At(35) = G!At(32)
  BY DEF G!At
<1>6. G!Described(27) = G!Described(24) /\ G!Described(35) = G!Described(32)
  BY <1>5 DEF G!Described
<1> QED
  BY <1>3, <1>4, <1>6 DEF G!Entries, G!Code, G!Data, G!Task

\* The CPU's rules, selector by selector.
LEMMA SelectorsName ==
  ASSUME G!GIInv, pc >= G!Written
  PROVE  /\ G!Names(8, G!Code) /\ G!Dpl(8) = 0 /\ G!Privilege(8) = 0
         /\ G!Names(16, G!Data) /\ G!Dpl(16) = 0 /\ G!Privilege(16) = 0
         /\ G!Names(27, G!Code) /\ G!Dpl(27) = 3 /\ G!Privilege(27) = 3
         /\ G!Names(35, G!Data) /\ G!Dpl(35) = 3 /\ G!Privilege(35) = 3
<1>1. /\ G!Access(1, 0) \div Half = 0 /\ G!Access(2, 0) \div Half = 0
      /\ G!Access(1, 3) \div Half = 3 /\ G!Access(2, 3) \div Half = 3
  BY AccessHolds
<1>2. \A kind, dpl : G!Segment(kind, dpl).access = G!Access(kind, dpl)
  BY DEF G!Segment
<1>3. G!Dpl(8) = 0 /\ G!Dpl(16) = 0 /\ G!Dpl(27) = 3 /\ G!Dpl(35) = 3
  BY <1>1, <1>2, TableReads DEF G!Dpl
<1>4. /\ G!At(8) + 7 <= G!Limit /\ G!At(16) + 7 <= G!Limit
      /\ G!At(27) + 7 <= G!Limit /\ G!At(35) + 7 <= G!Limit
  BY DEF G!At, G!Limit
<1>5. /\ G!Privilege(8) = 0 /\ G!Privilege(16) = 0 /\ G!Privilege(27) = 3 /\ G!Privilege(35) = 3
  BY DEF G!Privilege
<1> QED
  BY <1>3, <1>4, <1>5, TableReads DEF G!Names, G!Code, G!Data

\* So the invariant gives what is said of the segments.
LEMMA SegmentsFollow ==
  ASSUME G!GIInv
  PROVE  G!DescribesWhatItAsked /\ G!SegmentsHold /\ G!StackIsFound /\ G!KernelHasItsData
<1>1. G!DescribesWhatItAsked
  BY DEF G!GIInv
<1>2. ASSUME pc >= G!Loaded
      PROVE  \/ cs = 8 /\ ss = 16 /\ ds \in {16, 35} /\ (returns = <<>> => ds = 16)
             \/ cs = 27 /\ ss = 35 /\ ds = 35
  <2>1. pc >= G!Written /\ pc >= 8
    BY <1>2 DEF G!Written, G!Loaded, G!GIInv, G!TypeOK, G!On
  <2>2. G!Running \in {G!Kernels, G!Programs} /\ ds \in {16, 35}
    BY <2>1, Loaded DEF G!DataOf
  <2>3. G!Running = G!Programs => ds = 35
    BY <2>1, Loaded, Contexts DEF G!DataOf
  <2>4. G!Running = G!Kernels /\ returns = <<>> => ds = 16
    BY <2>1, Loaded, Contexts DEF G!DataOf
  <2> QED
    BY <2>2, <2>3, <2>4, Contexts
<1>3. G!SegmentsHold
  <2> SUFFICES ASSUME pc >= G!Loaded PROVE G!SegmentsHold
    BY DEF G!SegmentsHold
  <2>1. pc >= G!Written
    BY DEF G!Written, G!Loaded, G!GIInv, G!TypeOK, G!On
  <2> QED
    BY <1>2, <2>1, SelectorsName DEF G!SegmentsHold
<1>4. G!StackIsFound
  <2> SUFFICES ASSUME pc = G!On PROVE G!StackIsFound
    BY DEF G!StackIsFound
  <2>1. pc >= G!Written /\ tr = 40 /\ ss0 = 16
    BY DEF G!Written, G!On, G!GIInv
  <2>2. TssSize - 1 + 1 = TssSize
    BY Widths
  <2> QED
    BY <2>1, <2>2, TableReads, SelectorsName DEF G!StackIsFound, G!Task
<1>5. G!KernelHasItsData
  BY <1>2 DEF G!KernelHasItsData, G!On, G!Loaded
<1> QED
  BY <1>1, <1>3, <1>4, <1>5

(***************************************************************************)
(* The stack: KernelStack's part of the invariant.                         *)
(***************************************************************************)
\* Each program adds a frame.
LEMMA FrameMore ==
  ASSUME NEW n \in Nat
  PROVE  /\ S!Frames(n) \in Nat /\ S!Frames(n + 1) = S!Frames(n) + Main
         /\ S!Frames(n + 1) = Startup + (n + 1) * Main
         /\ Startup \in Nat /\ Main \in Nat /\ Deep \in Nat /\ Handler \in Nat /\ Size \in Nat
         /\ MaxRuns \in Nat /\ Startup + Main <= Size
  BY UserModeAssumption DEF S!KernelStackAssumption, S!Frames

LEMMA InitSIInv == S!Init => S!SIInv
<1>1. S!Frames(0) = Startup /\ S!Frames(0 + 1) = Startup + Main
  BY UserModeAssumption DEF S!KernelStackAssumption, S!Frames
<1>2. 0 \in Nat /\ 0 + 1 = 1
  OBVIOUS
<1> QED
  BY <1>1, <1>2, FrameMore DEF S!Init, S!SIInv, S!TypeOK, S!FramesHold, S!OverrunOnlyAfterRuns,
     S!NoHandler

\* What is taken is what was asked, or the stack is overrun.
LEMMA TakeFits ==
  ASSUME NEW d \in 0 .. Size, NEW n \in Nat, NEW what, S!Take(d, n, what), depth \in 0 .. Size
  PROVE  \/ doing' = "overrun" /\ d + n > Size /\ depth' = depth
         \/ doing' = what /\ d + n <= Size /\ depth' = d + n /\ depth' \in 0 .. Size
  BY FrameMore DEF S!Take

LEMMA StepSIInv == ASSUME S!SIInv, [S!Next]_stack PROVE S!SIInv'
<1>1. /\ doing \in {"main", "command", "program", "handler", "overrun"}
      /\ depth \in 0 .. Size /\ saved_kernel_esp \in 0 .. Size /\ runs \in Nat
      /\ over \in [what : {"none", "main", "command", "program"}, depth : 0 .. Size]
      /\ S!FramesHold /\ S!OverrunOnlyAfterRuns
  BY DEF S!SIInv, S!TypeOK
<1>2. /\ S!Frames(runs) \in Nat /\ S!Frames(runs + 1) = S!Frames(runs) + Main
      /\ S!Frames(runs + 1) = Startup + (runs + 1) * Main
      /\ Startup \in Nat /\ Main \in Nat /\ Deep \in Nat /\ Handler \in Nat /\ Size \in Nat
  BY <1>1, FrameMore
<1>3. CASE S!Command
  <2>1. PICK n \in 1 .. Deep : S!Take(depth, n, "command")
    BY <1>3 DEF S!Command
  <2>2. /\ doing = "main" /\ saved_kernel_esp' = depth /\ over' = over /\ runs' = runs
        /\ depth = S!Frames(runs + 1) /\ n \in Nat /\ n <= Deep
    BY <1>1, <1>2, <1>3 DEF S!Command, S!FramesHold
  <2>3. \/ doing' = "overrun" /\ depth + n > Size /\ depth' = depth
        \/ doing' = "command" /\ depth' = depth + n /\ depth' \in 0 .. Size
    BY <1>1, <2>1, <2>2, TakeFits
  <2> QED
    BY <1>1, <1>2, <2>2, <2>3 DEF S!SIInv, S!TypeOK, S!FramesHold, S!CommandOn,
       S!OverrunOnlyAfterRuns, S!Frames
<1>4. CASE S!Done
  BY <1>1, <1>2, <1>4 DEF S!Done, S!Back, S!SIInv, S!TypeOK, S!FramesHold, S!CommandOn,
     S!OverrunOnlyAfterRuns, S!Frames
<1>5. CASE S!jump_usermode
  <2>1. runs' = runs + 1 /\ runs' \in Nat /\ runs' >= 1
    BY <1>1, <1>5 DEF S!jump_usermode
  <2> QED
    BY <1>1, <1>2, <1>5, <2>1 DEF S!jump_usermode, S!SIInv, S!TypeOK, S!FramesHold, S!CommandOn,
       S!ProgramOn, S!OverrunOnlyAfterRuns, S!Frames
<1>6. CASE S!Handle
  <2>1. PICK n \in 1 .. Handler : S!Take(S!From, n, "handler")
    BY <1>6 DEF S!Handle
  <2>2. /\ doing \in {"main", "command", "program"}
        /\ over' = [what |-> doing, depth |-> depth]
        /\ saved_kernel_esp' = saved_kernel_esp /\ runs' = runs
        /\ S!From \in 0 .. Size /\ n \in Nat /\ n <= Handler
        /\ S!From <= S!Frames(runs + 1) + Deep
    BY <1>1, <1>2, <1>6 DEF S!Handle, S!From, S!FramesHold, S!CommandOn
  <2>3. \/ doing' = "overrun" /\ S!From + n > Size /\ depth' = depth
        \/ doing' = "handler" /\ depth' \in 0 .. Size
    BY <1>1, <2>1, <2>2, TakeFits
  <2>4. S!From + n <= Startup + (runs + 1) * Main + Deep + Handler
    BY <1>2, <2>2
  <2>5. /\ over' \in [what : {"none", "main", "command", "program"}, depth : 0 .. Size]
        /\ over'.what = doing /\ over'.depth = depth
    BY <1>1, <2>2
  <2> QED
    BY <1>1, <1>2, <2>2, <2>3, <2>4, <2>5 DEF S!SIInv, S!TypeOK, S!FramesHold, S!CommandOn,
       S!ProgramOn, S!OverrunOnlyAfterRuns
<1>7. CASE S!Iret
  <2>1. /\ doing = "handler" /\ doing' = over.what /\ depth' = over.depth
        /\ over' = [what |-> "none", depth |-> 0]
        /\ saved_kernel_esp' = saved_kernel_esp /\ runs' = runs
    BY <1>7 DEF S!Iret, S!NoHandler
  <2>2. over.what \in {"main", "command", "program"} /\ over.depth \in 0 .. Size
    BY <1>1, <2>1 DEF S!FramesHold
  <2>3. over' \in [what : {"none", "main", "command", "program"}, depth : 0 .. Size]
    BY <1>2, <2>1
  <2> QED
    BY <1>1, <2>1, <2>2, <2>3 DEF S!SIInv, S!TypeOK, S!FramesHold, S!CommandOn,
       S!ProgramOn, S!OverrunOnlyAfterRuns
<1>8. CASE S!kernel_return
  <2>1. /\ doing = "handler" /\ over.what = "program" /\ S!Take(saved_kernel_esp, Main, "main")
        /\ over' = [what |-> "none", depth |-> 0]
        /\ saved_kernel_esp' = saved_kernel_esp /\ runs' = runs
    BY <1>8 DEF S!kernel_return, S!NoHandler, S!Resumed
  <2>2. saved_kernel_esp = S!Frames(runs)
    BY <1>1, <2>1 DEF S!FramesHold, S!ProgramOn
  <2>3. \/ doing' = "overrun" /\ saved_kernel_esp + Main > Size /\ depth' = depth
        \/ doing' = "main" /\ depth' = saved_kernel_esp + Main /\ depth' \in 0 .. Size
    BY <1>1, <1>2, <2>1, TakeFits
  <2>4. over' \in [what : {"none", "main", "command", "program"}, depth : 0 .. Size]
    BY <1>2, <2>1
  <2> QED
    BY <1>1, <1>2, <2>1, <2>2, <2>3, <2>4 DEF S!SIInv, S!TypeOK, S!FramesHold,
       S!OverrunOnlyAfterRuns
<1>9. CASE UNCHANGED stack
  BY <1>9 DEF stack, S!SIInv, S!TypeOK, S!FramesHold, S!CommandOn, S!ProgramOn,
     S!OverrunOnlyAfterRuns
<1> QED
  BY <1>3, <1>4, <1>5, <1>6, <1>7, <1>8, <1>9 DEF S!Next

(***************************************************************************)
(* The exceptions: Faults' part of the invariant.                          *)
(***************************************************************************)
LEMMA InitFIInv == F!Init => F!FIInv
  BY DEF F!Init, F!FIInv, F!TypeOK, F!NamesTheFault, F!DivisionLeavesNothing, F!WordsHold,
     F!Nothing, F!Exceptions

\* The CPU pushes one word or two, and numbers.
LEMMA PushedWords ==
  ASSUME NEW v, NEW code \in Nat, NEW eip \in Nat
  PROVE  /\ F!Pushed(v, code, eip) \in Seq(Nat) /\ Len(F!Pushed(v, code, eip)) >= 1
         /\ ~F!PushesCode(v) => F!Pushed(v, code, eip) = <<eip>>
         /\ F!PushesCode(v) => F!Pushed(v, code, eip) = <<code, eip>>
  BY DEF F!Pushed

\* What is pushed goes on top.
LEMMA OnTop ==
  ASSUME NEW top \in Seq(Nat), NEW rest \in Seq(Nat)
  PROVE  /\ top \o rest \in Seq(Nat) /\ Len(top \o rest) = Len(top) + Len(rest)
         /\ \A i \in 1 .. Len(top) : (top \o rest)[i] = top[i]
<1>1. Len(top) \in Nat /\ Len(rest) \in Nat
  BY LenProperties
<1> QED
  BY <1>1, ConcatProperties

LEMMA StepFIInv == ASSUME F!FIInv, [F!Next]_exception PROVE F!FIInv'
<1>1. /\ fault \in {"code", "stub", "exception_handler", "gpf_handler", "halted"}
      /\ vector \in 0 .. 31 /\ cr2 \in Nat /\ words \in Seq(Nat) /\ Len(words) \in Nat
      /\ shown.vector \in 0 .. 32 /\ raised.vector \in 0 .. 32
      /\ F!WordsHold /\ F!NamesTheFault /\ F!DivisionLeavesNothing
  BY DEF F!FIInv, F!TypeOK, F!Exceptions
<1>2. Codes \subseteq Nat /\ Places \subseteq Nat /\ Addresses \subseteq Nat /\ Unmapped \subseteq Nat
  BY UserModeAssumption DEF F!FaultsAssumption
<1> USE DEF F!DivideError, F!GeneralProtection, F!PageFault, F!Return
<1>3. ASSUME NEW v \in F!Exceptions, NEW code \in Codes, NEW eip \in Places,
             NEW address \in Addresses, F!Raise(v, code, eip, address)
      PROVE  F!FIInv'
  <2>1. /\ fault' = "stub" /\ vector' = v /\ words' = F!Pushed(v, code, eip)
        /\ cr2' = IF v = 14 THEN address ELSE cr2
        /\ raised' = [vector |-> v, cr2 |-> cr2', eip |-> eip] /\ shown' = shown
    BY <1>3 DEF F!Raise
  <2>2. words' \in Seq(Nat) /\ Len(words') >= 1 /\ (v = 0 => Len(words') = 1)
    BY <1>2, <1>3, <2>1, PushedWords DEF F!PushesCode
  <2> QED
    BY <1>1, <1>2, <1>3, <2>1, <2>2 DEF F!FIInv, F!TypeOK, F!Exceptions, F!WordsHold,
       F!UnderWay, F!NamesTheFault, F!DivisionLeavesNothing
<1>4. CASE F!DivideStub
  <2>1. /\ fault = "stub" /\ vector = 0 /\ words' = Tail(words) /\ fault' = "code"
        /\ UNCHANGED <<vector, cr2, shown, raised>>
    BY <1>4 DEF F!DivideStub, F!Popped
  <2>2. words' = <<>> /\ words' \in Seq(Nat)
    <3>1. Len(words) = 1
      BY <1>1, <2>1 DEF F!WordsHold
    <3>2. words # <<>>
      BY <3>1, EmptySeq
    <3>3. Tail(words) \in Seq(Nat) /\ Len(Tail(words)) = 0
      BY <1>1, <3>1, <3>2, HeadTailProperties
    <3> QED
      BY <2>1, <3>3, EmptySeq
  <2> QED
    BY <1>1, <2>1, <2>2 DEF F!FIInv, F!TypeOK, F!Exceptions, F!WordsHold, F!NamesTheFault,
       F!DivisionLeavesNothing
<1>5. CASE F!GpfStub
  <2>1. /\ fault = "stub" /\ vector = 13 /\ words' = <<0>> \o words /\ fault' = "gpf_handler"
        /\ UNCHANGED <<vector, cr2, shown, raised>>
    BY <1>5 DEF F!GpfStub
  <2>2. words' \in Seq(Nat) /\ Len(words') >= 2
    <3>1. <<0>> \in Seq(Nat) /\ Len(<<0>>) = 1 /\ Len(words) >= 1
      BY <1>1, <2>1 DEF F!WordsHold
    <3> QED
      BY <1>1, <2>1, <3>1, OnTop
  <2>3. raised.vector = 13
    BY <1>1, <2>1 DEF F!WordsHold, F!UnderWay
  <2> QED
    BY <1>1, <2>1, <2>2, <2>3 DEF F!FIInv, F!TypeOK, F!Exceptions, F!WordsHold,
       F!NamesTheFault, F!DivisionLeavesNothing
<1>6. CASE F!OtherStub
  <2>1. /\ fault = "stub" /\ vector \notin {0, 13} /\ words' = <<0, vector>> \o words
        /\ fault' = "exception_handler" /\ UNCHANGED <<vector, cr2, shown, raised>>
    BY <1>6 DEF F!OtherStub, F!StubPushes
  <2>2. words' \in Seq(Nat) /\ Len(words') >= 2 /\ words'[2] = vector
    <3>1. <<0, vector>> \in Seq(Nat) /\ Len(<<0, vector>>) = 2 /\ <<0, vector>>[2] = vector
      BY <1>1
    <3>2. 2 \in 1 .. 2
      OBVIOUS
    <3> QED
      BY <1>1, <2>1, <3>1, <3>2, OnTop
  <2>3. F!UnderWay'
    BY <1>1, <2>1 DEF F!WordsHold, F!UnderWay
  <2> QED
    BY <1>1, <2>1, <2>2, <2>3 DEF F!FIInv, F!TypeOK, F!Exceptions, F!WordsHold, F!Argument,
       F!NamesTheFault, F!DivisionLeavesNothing
<1>7. CASE F!exception_handler
  <2>1. /\ fault = "exception_handler" /\ fault' = "halted"
        /\ shown' = [vector |-> words[2], cr2 |-> cr2, eip |-> 0]
        /\ UNCHANGED <<vector, words, cr2, raised>>
    BY <1>7 DEF F!exception_handler, F!Ends, F!Argument
  <2>2. words[2] = vector /\ vector # 13 /\ F!UnderWay
    BY <1>1, <2>1 DEF F!WordsHold, F!Argument
  <2> QED
    BY <1>1, <2>1, <2>2 DEF F!FIInv, F!TypeOK, F!Exceptions, F!WordsHold, F!UnderWay,
       F!NamesTheFault, F!DivisionLeavesNothing
<1>8. CASE F!gpf_handler
  <2>1. /\ fault = "gpf_handler" /\ words[2] \in Unmapped /\ fault' = "stub" /\ vector' = 14
        /\ cr2' = words[2] /\ UNCHANGED <<shown, raised>>
    BY <1>8 DEF F!gpf_handler, F!Argument
  <2>2. PICK eip \in Places : words' = F!Pushed(14, 0, eip) \o words
    BY <1>8 DEF F!gpf_handler
  <2>3. words' \in Seq(Nat)
    BY <1>1, <1>2, <2>2, PushedWords, OnTop
  <2>4. raised.vector = 13 /\ cr2' \in Nat
    BY <1>1, <1>2, <2>1 DEF F!WordsHold
  <2> QED
    BY <1>1, <2>1, <2>3, <2>4 DEF F!FIInv, F!TypeOK, F!Exceptions, F!WordsHold, F!UnderWay,
       F!NamesTheFault, F!DivisionLeavesNothing
<1>9. CASE UNCHANGED exception
  BY <1>9 DEF exception, F!FIInv, F!TypeOK, F!WordsHold, F!UnderWay, F!Argument,
     F!NamesTheFault, F!DivisionLeavesNothing
<1> QED
  BY <1>3, <1>4, <1>5, <1>6, <1>7, <1>8, <1>9 DEF F!Next, F!Handle

(***************************************************************************)
(* The parts together.                                                     *)
(***************************************************************************)
LEMMA InitUIInv == Init => UIInv
<1>1. Init => Linked
  BY DEF Init, G!Init, S!Init, F!Init, Linked, G!On, F!DivideError, G!Loaded
<1> QED
  BY <1>1, InitGIInv, InitSIInv, InitFIInv DEF Init, UIInv

\* A step of the whole is one of each part, or leaves it alone.
LEMMA StepOfParts ==
  ASSUME [Next]_vars
  PROVE  [G!Next]_segments /\ [S!Next]_stack /\ [F!Next]_exception
<1>1. CASE Setup \/ KernelMain \/ jump_usermode \/ Interrupt \/ Iret \/ kernel_return
  BY <1>1 DEF Setup, KernelMain, jump_usermode, Interrupt, Iret, kernel_return, G!Next, S!Next
<1>2. CASE \E v \in F!Exceptions, code \in Codes, eip \in Places, address \in Addresses :
              Raise(v, code, eip, address)
  BY <1>2 DEF Raise, G!Next, S!Next, F!Next
<1>3. CASE Deliver
  BY <1>3 DEF Deliver, G!Next, S!Next, F!Next, F!Handle
<1>4. CASE UNCHANGED vars
  BY <1>4 DEF vars
<1> QED
  BY <1>1, <1>2, <1>3, <1>4 DEF Next

\* Numbers of the parts for the steps below.
LEMMA Parts ==
  ASSUME UIInv
  PROVE  /\ pc \in 1 .. 9 /\ Len(returns) \in Nat
         /\ doing \in {"main", "command", "program", "handler", "overrun"}
         /\ fault \in {"code", "stub", "exception_handler", "gpf_handler", "halted"}
         /\ pc < 9 => doing = "main" /\ fault = "code"
         /\ pc = 9 /\ doing \in {"main", "command"} => returns = <<>> /\ cs = 8
         /\ pc = 9 /\ doing = "program" => returns = <<>> /\ cs = 27
         /\ pc = 9 /\ doing = "handler" => /\ returns # <<>>
                                           /\ over.what = "program" <=> returns[1].cs = 27
         /\ pc = 9 /\ doing = "overrun" => cs = 8
         /\ pc = 9 => \A i \in 1 .. Len(returns) : returns[i].cs \in {8, 27}
         /\ pc = 9 => \A i \in 2 .. Len(returns) : returns[i].cs = 8
         /\ fault # "code" => doing \in {"handler", "overrun"}
         /\ fault = "stub" /\ vector = 0 => Len(returns) <= 1
         /\ returns \in Seq([cs : G!Selectors, ss : G!Selectors])
         /\ doing = "handler" => over.what \in {"main", "command", "program"}
<1>1. /\ pc \in 1 .. 9 /\ returns \in Seq([cs : G!Selectors, ss : G!Selectors])
      /\ fault \in {"code", "stub", "exception_handler", "gpf_handler", "halted"}
      /\ doing \in {"main", "command", "program", "handler", "overrun"}
      /\ doing = "handler" => over.what \in {"main", "command", "program"}
  BY DEF UIInv, G!GIInv, G!TypeOK, G!On, S!SIInv, S!TypeOK, S!FramesHold, F!FIInv, F!TypeOK
<1>2. Len(returns) \in Nat
  BY <1>1, LenProperties
<1>3. ASSUME pc = 9
      PROVE  /\ \A i \in 1 .. Len(returns) : returns[i].cs \in {8, 27}
             /\ \A i \in 2 .. Len(returns) : returns[i].cs = 8
  BY <1>3, Loaded, Contexts DEF UIInv, G!Written
<1> QED
  BY <1>1, <1>2, <1>3 DEF UIInv, Linked, G!On, F!DivideError

\* Going into an interrupt: what was interrupted is remembered on the stack and
\* among the contexts alike.
LEMMA EnterLinked ==
  ASSUME UIInv, G!Interrupt, S!Handle,
         fault' = "code" \/ fault' = "stub"
  PROVE  Linked'
<1>1. /\ pc = 9 /\ pc' = 9 /\ cs' = 8 /\ returns' = Append(returns, [cs |-> cs, ss |-> ss])
      /\ doing \in {"main", "command", "program"} /\ over' = [what |-> doing, depth |-> depth]
      /\ doing' \in {"handler", "overrun"}
  BY DEF G!Interrupt, G!On, G!kernel_cs, S!Handle, S!Take
<1>2. returns = <<>> /\ (doing = "program" <=> cs = 27)
  BY <1>1, Parts
<1>3. returns' = <<[cs |-> cs, ss |-> ss]>> /\ Len(returns') = 1
      /\ returns' # <<>> /\ returns'[1].cs = cs
  BY <1>1, <1>2
<1> QED
  BY <1>1, <1>2, <1>3 DEF Linked, G!On

\* Coming back from an interrupt with nothing else under it.
LEMMA LeaveLinked ==
  ASSUME UIInv, G!Iret, S!Iret, Len(returns) = 1, fault' = "code"
  PROVE  Linked'
<1>1. /\ pc = 9 /\ pc' = 9 /\ doing = "handler" /\ doing' = over.what
  BY DEF G!Iret, G!On, S!Iret
<1>2. Len(returns') = 0 /\ cs' = returns[1].cs /\ G!GIInv'
  BY IretGIInv DEF UIInv
<1>3. returns' = <<>>
  BY <1>2, EmptySeq DEF G!GIInv
<1>4. returns[1].cs \in {8, 27} /\ over.what \in {"main", "command", "program"}
      /\ (over.what = "program" <=> returns[1].cs = 27)
  BY <1>1, Parts
<1> QED
  BY <1>1, <1>2, <1>3, <1>4 DEF Linked, G!On, G!Loaded

\* An interrupt within a handler adds a context of the kernel's.
LEMMA HandlerInterrupted ==
  ASSUME UIInv, G!Interrupt, doing = "handler", UNCHANGED stack,
         fault' = "code" \/ (fault' = "stub" /\ vector' # 0)
  PROVE  Linked'
<1>1. /\ pc = 9 /\ pc' = 9 /\ cs' = 8 /\ UNCHANGED <<doing, over>>
      /\ returns' = Append(returns, [cs |-> cs, ss |-> ss])
  BY DEF G!Interrupt, G!On, G!kernel_cs, stack
<1>2. returns # <<>> /\ (over.what = "program" <=> returns[1].cs = 27)
  BY <1>1, Parts
<1>3. returns' # <<>> /\ returns'[1] = returns[1]
  BY <1>1, <1>2, Parts
<1> QED
  BY <1>1, <1>2, <1>3 DEF Linked, G!On, F!DivideError

\* Every step keeps stack and segments together.
LEMMA StepLinked == ASSUME UIInv, [Next]_vars PROVE Linked'
<1> USE DEF G!On, G!Loaded
<1>1. CASE Setup
  <2>1. /\ pc \in 1 .. 8 /\ UNCHANGED <<doing, fault, vector, returns>>
        /\ pc' = 8 => cs' = 8
        /\ pc' = 9 => cs' = cs /\ pc = 8
    BY <1>1, Parts DEF Setup, G!createGdt, G!setGdt, G!ltr, G!Written, G!Loaded, G!Entries,
       stack, exception
  <2>2. doing = "main" /\ fault = "code" /\ returns = <<>>
    BY <2>1, Parts DEF UIInv, G!GIInv, G!ContextsHold
  <2>3. pc = 8 => cs = 8
    BY DEF UIInv, Linked, G!Loaded
  <2> QED
    BY <2>1, <2>2, <2>3 DEF Linked, G!Loaded
<1>2. CASE KernelMain
  <2>1. /\ UNCHANGED <<pc, cs, returns, fault, vector>> /\ pc = 9 /\ fault = "code"
        /\ doing \in {"main", "command"} /\ doing' \in {"main", "command", "overrun"}
    BY <1>2 DEF KernelMain, Free, S!Command, S!Done, S!Take, segments, exception
  <2> QED
    BY <2>1, Parts DEF Linked
<1>3. CASE jump_usermode
  <2>1. /\ UNCHANGED <<pc, returns, fault, vector>> /\ pc = 9 /\ fault = "code"
        /\ returns = <<>> /\ cs' = 27 /\ doing' = "program"
    BY <1>3 DEF jump_usermode, Free, G!jump_usermode, S!jump_usermode, exception
  <2> QED
    BY <2>1 DEF Linked
<1>4. CASE Interrupt
  <2>1. fault = "code" /\ UNCHANGED <<fault, vector>> /\ G!Interrupt
    BY <1>4 DEF Interrupt, exception
  <2>2. CASE S!Handle
    BY <2>1, <2>2, EnterLinked
  <2>3. CASE doing = "handler" /\ over.what = "program" /\ UNCHANGED stack
    BY <2>1, <2>3, HandlerInterrupted
  <2> QED
    BY <1>4, <2>2, <2>3 DEF Interrupt
<1>5. CASE Iret
  <2>1. fault = "code" /\ UNCHANGED <<fault, vector>> /\ G!Iret /\ doing = "handler"
    BY <1>5 DEF Iret, exception
  <2>2. CASE Len(returns) = 1 /\ S!Iret
    BY <2>1, <2>2, LeaveLinked
  <2>3. CASE Len(returns) = 2 /\ UNCHANGED stack
    <3>1. pc = 9 /\ pc' = 9 /\ UNCHANGED <<doing, over>>
      BY <2>1, <2>3 DEF G!Iret, stack
    <3>2. Len(returns') = 1 /\ returns'[1] = returns[1] /\ cs' = returns[2].cs
      BY <2>1, <2>3, IretGIInv DEF UIInv
    <3>3. returns' # <<>>
      BY <3>2, EmptySeq
    <3> QED
      BY <2>1, <3>1, <3>2, <3>3, Parts DEF Linked
  <2> QED
    BY <1>5, <2>2, <2>3 DEF Iret
<1>6. CASE kernel_return
  <2>1. /\ pc = 9 /\ pc' = 9 /\ fault = "code" /\ UNCHANGED <<fault, vector>>
        /\ cs' = 8 /\ returns' = <<>> /\ doing' \in {"main", "overrun"}
    BY <1>6 DEF kernel_return, Free, G!kernel_return, S!kernel_return, S!Take, exception
  <2> QED
    BY <2>1 DEF Linked
<1>7. CASE \E v \in F!Exceptions, code \in Codes, eip \in Places, address \in Addresses :
              Raise(v, code, eip, address)
  <2>1. PICK v \in F!Exceptions, code \in Codes, eip \in Places, address \in Addresses :
            Raise(v, code, eip, address)
    BY <1>7
  <2>2. G!Interrupt /\ fault' = "stub" /\ vector' = v
    BY <2>1 DEF Raise, F!Raise
  <2>3. CASE S!Handle
    BY <2>2, <2>3, EnterLinked
  <2>4. CASE v = F!PageFault /\ doing = "handler" /\ over.what = "program" /\ UNCHANGED stack
    <3>1. vector' = 14
      BY <2>2, <2>4 DEF F!PageFault
    <3> QED
      BY <2>2, <2>4, <3>1, HandlerInterrupted
  <2> QED
    BY <2>1, <2>3, <2>4 DEF Raise
<1>8. CASE Deliver
  <2>1. doing # "overrun"
    BY <1>8 DEF Deliver
  <2>2. CASE F!DivideStub /\ G!Iret /\ S!Iret
    <3>1. fault' = "code" /\ fault = "stub" /\ vector = 0 /\ returns # <<>>
      BY <2>2 DEF F!DivideStub, F!DivideError, G!Iret
    <3>2. Len(returns) \in Nat /\ Len(returns) <= 1
      BY <3>1, Parts
    <3>3. Len(returns) # 0
      <4>1. returns \in Seq([cs : G!Selectors, ss : G!Selectors])
        BY Parts
      <4> QED
        BY <4>1, <3>1, EmptySeq
    <3>4. \A n \in Nat : n <= 1 /\ n # 0 => n = 1
      OBVIOUS
    <3>5. Len(returns) = 1
      BY <3>2, <3>3, <3>4
    <3> QED
      BY <2>2, <3>1, <3>5, LeaveLinked
  <2>3. CASE F!gpf_handler /\ G!Interrupt /\ UNCHANGED stack
    <3>1. fault = "gpf_handler" /\ fault' = "stub" /\ vector' = 14
      BY <2>3 DEF F!gpf_handler, F!PageFault
    <3>2. doing = "handler"
      BY <2>1, <3>1, Parts
    <3> QED
      BY <2>3, <3>1, <3>2, HandlerInterrupted
  <2>4. CASE (F!GpfStub \/ F!OtherStub \/ F!exception_handler) /\ UNCHANGED <<segments, stack>>
    <3>1. fault # "code" /\ fault' \notin {"code", "stub"}
      BY <2>4 DEF F!GpfStub, F!OtherStub, F!exception_handler, F!Ends
    <3>2. UNCHANGED <<pc, cs, returns, doing, over>>
      BY <2>4 DEF segments, stack
    <3> QED
      BY <3>1, <3>2, Parts DEF Linked
  <2> QED
    BY <1>8, <2>2, <2>3, <2>4 DEF Deliver
<1>9. CASE UNCHANGED vars
  BY <1>9 DEF vars, segments, stack, exception, UIInv, Linked
<1> QED
  BY <1>1, <1>2, <1>3, <1>4, <1>5, <1>6, <1>7, <1>8, <1>9 DEF Next

LEMMA StepUIInv == UIInv /\ [Next]_vars => UIInv'
<1> SUFFICES ASSUME UIInv, [Next]_vars PROVE UIInv'
  OBVIOUS
<1>1. [G!Next]_segments /\ [S!Next]_stack /\ [F!Next]_exception
  BY StepOfParts
<1> QED
  BY <1>1, StepGIInv, StepSIInv, StepFIInv, StepLinked DEF UIInv

\* Segments, stack and exceptions go together through every order of programs,
\* commands, interrupts, system calls and exceptions.
THEOREM PartsGoTogether == Spec => []UIInv
<1>1. Init => UIInv
  BY InitUIInv
<1>2. UIInv /\ [Next]_vars => UIInv'
  BY StepUIInv
<1> QED
  BY <1>1, <1>2, PTL DEF Spec

\* The CPU takes every selector that is ever loaded, at the right privilege.
THEOREM SelectorsTaken == Spec => []SegmentsHold
<1>1. UIInv => SegmentsHold
  BY SegmentsFollow DEF UIInv, SegmentsHold
<1> QED
  BY <1>1, PartsGoTogether, PTL

\* What a program interrupts finds its stack.
THEOREM StackFound == Spec => []StackIsFound
<1>1. UIInv => StackIsFound
  <2> SUFFICES ASSUME UIInv PROVE StackIsFound
    OBVIOUS
  <2>1. G!StackIsFound
    BY SegmentsFollow DEF UIInv
  <2>2. ASSUME pc = 9 PROVE doing = "program" <=> cs % 4 = 3
    <3>1. cs = 8 \/ cs = 27
      BY <2>2, Loaded, Contexts DEF UIInv, G!Written
    <3>2. returns # <<>> => cs = 8
      BY <2>2, Loaded DEF UIInv, G!Written, G!Running, G!Kernels
    <3>3. doing = "program" <=> cs = 27
      BY <2>2, <3>1, <3>2, Parts
    <3> QED
      BY <3>1, <3>3
  <2> QED
    BY <2>1, <2>2 DEF StackIsFound, G!On, G!Privilege
<1> QED
  BY <1>1, PartsGoTogether, PTL

\* A program costs the stack one frame for good, and nothing else does.
THEOREM OneFrameEach == Spec => []ProgramCostsOneFrame
<1>1. UIInv => ProgramCostsOneFrame
  <2> SUFFICES ASSUME UIInv PROVE ProgramCostsOneFrame
    OBVIOUS
  <2>1. TypeOK
    BY DEF UIInv, G!GIInv, S!SIInv, F!FIInv, TypeOK
  <2>2. G!KernelHasItsData
    BY SegmentsFollow DEF UIInv
  <2>3. S!ProgramCostsOneFrame /\ S!OverrunOnlyAfterRuns
    BY DEF UIInv, S!SIInv, S!FramesHold, S!Frames, S!ProgramCostsOneFrame
  <2> QED
    BY <2>1, <2>2, <2>3 DEF ProgramCostsOneFrame
<1> QED
  BY <1>1, PartsGoTogether, PTL

\* The screen names the exception, and a division leaves nothing behind.
THEOREM FaultNamed == Spec => []NamesTheFault
<1>1. UIInv => NamesTheFault
  BY DEF UIInv, F!FIInv, NamesTheFault
<1> QED
  BY <1>1, PartsGoTogether, PTL
==============================================================================
