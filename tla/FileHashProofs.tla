----------------------------- MODULE FileHashProofs -----------------------------
(***************************************************************************)
(* For files of any length: what GetSHA256FromFile gives to the            *)
(* compression.  Byte k of the message made so far is in the blocks or in  *)
(* the context, at a place that sha256_update moves it from; the lemma     *)
(* UpdateFacts says that it keeps every byte and appends its input, and    *)
(* the rest of the proof is arithmetic on the lengths.                     *)
(***************************************************************************)
EXTENDS FileHash, Integers, TLAPS

Bytes == {"file", "EOF", "pad", "bits"} \X Nat

\* What is hashed of the file: when the end of file is the byte that fills the
\* buffer, it is hashed as a byte of the file.
Hashed == IF length % 100 = 99 THEN length + 1 ELSE length

MessageHashed(k, blocks) ==
  CASE k <= length -> FileByte(k)
    [] k > length /\ k <= Hashed -> EOFByte
    [] k > Hashed /\ k <= Len(blocks) - 8 -> Padding(k - Hashed)
    [] OTHER -> BitCount(Hashed)

Digested ==
  hashPc = "done" /\ processed # <<>> =>
    /\ size = length
    /\ Len(processed) % 64 = 0
    /\ Len(processed) \in Hashed + 9 .. Hashed + 72
    /\ \A k \in 1 .. Len(processed) : processed[k] = MessageHashed(k, processed)

\* Byte k of what sha256_update was given so far.
At(k) ==
  IF k <= Len(processed) THEN processed[k] ELSE context[k - Len(processed)]

\* Byte k of what fgetc returns.
Stream(k) == IF k <= length THEN FileByte(k) ELSE EOFByte

ContextShape == context \in [1 .. 64 -> Bytes]

Shape ==
  /\ total \in Nat /\ processed \in Seq(Bytes) /\ ContextShape
  /\ Len(processed) = total - (total % 64)

-----------------------------------------------------------------------------
(* sha256_update.                                                          *)

\* Arithmetic: m bytes after n, of which l are in a block that was begun.
LEMMA ModFacts ==
  ASSUME NEW n \in Nat
  PROVE  n % 64 \in 0 .. 63 /\ n % 64 <= n
OBVIOUS

LEMMA Filled ==
  ASSUME NEW n \in Nat, NEW m \in Nat, NEW l \in Nat, l = n % 64, m >= 64 - l,
         NEW r \in Nat, r = (m - (64 - l)) % 64
  PROVE  /\ r \in 0 .. 63 /\ r <= m - (64 - l) /\ m - r \in 0 .. m
         /\ (n + m) % 64 = r
<1>1. l \in 0 .. 63
  BY ModFacts
<1>2. m - (64 - l) \in Nat
  BY <1>1
<1>3. r \in 0 .. 63 /\ r <= m - (64 - l)
  BY <1>2, ModFacts
<1>4. (n + m) % 64 = (m - (64 - (n % 64))) % 64
  BY <1>1
<1>5. m - r \in 0 .. m
  BY <1>1, <1>3
<1> QED BY <1>3, <1>4, <1>5

LEMMA NotFilled ==
  ASSUME NEW n \in Nat, NEW m \in Nat, NEW l \in Nat, l = n % 64, m < 64 - l
  PROVE  m % 64 = m /\ (n + m) % 64 = l + m
<1>1. n % 64 \in 0 .. 63
  BY ModFacts
<1>2. (n + m) % 64 = (n % 64) + m
  BY <1>1
<1>3. m % 64 = m
  BY <1>1
<1> QED BY <1>2, <1>3

LEMMA Whole ==
  ASSUME NEW n \in Nat, NEW m \in Nat, n % 64 = 0
  PROVE  (n + m) % 64 = m % 64
OBVIOUS

\* Sequences.
LEMMA Beginning ==
  ASSUME NEW B, NEW c \in [1 .. 64 -> B], NEW n \in 0 .. 63
  PROVE  /\ SubSeq(c, 1, n) \in Seq(B) /\ Len(SubSeq(c, 1, n)) = n
         /\ \A k \in 1 .. n : SubSeq(c, 1, n)[k] = c[k]
OBVIOUS

LEMMA Prefix ==
  ASSUME NEW B, NEW s \in Seq(B), NEW n \in 0 .. Len(s)
  PROVE  /\ SubSeq(s, 1, n) \in Seq(B) /\ Len(SubSeq(s, 1, n)) = n
         /\ \A k \in 1 .. n : SubSeq(s, 1, n)[k] = s[k]
OBVIOUS

LEMMA Joined ==
  ASSUME NEW B, NEW s \in Seq(B), NEW t \in Seq(B)
  PROVE  /\ s \o t \in Seq(B) /\ Len(s \o t) = Len(s) + Len(t)
         /\ \A k \in 1 .. Len(s) : (s \o t)[k] = s[k]
         /\ \A k \in 1 .. Len(t) : (s \o t)[Len(s) + k] = t[k]
OBVIOUS

IsBytes(s) == s \in Seq(Bytes)

\* y is x and the first w bytes of input.
Extends(y, x, input, w) ==
  /\ IsBytes(y) /\ Len(y) = Len(x) + w
  /\ \A k \in 1 .. Len(x) : y[k] = x[k]
  /\ \A k \in 1 .. w : y[Len(x) + k] = input[k]

LEMMA Appended ==
  ASSUME NEW x, IsBytes(x), NEW input, IsBytes(input), NEW w \in Nat,
         w <= Len(input)
  PROVE  Extends(x \o SubSeq(input, 1, w), x, input, w)
<1>1. x \in Seq(Bytes) /\ input \in Seq(Bytes)
  BY DEF IsBytes
<1>2. w \in 0 .. Len(input)
  BY <1>1
<1>3. /\ SubSeq(input, 1, w) \in Seq(Bytes) /\ Len(SubSeq(input, 1, w)) = w
      /\ \A k \in 1 .. w : SubSeq(input, 1, w)[k] = input[k]
  BY <1>1, <1>2, Prefix
<1> DEFINE y == x \o SubSeq(input, 1, w)
<1>4. /\ y \in Seq(Bytes) /\ Len(y) = Len(x) + Len(SubSeq(input, 1, w))
      /\ \A k \in 1 .. Len(x) : y[k] = x[k]
      /\ \A k \in 1 .. Len(SubSeq(input, 1, w)) :
           y[Len(x) + k] = SubSeq(input, 1, w)[k]
  BY <1>1, <1>3, Joined
<1> HIDE DEF y
<1>5. Extends(y, x, input, w)
  BY <1>3, <1>4 DEF Extends, IsBytes
<1> QED BY <1>5 DEF y

\* The message made is that of before, n bytes, and the input, m bytes.
Feeds(input, n, m) ==
  /\ Shape' /\ total' = n + m
  /\ \A k \in 1 .. n : At(k)' = At(k)
  /\ \A k \in 1 .. m : At(n + k)' = input[k]

BlocksTake(input, n, w) ==
  /\ IsBytes(processed') /\ Len(processed') = n + w
  /\ \A k \in 1 .. n : processed'[k] = At(k)
  /\ \A k \in 1 .. w : processed'[n + k] = input[k]

ContextTakes(input, w, at, r) ==
  /\ ContextShape' /\ \A k \in 1 .. at : context'[k] = context[k]
  /\ \A k \in 1 .. r : context'[at + k] = input[w + k]

CopiedTo(input, w, at, r) ==
  context' = [k \in 1 .. 64 |->
    IF k \in at + 1 .. at + r THEN input[w + k - at] ELSE context[k]]

\* What is left of the input is copied into the context.
LEMMA Remainder ==
  ASSUME ContextShape, NEW input, IsBytes(input), NEW at \in 0 .. 63,
         NEW r \in 0 .. 63, at + r < 64, NEW w \in Nat, Len(input) = w + r,
         CopiedTo(input, w, at, r)
  PROVE  ContextTakes(input, w, at, r)
<1>1. \A k \in 1 .. w + r : input[k] \in Bytes
  BY DEF IsBytes
<1>2. \A k \in 1 .. 64 : context[k] \in Bytes
  BY DEF ContextShape
<1>3. ASSUME NEW k \in 1 .. 64, k \in at + 1 .. at + r
      PROVE  context'[k] = input[w + k - at]
  BY <1>3 DEF CopiedTo
<1>4. ASSUME NEW k \in 1 .. 64, k \notin at + 1 .. at + r
      PROVE  context'[k] = context[k]
  BY <1>4 DEF CopiedTo
<1>5. ASSUME NEW k \in 1 .. 64
      PROVE  context'[k] \in Bytes
  <2>1. CASE k \in at + 1 .. at + r
    <3>1. w + k - at \in 1 .. w + r
      BY <2>1
    <3> QED BY <1>1, <1>3, <2>1, <3>1
  <2>2. CASE k \notin at + 1 .. at + r
    BY <1>2, <1>4, <2>2
  <2> QED BY <2>1, <2>2
<1>6. ContextShape'
  BY <1>5 DEF ContextShape, CopiedTo
<1>7. ASSUME NEW k \in 1 .. at
      PROVE  context'[k] = context[k]
  <2>1. k \in 1 .. 64 /\ k \notin at + 1 .. at + r
    OBVIOUS
  <2> QED BY <1>4, <2>1
<1>8. ASSUME NEW k \in 1 .. r
      PROVE  context'[at + k] = input[w + k]
  <2>1. /\ at + k \in 1 .. 64 /\ at + k \in at + 1 .. at + r
        /\ w + (at + k) - at = w + k
    OBVIOUS
  <2> QED BY <1>3, <2>1
<1> QED BY <1>6, <1>7, <1>8 DEF ContextTakes

\* When the block begun was filled up, or none was.
LEMMA Refilled ==
  ASSUME NEW n \in Nat, NEW m \in Nat, NEW r \in 0 .. 63, NEW w \in Nat,
         m = w + r, total' = n + m, (n + m) % 64 = r,
         NEW input, BlocksTake(input, n, w), ContextTakes(input, w, 0, r)
  PROVE  Feeds(input, n, m)
<1>0. /\ IsBytes(processed') /\ Len(processed') = n + w
      /\ \A k \in 1 .. n : processed'[k] = At(k)
      /\ \A k \in 1 .. w : processed'[n + k] = input[k]
  BY DEF BlocksTake
<1>c. ContextShape' /\ \A k \in 1 .. r : context'[k] = input[w + k]
  BY DEF ContextTakes
<1>1. Shape'
  <2>1. n + w = (n + m) - r /\ n + m \in Nat
    OBVIOUS
  <2>2. total' \in Nat /\ Len(processed') = total' - (total' % 64)
    BY <1>0, <2>1
  <2> QED BY <1>0, <1>c, <2>2 DEF Shape, IsBytes
<1>2. ASSUME NEW k \in 1 .. n
      PROVE  At(k)' = At(k)
  <2>1. k <= n + w
    OBVIOUS
  <2>2. At(k)' = processed'[k]
    BY <1>0, <2>1 DEF At
  <2> QED BY <1>0, <2>2
<1>3. ASSUME NEW k \in 1 .. m
      PROVE  At(n + k)' = input[k]
  <2>1. CASE k \in 1 .. w
    <3>1. n + k <= n + w
      BY <2>1
    <3>2. At(n + k)' = processed'[n + k]
      BY <1>0, <3>1 DEF At
    <3> QED BY <1>0, <2>1, <3>2
  <2>2. CASE k > w
    <3>1. PICK j \in 1 .. r : j = k - w
      BY <2>2
    <3>2. ~(n + k <= n + w) /\ (n + k) - (n + w) = j /\ k = w + j
      BY <2>2, <3>1
    <3>3. At(n + k)' = context'[(n + k) - (n + w)]
      BY <1>0, <3>2 DEF At
    <3> QED BY <1>c, <3>2, <3>3
  <2>3. k \in 1 .. w \/ k > w
    OBVIOUS
  <2> QED BY <2>1, <2>2, <2>3
<1> QED BY <1>1, <1>2, <1>3 DEF Feeds

\* When it is not filled up, the input goes behind what it holds.
LEMMA Kept ==
  ASSUME NEW n \in Nat, NEW m \in Nat, NEW l \in 0 .. 63, l <= n,
         Len(processed) = n - l, l + m < 64,
         total' = n + m, (n + m) % 64 = l + m,
         NEW input, IsBytes(processed), processed' = processed,
         ContextTakes(input, 0, l, m)
  PROVE  Feeds(input, n, m)
<1>a. /\ ContextShape' /\ \A k \in 1 .. l : context'[k] = context[k]
      /\ \A k \in 1 .. m : context'[l + k] = input[0 + k]
  BY DEF ContextTakes
<1>b. ASSUME NEW k \in 1 .. m
      PROVE  0 + k = k
  OBVIOUS
<1>c. /\ ContextShape' /\ \A k \in 1 .. l : context'[k] = context[k]
      /\ \A k \in 1 .. m : context'[l + k] = input[k]
  BY <1>a, <1>b
<1>1. Shape'
  <2>1. n - l = (n + m) - (l + m) /\ n + m \in Nat
    OBVIOUS
  <2>2. total' \in Nat /\ Len(processed') = total' - (total' % 64)
    BY <2>1
  <2> QED BY <1>c, <2>2 DEF Shape, IsBytes
<1>2. ASSUME NEW k \in 1 .. n
      PROVE  At(k)' = At(k)
  <2>1. CASE k <= n - l
    BY <2>1 DEF At
  <2>2. CASE ~(k <= n - l)
    <3>1. k - (n - l) \in 1 .. l
      BY <2>2
    <3> QED BY <1>c, <2>2, <3>1 DEF At
  <2> QED BY <2>1, <2>2
<1>3. ASSUME NEW k \in 1 .. m
      PROVE  At(n + k)' = input[k]
  <2>1. ~(n + k <= n - l) /\ (n + k) - (n - l) = l + k
    OBVIOUS
  <2> QED BY <1>c, <2>1 DEF At
<1> QED BY <1>1, <1>2, <1>3 DEF Feeds

LEMMA UpdateFacts ==
  ASSUME Shape, NEW input, IsBytes(input), sha256_update(input)
  PROVE  Feeds(input, total, Len(input))
<1>1. PICK n \in Nat, m \in Nat : n = total /\ m = Len(input)
  BY DEF Shape, IsBytes
<1>2. PICK l \in 0 .. 63 : l = n % 64 /\ l <= n
  BY ModFacts
<1>3. IsBytes(processed) /\ ContextShape /\ Len(processed) = n - l
  BY <1>1, <1>2 DEF Shape, IsBytes
<1>4. CASE l > 0 /\ m >= 64 - l
  <2>1. m - (64 - l) \in Nat
    BY <1>4
  <2>2. PICK r \in 0 .. 63 : r = (m - (64 - l)) % 64
    BY <2>1, ModFacts
  <2>3. r <= m - (64 - l) /\ m - r \in 0 .. m /\ (n + m) % 64 = r
    BY <1>2, <1>4, <2>2, Filled
  <2>4. PICK w \in Nat : w = m - r /\ m = w + r /\ w <= m
    BY <2>3
  <2> DEFINE x == processed \o SubSeq(context, 1, l)
  <2>5. /\ total' = n + m /\ processed' = x \o SubSeq(input, 1, w)
        /\ CopiedTo(input, w, 0, r)
    BY <1>1, <1>2, <1>4, <2>2, <2>4 DEF sha256_update, CopiedTo
  <2>6. ContextTakes(input, w, 0, r)
    <3>1. 0 \in 0 .. 63 /\ 0 + r < 64 /\ Len(input) = w + r
      BY <1>1, <2>4
    <3> QED BY <1>3, <2>5, <3>1, Remainder
  <2>7. /\ SubSeq(context, 1, l) \in Seq(Bytes)
        /\ Len(SubSeq(context, 1, l)) = l
        /\ \A k \in 1 .. l : SubSeq(context, 1, l)[k] = context[k]
    BY <1>3, Beginning DEF ContextShape
  <2>8. /\ x \in Seq(Bytes) /\ Len(x) = n
        /\ \A k \in 1 .. n - l : x[k] = processed[k]
        /\ \A k \in 1 .. l : x[(n - l) + k] = context[k]
    <3> DEFINE begun == SubSeq(context, 1, l)
    <3>1. begun \in Seq(Bytes) /\ processed \in Seq(Bytes)
      BY <1>3, <2>7 DEF IsBytes
    <3>2. x = processed \o begun
      OBVIOUS
    <3>3. Len(begun) = l /\ \A k \in 1 .. l : begun[k] = context[k]
      BY <2>7
    <3> HIDE DEF x, begun
    <3>4. /\ x \in Seq(Bytes) /\ Len(x) = Len(processed) + Len(begun)
          /\ \A k \in 1 .. Len(processed) : x[k] = processed[k]
          /\ \A k \in 1 .. Len(begun) : x[Len(processed) + k] = begun[k]
      BY <3>1, <3>2, Joined
    <3>5. Len(processed) = n - l /\ (n - l) + l = n
      BY <1>3
    <3> QED BY <3>3, <3>4, <3>5
  <2> HIDE DEF x
  <2>9. \A k \in 1 .. n : x[k] = At(k)
    BY <1>3, <2>8 DEF At
  <2>10. Extends(processed', x, input, w)
    BY <1>1, <2>4, <2>5, <2>8, Appended DEF IsBytes
  <2>11. BlocksTake(input, n, w)
    BY <2>8, <2>9, <2>10 DEF Extends, BlocksTake
  <2> QED BY <1>1, <2>3, <2>4, <2>5, <2>6, <2>11, Refilled
<1>5. CASE l > 0 /\ ~(m >= 64 - l)
  <2>1. /\ m < 64 - l /\ m % 64 = m /\ (n + m) % 64 = l + m
    BY <1>2, <1>5, NotFilled
  <2>2. m = (m - 0) % 64 /\ m - m = 0
    BY <2>1
  <2>3. /\ total' = n + m
        /\ processed' = processed \o <<>> \o SubSeq(input, 1, 0)
        /\ CopiedTo(input, 0, l, m)
    <3>1. total % 64 = l /\ ~(l > 0 /\ Len(input) >= 64 - l)
      BY <1>1, <1>2, <1>5
    <3>2. (Len(input) - 0) % 64 = m /\ Len(input) - m = 0 /\ Len(input) = m
      BY <1>1, <2>2
    <3>3. total' = n + m
      BY <1>1 DEF sha256_update
    <3>4. processed' = processed \o <<>> \o SubSeq(input, 1, 0)
      BY <1>1, <3>1, <3>2 DEF sha256_update
    <3>5. CopiedTo(input, 0, l, m)
      BY <1>1, <3>1, <3>2 DEF sha256_update, CopiedTo
    <3> QED BY <3>3, <3>4, <3>5
  <2>4. processed' = processed
    BY <1>3, <2>3 DEF IsBytes
  <2>5. m \in 0 .. 63 /\ m = 0 + m /\ l + m < 64 /\ 0 \in Nat
    BY <2>1
  <2>6. ContextTakes(input, 0, l, m)
    BY <1>1, <1>3, <2>3, <2>5, Remainder
  <2> QED BY <1>1, <1>2, <1>3, <2>1, <2>3, <2>4, <2>5, <2>6, Kept
<1>6. CASE l = 0
  <2>1. PICK r \in 0 .. 63 : r = (m - 0) % 64 /\ r = m % 64 /\ r <= m
    BY ModFacts
  <2>2. PICK w \in Nat : w = m - r /\ m = w + r /\ w <= m
    BY <2>1
  <2>3. (n + m) % 64 = r
    BY <1>2, <1>6, <2>1, Whole
  <2>4. /\ total' = n + m
        /\ processed' = processed \o <<>> \o SubSeq(input, 1, w)
        /\ CopiedTo(input, w, 0, r)
    <3>1. total % 64 = 0 /\ ~(total % 64 > 0)
      BY <1>1, <1>2, <1>6
    <3> QED BY <1>1, <2>1, <2>2, <3>1 DEF sha256_update, CopiedTo
  <2>5. ContextTakes(input, w, 0, r)
    <3>1. 0 \in 0 .. 63 /\ 0 + r < 64 /\ Len(input) = w + r
      BY <1>1, <2>2
    <3> QED BY <1>3, <2>4, <3>1, Remainder
  <2>6. Len(processed) = n
    BY <1>3, <1>6
  <2>7. \A k \in 1 .. n : processed[k] = At(k)
    BY <2>6 DEF At
  <2>8. processed' = processed \o SubSeq(input, 1, w)
    BY <1>3, <2>4 DEF IsBytes
  <2>9. Extends(processed', processed, input, w)
    BY <1>1, <1>3, <2>2, <2>8, Appended
  <2>10. BlocksTake(input, n, w)
    BY <2>6, <2>7, <2>9 DEF Extends, BlocksTake
  <2> QED BY <1>1, <2>2, <2>3, <2>4, <2>5, <2>10, Refilled
<1>7. l = 0 \/ l > 0
  OBVIOUS
<1> QED BY <1>4, <1>5, <1>6, <1>7

-----------------------------------------------------------------------------
(* GetSHA256FromFile.                                                      *)

Fed(n) == \A k \in 1 .. n : At(k) = Stream(k)

Buffered == \A k \in 1 .. Len(buffer) : buffer[k] = Stream(total + k)

Reading ==
  hashPc = "read" =>
    /\ Shape /\ IsBytes(buffer) /\ Len(buffer) \in 0 .. 99
    /\ nTotal <= length + 1 /\ nTotal = total + Len(buffer)
    /\ total % 100 = 0 /\ Fed(total) /\ Buffered

Read2Pad ==
  hashPc = "pad" =>
    /\ Shape /\ nTotal = length + 1
    /\ total = Hashed /\ msglen = Hashed /\ Fed(Hashed)

Padded ==
  hashPc = "length" =>
    /\ Shape /\ nTotal = length + 1 /\ msglen = Hashed
    /\ total % 64 = 56 /\ total \in Hashed + 1 .. Hashed + 64 /\ Fed(Hashed)
    /\ \A k \in 1 .. total - Hashed : At(Hashed + k) = Padding(k)

HashTypes ==
  /\ length \in Nat /\ nTotal \in Nat /\ msglen \in Nat
  /\ hashPc \in {"read", "pad", "length", "done"}

HashInv == HashTypes /\ Reading /\ Read2Pad /\ Padded /\ Digested

LEMMA ByteFacts ==
  /\ EOFByte \in Bytes
  /\ \A k \in Nat : FileByte(k) \in Bytes /\ Padding(k) \in Bytes
                    /\ BitCount(k) \in Bytes
BY DEF Bytes, EOFByte, FileByte, Padding, BitCount

LEMMA HashStartsKeeps ==
  ASSUME HashInv, HashStarts
  PROVE  HashInv'
<1>1. /\ hashPc' = "read" /\ nTotal' = 0 /\ buffer' = <<>> /\ total' = 0
      /\ processed' = <<>> /\ msglen' = 0
      /\ context' = [k \in 1 .. 64 |-> Padding(2)]
  BY DEF HashStarts
<1>2. length' \in Nat
  BY LengthsAssumption DEF HashStarts
<1>3. Padding(2) \in Bytes
  BY ByteFacts
<1>4. ContextShape'
  BY <1>1, <1>3 DEF ContextShape
<1>5. Shape'
  BY <1>1, <1>4 DEF Shape
<1>6. Reading'
  <2>1. IsBytes(<<>>) /\ Len(<<>>) = 0
    BY DEF IsBytes
  <2>2. 0 \in 0 .. 99 /\ 0 % 100 = 0 /\ 0 = 0 + 0
    OBVIOUS
  <2>6. 0 <= length' + 1
    <3>1. \A n \in Nat : 0 <= n + 1
      OBVIOUS
    <3> QED BY <1>2, <3>1
  <2>3. Fed(0)'
    BY DEF Fed
  <2>4. Fed(total)'
    BY <1>1, <2>3
  <2>5. Buffered'
    BY <1>1, <2>1 DEF Buffered
  <2> QED BY <1>1, <1>5, <2>1, <2>2, <2>4, <2>5, <2>6 DEF Reading
<1>7. HashTypes'
  BY <1>1, <1>2 DEF HashTypes
<1> QED BY <1>1, <1>6, <1>7 DEF HashInv, Read2Pad, Padded, Digested

LEMMA HashFailsKeeps ==
  ASSUME HashInv, HashFails
  PROVE  HashInv'
<1>1. hashPc' = "done" /\ processed' = <<>> /\ UNCHANGED <<nTotal, msglen>>
  BY DEF HashFails
<1>2. length' \in Nat
  BY LengthsAssumption DEF HashFails
<1>3. HashTypes'
  BY <1>1, <1>2 DEF HashInv, HashTypes
<1> QED BY <1>1, <1>3 DEF HashInv, Reading, Read2Pad, Padded, Digested

\* What is fed next in the order of the file keeps that order.
LEMMA FedOn ==
  ASSUME NEW n \in Nat, NEW m \in Nat, NEW input, Feeds(input, n, m), Fed(n),
         length' = length, \A k \in 1 .. m : input[k] = Stream(n + k)
  PROVE  Fed(n + m)'
<1>1. \A k : Stream(k)' = Stream(k)
  BY DEF Stream
<1>2. ASSUME NEW k \in 1 .. n + m
      PROVE  At(k)' = Stream(k)
  <2>1. CASE k <= n
    <3>1. k \in 1 .. n
      BY <2>1
    <3> QED BY <3>1 DEF Feeds, Fed
  <2>2. CASE k > n
    <3>1. PICK j \in 1 .. m : k = n + j
      <4>1. k - n \in 1 .. m /\ k = n + (k - n)
        BY <2>2
      <4> QED BY <4>1
    <3> QED BY <3>1 DEF Feeds
  <2> QED BY <2>1, <2>2
<1> QED BY <1>1, <1>2 DEF Fed

LEMMA ReadByteKeeps ==
  ASSUME HashInv, ReadByte
  PROVE  HashInv'
<1>1. /\ hashPc = "read" /\ hashPc' = "read" /\ nTotal' = nTotal + 1
      /\ nTotal # length + 1 /\ length' = length /\ msglen' = msglen
  BY DEF ReadByte, AtEnd
<1>2. /\ Shape /\ IsBytes(buffer) /\ Fed(total) /\ Buffered
      /\ total % 100 = 0 /\ nTotal = total + Len(buffer)
      /\ Len(buffer) \in 0 .. 99 /\ nTotal <= length + 1
  BY <1>1 DEF HashInv, Reading
<1>3. PICK n \in Nat, m \in 0 .. 99 : n = total /\ m = Len(buffer)
  BY <1>2 DEF Shape
<1>4. length \in Nat /\ nTotal \in Nat /\ msglen \in Nat
  BY DEF HashInv, HashTypes
<1>5. nTotal = n + m /\ nTotal' = n + (m + 1) /\ nTotal' <= length' + 1
  BY <1>1, <1>2, <1>3, <1>4
<1> DEFINE input == Append(buffer, Read)
<1>6. Read = Stream(n + (m + 1)) /\ Read \in Bytes
  <2>1. n + (m + 1) = nTotal + 1 /\ (nTotal < length <=> nTotal + 1 <= length)
        /\ nTotal + 1 \in Nat
    BY <1>4, <1>5
  <2> QED BY <2>1, ByteFacts DEF Read, Stream
<1>7. /\ input \in Seq(Bytes) /\ Len(input) = m + 1
      /\ \A k \in 1 .. m : input[k] = buffer[k]
      /\ input[m + 1] = Read
  <2>1. buffer \in Seq(Bytes) /\ Len(buffer) = m
    BY <1>2, <1>3 DEF IsBytes
  <2> QED BY <1>6, <2>1
<1> HIDE DEF input
<1>8. \A k \in 1 .. m + 1 : input[k] = Stream(n + k)
  <2>1. ASSUME NEW k \in 1 .. m + 1
        PROVE  input[k] = Stream(n + k)
    <3>1. CASE k \in 1 .. m
      BY <1>2, <1>3, <1>7, <3>1 DEF Buffered
    <3>2. CASE k = m + 1
      BY <1>6, <1>7, <3>2
    <3> QED BY <3>1, <3>2
  <2> QED BY <2>1
<1>9. IsBytes(input)
  BY <1>7 DEF IsBytes
<1>10. CASE m = 99
  <2>1. sha256_update(input) /\ buffer' = <<>>
    BY <1>3, <1>10 DEF ReadByte, input
  <2>2. Feeds(input, n, m + 1)
    BY <1>2, <1>3, <1>7, <1>9, <2>1, UpdateFacts
  <2>3. Fed(n + (m + 1))'
    <3>1. Fed(n) /\ m + 1 \in Nat
      BY <1>2, <1>3
    <3> QED BY <1>1, <1>8, <2>2, <3>1, FedOn
  <2>4. Shape' /\ total' = n + (m + 1)
    BY <2>2 DEF Feeds
  <2>5. (n + (m + 1)) % 100 = 0
    BY <1>2, <1>3, <1>10
  <2>6. Reading'
    BY <1>5, <2>1, <2>3, <2>4, <2>5 DEF Reading, IsBytes, Buffered
  <2>7. HashTypes'
    BY <1>1, <1>4, <1>5 DEF HashTypes
  <2> QED BY <1>1, <2>6, <2>7 DEF HashInv, Read2Pad, Padded, Digested
<1>11. CASE m # 99
  <2>1. buffer' = input /\ UNCHANGED <<total, processed, context>>
    BY <1>3, <1>11 DEF ReadByte, input
  <2>2. Shape' /\ Fed(total)'
    BY <1>1, <1>2, <2>1 DEF Shape, ContextShape, Fed, At, Stream
  <2>3. Buffered'
    BY <1>1, <1>3, <1>7, <1>8, <2>1 DEF Buffered, Stream
  <2>4. /\ Len(buffer') \in 0 .. 99 /\ IsBytes(buffer')
        /\ nTotal' = total' + Len(buffer')
    <3>1. Len(buffer') = m + 1 /\ total' = n
      BY <1>3, <1>7, <2>1
    <3>2. m + 1 \in 0 .. 99
      BY <1>11
    <3> QED BY <1>5, <1>9, <2>1, <3>1, <3>2
  <2>5. Reading'
    BY <1>2, <1>5, <2>1, <2>2, <2>3, <2>4 DEF Reading
  <2>6. HashTypes'
    BY <1>1, <1>4, <1>5 DEF HashTypes
  <2> QED BY <1>1, <2>5, <2>6 DEF HashInv, Read2Pad, Padded, Digested
<1> QED BY <1>10, <1>11
\* The bytes hashed are those of the file, or one more.
LEMMA HashedFacts ==
  ASSUME length \in Nat
  PROVE  Hashed \in Nat /\ length <= Hashed
BY DEF Hashed

LEMMA HashRestKeeps ==
  ASSUME HashInv, HashRest
  PROVE  HashInv'
<1>1. /\ hashPc = "read" /\ hashPc' = "pad" /\ nTotal' = nTotal
      /\ nTotal = length + 1 /\ length' = length /\ msglen' = total'
  BY DEF HashRest, AtEnd
<1>2. /\ Shape /\ IsBytes(buffer) /\ Fed(total) /\ Buffered
      /\ total % 100 = 0 /\ nTotal = total + Len(buffer)
      /\ Len(buffer) \in 0 .. 99
  BY <1>1 DEF HashInv, Reading
<1>3. PICK n \in Nat, b \in 0 .. 99 : n = total /\ b = Len(buffer)
  BY <1>2 DEF Shape
<1>4. length \in Nat /\ nTotal \in Nat
  BY DEF HashInv, HashTypes
<1>5. n + b = length + 1 /\ n % 100 = 0
  BY <1>1, <1>2, <1>3
<1>6. Hashed' = Hashed
  BY <1>1 DEF Hashed
<1>7. Shape' /\ total' = Hashed /\ Fed(total)'
  <2>1. CASE buffer # <<>>
    <3> DEFINE input == SubSeq(buffer, 1, Len(buffer) - 1)
    <3>1. buffer \in Seq(Bytes)
      BY <1>2 DEF IsBytes
    <3>2. b # 0
      BY <1>3, <2>1, <3>1
    <3>3. PICK m \in 0 .. 98 : m = b - 1
      BY <3>2
    <3>4. Len(buffer) - 1 = m /\ m \in 0 .. Len(buffer)
      BY <1>3, <3>3
    <3>5. /\ input \in Seq(Bytes) /\ Len(input) = m
          /\ \A k \in 1 .. m : input[k] = buffer[k]
      BY <3>1, <3>4, Prefix
    <3>6. sha256_update(input)
      BY <2>1 DEF HashRest
    <3> HIDE DEF input
    <3>7. Feeds(input, n, m)
      BY <1>2, <1>3, <3>5, <3>6, UpdateFacts DEF IsBytes
    <3>8. \A k \in 1 .. m : input[k] = Stream(n + k)
      BY <1>2, <1>3, <3>3, <3>5 DEF Buffered
    <3>9. Fed(n + m)'
      <4>1. m \in Nat /\ Fed(n)
        BY <1>2, <1>3
      <4> QED BY <1>1, <3>7, <3>8, <4>1, FedOn
    <3>10. n + m = length /\ length % 100 = m
      BY <1>4, <1>5, <3>3
    <3>11. Hashed = length
      BY <3>10 DEF Hashed
    <3>12. Shape' /\ total' = n + m
      BY <3>7 DEF Feeds
    <3>13. Fed(total)'
      BY <3>9, <3>12
    <3> QED BY <3>10, <3>11, <3>12, <3>13
  <2>2. CASE buffer = <<>>
    <3>1. UNCHANGED <<total, processed, context>>
      BY <2>2 DEF HashRest
    <3>2. b = 0
      BY <1>3, <2>2
    <3>3. length = n - 1 /\ length % 100 = 99
      BY <1>4, <1>5, <3>2
    <3>4. Hashed = n
      BY <1>4, <3>3 DEF Hashed
    <3>5. Shape' /\ Fed(total)'
      BY <1>1, <1>2, <3>1 DEF Shape, ContextShape, Fed, At, Stream
    <3> QED BY <1>3, <3>1, <3>4, <3>5
  <2> QED BY <2>1, <2>2
<1>8. Hashed \in Nat
  BY <1>4, HashedFacts
<1>9. Read2Pad'
  <2>1. total' = Hashed' /\ msglen' = Hashed' /\ nTotal' = length' + 1
    BY <1>1, <1>6, <1>7
  <2>2. Fed(Hashed)'
    BY <1>7, <2>1
  <2> QED BY <1>7, <2>1, <2>2 DEF Read2Pad
<1>10. HashTypes'
  BY <1>1, <1>4, <1>7, <1>8 DEF HashTypes
<1> QED BY <1>1, <1>9, <1>10 DEF HashInv, Reading, Padded, Digested

LEMMA Tabled ==
  ASSUME NEW B, NEW p \in Nat, NEW s \in [1 .. p -> B]
  PROVE  s \in Seq(B) /\ Len(s) = p
OBVIOUS

LEMMA PadFacts ==
  ASSUME NEW n \in Nat, n = total
  PROVE  padn \in 1 .. 64 /\ (n + padn) % 64 = 56
<1>1. PICK l \in 0 .. 63 : l = n % 64
  BY ModFacts
<1>2. CASE l < 56
  <2>1. padn = 56 - l
    BY <1>1, <1>2 DEF padn
  <2>2. (n + (56 - l)) % 64 = 56
    BY <1>1
  <2> QED BY <1>2, <2>1, <2>2
<1>3. CASE ~(l < 56)
  <2>1. padn = 120 - l
    BY <1>1, <1>3 DEF padn
  <2>2. (n + (120 - l)) % 64 = 56
    BY <1>1
  <2> QED BY <1>3, <2>1, <2>2
<1> QED BY <1>2, <1>3

LEMMA PadKeeps ==
  ASSUME HashInv, Pad
  PROVE  HashInv'
<1> DEFINE input == [k \in 1 .. padn |-> Padding(k)]
<1>1. /\ hashPc = "pad" /\ hashPc' = "length" /\ sha256_update(input)
      /\ UNCHANGED <<length, nTotal, msglen>>
  BY DEF Pad
<1>2. /\ Shape /\ nTotal = length + 1 /\ total = Hashed /\ msglen = Hashed
      /\ Fed(Hashed)
  BY <1>1 DEF HashInv, Read2Pad
<1>3. length \in Nat /\ nTotal \in Nat /\ msglen \in Nat
  BY DEF HashInv, HashTypes
<1>4. PICK n \in Nat : n = total
  BY <1>2 DEF Shape
<1>5. PICK p \in 1 .. 64 : p = padn /\ (n + p) % 64 = 56
  BY <1>4, PadFacts
<1>6. IsBytes(input) /\ Len(input) = p /\ \A k \in 1 .. p : input[k] = Padding(k)
  <2>1. \A k \in 1 .. p : Padding(k) \in Bytes
    BY ByteFacts
  <2>2. input \in [1 .. p -> Bytes] /\ \A k \in 1 .. p : input[k] = Padding(k)
    BY <1>5, <2>1
  <2> HIDE DEF input
  <2>3. p \in Nat
    OBVIOUS
  <2> QED BY <2>2, <2>3, Tabled DEF IsBytes
<1> HIDE DEF input
<1>7. Feeds(input, n, p)
  BY <1>1, <1>2, <1>4, <1>6, UpdateFacts
<1>8. Hashed' = Hashed /\ Hashed = n
  BY <1>1, <1>2, <1>4 DEF Hashed
<1>9. Fed(n)'
  BY <1>1, <1>2, <1>7, <1>8 DEF Feeds, Fed, Stream
<1>10. /\ Shape' /\ total' = n + p /\ total' - n = p
       /\ total' % 64 = 56 /\ total' \in n + 1 .. n + 64
  <2>1. Shape' /\ total' = n + p
    BY <1>7 DEF Feeds
  <2>2. (n + p) - n = p /\ n + p \in n + 1 .. n + 64
    OBVIOUS
  <2> QED BY <1>5, <2>1, <2>2
<1>11. \A k \in 1 .. p : At(n + k)' = Padding(k)
  BY <1>6, <1>7 DEF Feeds
<1>12. Padded'
  <2>1. Hashed' = n /\ msglen' = n /\ nTotal' = length' + 1
    BY <1>1, <1>2, <1>8
  <2> QED BY <1>9, <1>10, <1>11, <2>1 DEF Padded
<1>13. HashTypes'
  BY <1>1, <1>3 DEF HashTypes
<1> QED BY <1>1, <1>12, <1>13 DEF HashInv, Reading, Read2Pad, Digested

LEMMA AddLengthKeeps ==
  ASSUME HashInv, AddLength
  PROVE  HashInv'
<1> DEFINE input == [k \in 1 .. 8 |-> BitCount(msglen)]
<1>1. /\ hashPc = "length" /\ hashPc' = "done" /\ sha256_update(input)
      /\ size' = nTotal - 1 /\ UNCHANGED <<length, nTotal, msglen>>
  BY DEF AddLength
<1>2. /\ Shape /\ nTotal = length + 1 /\ msglen = Hashed
      /\ total % 64 = 56 /\ total \in Hashed + 1 .. Hashed + 64 /\ Fed(Hashed)
      /\ \A k \in 1 .. total - Hashed : At(Hashed + k) = Padding(k)
  BY <1>1 DEF HashInv, Padded
<1>3. length \in Nat /\ nTotal \in Nat /\ msglen \in Nat
  BY DEF HashInv, HashTypes
<1>4. PICK n \in Nat, h \in Nat :
        n = total /\ h = Hashed /\ length <= h /\ n \in h + 1 .. h + 64
  BY <1>2, <1>3, HashedFacts DEF Shape
<1>5. /\ IsBytes(input) /\ Len(input) = 8
      /\ \A k \in 1 .. 8 : input[k] = BitCount(h)
  <2>1. BitCount(h) \in Bytes
    BY ByteFacts
  <2>2. input \in [1 .. 8 -> Bytes] /\ \A k \in 1 .. 8 : input[k] = BitCount(h)
    BY <1>2, <1>4, <2>1
  <2> HIDE DEF input
  <2>3. 8 \in Nat
    OBVIOUS
  <2> QED BY <2>2, <2>3, Tabled DEF IsBytes
<1> HIDE DEF input
<1>6. Feeds(input, n, 8)
  BY <1>1, <1>2, <1>4, <1>5, UpdateFacts
<1>7. Shape' /\ total' = n + 8
  BY <1>6 DEF Feeds
<1>8. /\ (n + 8) % 64 = 0 /\ (n + 8) - 0 = n + 8
      /\ n + 8 \in h + 9 .. h + 72
  BY <1>2, <1>4
<1>9. Len(processed') = n + 8
  BY <1>7, <1>8 DEF Shape
<1>10. Hashed' = h
  BY <1>1, <1>4 DEF Hashed
<1>11. ASSUME NEW k \in 1 .. n + 8
       PROVE  processed'[k] = MessageHashed(k, processed)'
  <2>1. processed'[k] = At(k)'
    BY <1>9 DEF At
  <2>2. CASE k <= h
    <3>1. k \in 1 .. n /\ k \in 1 .. h
      BY <1>4, <2>2
    <3>2. At(k)' = Stream(k)
      BY <1>2, <1>4, <1>6, <3>1 DEF Feeds, Fed
    <3>3. CASE k <= length
      <4>1. ~(k > length) /\ ~(k > h)
        BY <1>3, <2>2, <3>3
      <4> QED BY <1>1, <1>10, <2>1, <3>2, <3>3, <4>1 DEF Stream, MessageHashed
    <3>4. CASE ~(k <= length)
      <4>1. k > length
        BY <1>3, <3>4
      <4> QED BY <1>1, <1>10, <2>1, <2>2, <3>2, <3>4, <4>1 DEF Stream, MessageHashed
    <3> QED BY <3>3, <3>4
  <2>3. CASE k > h /\ k <= n
    <3>1. PICK j \in 1 .. n - h : k = h + j /\ j = k - h
      BY <1>4, <2>3
    <3>2. k \in 1 .. n
      BY <2>3
    <3>3. At(k)' = Padding(j)
      BY <1>2, <1>4, <1>6, <3>1, <3>2 DEF Feeds
    <3>4. ~(k <= length) /\ ~(k <= h) /\ k <= (n + 8) - 8
      BY <1>3, <1>4, <2>3
    <3> QED BY <1>1, <1>9, <1>10, <2>1, <2>3, <3>1, <3>3, <3>4 DEF MessageHashed
  <2>4. CASE k > n
    <3>1. PICK j \in 1 .. 8 : k = n + j
      BY <2>4
    <3>2. At(k)' = BitCount(h)
      BY <1>5, <1>6, <3>1 DEF Feeds
    <3>3. ~(k <= length) /\ ~(k <= h) /\ ~(k <= (n + 8) - 8)
      BY <1>3, <1>4, <2>4
    <3> QED BY <1>1, <1>9, <1>10, <2>1, <3>2, <3>3 DEF MessageHashed
  <2> QED BY <2>2, <2>3, <2>4
<1>12. size' = length'
  BY <1>1, <1>2, <1>3
<1>13. Digested'
  BY <1>8, <1>9, <1>10, <1>11, <1>12 DEF Digested
<1>14. HashTypes'
  BY <1>1, <1>3 DEF HashTypes
<1> QED BY <1>1, <1>13, <1>14 DEF HashInv, Reading, Read2Pad, Padded

-----------------------------------------------------------------------------
\* GetSHA256FromFile, for files of every length but 99 modulo 100: the bytes go
\* into the blocks once and in order, with the padding and the length.  (What is
\* hashed of the others is in Digested.)
THEOREM DigestOfFileHolds == HashSpec => []DigestOfFile
<1>1. HashInit => HashInv
  BY DEF HashInit, HashInv, HashTypes, Reading, Read2Pad, Padded, Digested
<1>2. HashInv /\ [HashNext]_hashVars => HashInv'
  <2> SUFFICES ASSUME HashInv, [HashNext]_hashVars
               PROVE  HashInv'
    OBVIOUS
  <2>1. CASE HashFails
    BY <2>1, HashFailsKeeps
  <2>2. CASE HashStarts
    BY <2>2, HashStartsKeeps
  <2>3. CASE ReadByte
    BY <2>3, ReadByteKeeps
  <2>4. CASE HashRest
    BY <2>4, HashRestKeeps
  <2>5. CASE Pad
    BY <2>5, PadKeeps
  <2>6. CASE AddLength
    BY <2>6, AddLengthKeeps
  <2>7. CASE UNCHANGED hashVars
    BY <2>7 DEF hashVars, HashInv, HashTypes, Reading, Read2Pad, Padded,
         Digested, Shape, ContextShape, Fed, Buffered, At, Stream, Hashed,
         MessageHashed, IsBytes
  <2> QED BY <2>1, <2>2, <2>3, <2>4, <2>5, <2>6, <2>7 DEF HashNext
<1>3. HashInv => DigestOfFile
  <2> SUFFICES ASSUME Digested, hashPc = "done", processed # <<>>,
                      length % 100 # 99, length \in Nat
               PROVE  IsDigest
    BY DEF HashInv, HashTypes, DigestOfFile
  <2>1. Hashed = length
    BY DEF Hashed
  <2>2. \A k \in 1 .. Len(processed) :
          MessageHashed(k, processed) = Message(k, processed)
    BY <2>1 DEF MessageHashed, Message
  <2> QED
    BY <2>1, <2>2 DEF Digested, IsDigest
<1> QED BY <1>1, <1>2, <1>3, PTL DEF HashSpec
=============================================================================
