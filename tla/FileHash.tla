-------------------------------- MODULE FileHash --------------------------------
(***************************************************************************)
(* GetSHA256FromFile of the luafilemanager library: the file is read byte  *)
(* by byte into a buffer of 100, which goes to sha256_update when it is    *)
(* full; sha256_update cuts what it is given into blocks of 64 and keeps   *)
(* the remainder; sha256_finish adds the padding and the length.  The      *)
(* compression of a block is left out: what matters is which bytes get     *)
(* into which block.                                                       *)
(*                                                                         *)
(* A byte is a pair of what it comes from and a number.                    *)
(***************************************************************************)
EXTENDS Naturals, Sequences

CONSTANT Lengths  \* bound: the lengths of the files that are hashed

ASSUME LengthsAssumption == Lengths \subseteq Nat

FileByte(n) == <<"file", n>>   \* byte n of the file
EOFByte == <<"EOF", 0>>        \* EOF in a char
Padding(n) == IF n = 1 THEN <<"pad", 128>> ELSE <<"pad", 0>>
BitCount(n) == <<"bits", n>>   \* one of the 8 bytes of 8 * n

VARIABLES
  length,     \* of the file
  hashPc,     \* reading, then the two updates of sha256_finish, or done
  nTotal,     \* calls of fgetc
  buffer,     \* the bytes read and not yet hashed
  size,       \* the value returned
  total,      \* sha256_context::total, the 64 bits of it
  context,    \* sha256_context::buffer
  processed,  \* history: the blocks given to sha256_process, in a row
  msglen      \* local of sha256_finish: the total its last 8 bytes tell

hashVars ==
  <<length, hashPc, nTotal, buffer, size, total, context, processed, msglen>>

HashInit ==
  /\ length = 0 /\ hashPc = "done" /\ nTotal = 0 /\ buffer = <<>> /\ size = 0
  /\ total = 0 /\ context = [k \in 1 .. 64 |-> EOFByte] /\ processed = <<>>
  /\ msglen = 0

-----------------------------------------------------------------------------
(* sha256_update.                                                          *)

\* Mutant: a full block that begins in the context goes without it.
sha256_updateDirect(input) ==
  LET left == total % 64
      whole == Len(input) - (Len(input) % 64)
  IN /\ total' = total + Len(input)
     /\ processed' = processed \o SubSeq(input, 1, whole)
     /\ context' = [k \in 1 .. 64 |->
          IF k > left /\ k <= left + Len(input) - whole
            THEN input[whole + k - left] ELSE context[k]]

\* A block that was begun is filled up if the input suffices; whole blocks of
\* the input follow, and the remainder is kept.
sha256_update(input) ==
  LET left == total % 64
      fill == 64 - left
      joined == left > 0 /\ Len(input) >= fill
      from == IF joined THEN fill ELSE 0
      remainder == (Len(input) - from) % 64
      whole == Len(input) - remainder
      at == IF joined THEN 0 ELSE left
  IN /\ total' = total + Len(input)
     /\ processed' = processed
          \o (IF joined THEN SubSeq(context, 1, left) ELSE <<>>)
          \o SubSeq(input, 1, whole)
     /\ context' = [k \in 1 .. 64 |->
          IF k \in at + 1 .. at + remainder THEN input[whole + k - at]
          ELSE context[k]]

-----------------------------------------------------------------------------
(* GetSHA256FromFile.                                                      *)

\* fopen or calloc fails: the caller's digest is left as it is.
HashFails ==
  /\ hashPc = "done"
  /\ \E n \in Lengths : length' = n
  /\ processed' = <<>> /\ size' = 0
  /\ UNCHANGED <<hashPc, nTotal, buffer, total, context, msglen>>

\* sha256_starts, on a context that calloc cleared.
HashStarts ==
  /\ hashPc = "done"
  /\ \E n \in Lengths : length' = n
  /\ hashPc' = "read" /\ nTotal' = 0 /\ buffer' = <<>> /\ size' = 0
  /\ total' = 0 /\ processed' = <<>> /\ msglen' = 0
  /\ context' = [k \in 1 .. 64 |-> Padding(2)]

\* feof is true only after a read beyond the end.
AtEnd == nTotal = length + 1

Read == IF nTotal < length THEN FileByte(nTotal + 1) ELSE EOFByte

ReadByte ==
  /\ hashPc = "read" /\ ~AtEnd
  /\ nTotal' = nTotal + 1
  /\ IF Len(buffer) = 99
       THEN /\ sha256_update(Append(buffer, Read))
            /\ buffer' = <<>>
       ELSE /\ buffer' = Append(buffer, Read)
            /\ UNCHANGED <<total, processed, context>>
  /\ UNCHANGED <<length, hashPc, size, msglen>>

\* The last byte of the buffer is the end of file; sha256_finish begins.
HashRest ==
  /\ hashPc = "read" /\ AtEnd
  /\ IF buffer # <<>> THEN sha256_update(SubSeq(buffer, 1, Len(buffer) - 1))
     ELSE UNCHANGED <<total, processed, context>>
  /\ msglen' = total' /\ buffer' = <<>> /\ hashPc' = "pad"
  /\ UNCHANGED <<length, nTotal, size>>

padn ==
  LET last == total % 64 IN IF last < 56 THEN 56 - last ELSE 120 - last

Pad ==
  /\ hashPc = "pad"
  /\ sha256_update([k \in 1 .. padn |-> Padding(k)])
  /\ hashPc' = "length"
  /\ UNCHANGED <<length, nTotal, buffer, size, msglen>>

AddLength ==
  /\ hashPc = "length"
  /\ sha256_update([k \in 1 .. 8 |-> BitCount(msglen)])
  /\ size' = nTotal - 1 /\ hashPc' = "done"
  /\ UNCHANGED <<length, nTotal, buffer, msglen>>

HashNext ==
  HashFails \/ HashStarts \/ ReadByte \/ HashRest \/ Pad \/ AddLength

HashSpec == HashInit /\ [][HashNext]_hashVars

-----------------------------------------------------------------------------
\* The message FIPS 180-2 makes of the file: its bytes, a one, zeros, the length.
Message(k, blocks) ==
  CASE k <= length -> FileByte(k)
    [] k > length /\ k <= Len(blocks) - 8 -> Padding(k - length)
    [] OTHER -> BitCount(length)

IsDigest ==
  /\ size = length
  /\ Len(processed) % 64 = 0 /\ Len(processed) \in length + 9 .. length + 72
  /\ \A k \in 1 .. Len(processed) : processed[k] = Message(k, processed)

\* However the chunks of 100 bytes are cut into blocks of 64, a file that was
\* hashed gave every byte to the compression, once and in order, padded to
\* whole blocks, with no block more than that takes; and its size is returned.
\* This is true of the files whose end does not fill the buffer.
DigestOfFile ==
  hashPc = "done" /\ processed # <<>> /\ length % 100 # 99 => IsDigest

\* FileManager.cpp:608: "Fills in hash and returns the size of the file", of any
\* file.  (When the end of file is byte 100 of the buffer, it is hashed too.)
DigestOfAnyFile == hashPc = "done" /\ processed # <<>> => IsDigest
=============================================================================
