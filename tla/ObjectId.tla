------------------------------ MODULE ObjectId ------------------------------
(***************************************************************************)
(* The opaque id codec of src/security_helpers/object_id.go, as pure       *)
(* operators over byte sequences.  Encode formats "{id}/{tag}/{salt}"      *)
(* with %d, pads it to whole AES blocks with bytes whose value is the pad  *)
(* length (and no pad at all when it is already aligned), encrypts it      *)
(* with AES-CBC under the process-wide key and IV, and base64-encodes it   *)
(* twice (standard, then raw URL).  Decode undoes the two encodings and    *)
(* the cipher, checks the length is whole blocks, does NOT strip the       *)
(* padding (PKCS5UnPadding is commented out), splits on '/', wants exactly *)
(* three fields and parses the first with strconv.ParseUint(_, 10, 64).    *)
(*                                                                         *)
(* AES-CBC with a fixed key and IV and the base64 encodings are modelled   *)
(* by what the codec relies on: each is injective and length-respecting,   *)
(* and its decoder inverts it.  A ciphertext byte is <<Key, plain byte>>,  *)
(* a base64 symbol is <<alphabet, byte>>.  CryptBlocks panics on input     *)
(* that is not whole blocks: Encode then yields <<FALSE, _>>.              *)
(***************************************************************************)
EXTENDS Naturals, Sequences, FiniteSets

CONSTANTS
    Width,      \* bits of the numeric id (uint64 in the code)
    Key         \* the AES_KEY / AES_IV pair read from the environment

Seqs == INSTANCE SequencesExt

BlockSize == 16     \* aes.BlockSize
Slash == 47         \* '/'
Zero == 48          \* '0'

(* Decode's answer on every error path: return 0, "".                     *)
NotDecodable == <<0, <<>>>>

(* fmt.Sprintf("%d", n) for a natural n.                                  *)
RECURSIVE Decimal(_)
Decimal(n) ==
    IF n < 10 THEN <<Zero + n>>
    ELSE Decimal(n \div 10) \o <<Zero + (n % 10)>>

(* strconv.ParseUint(s, 10, Width): an error on an empty string, on a     *)
(* byte that is not a digit, and on a value that does not fit in Width    *)
(* bits; otherwise the value.  An error is <<FALSE, 0>>.                  *)
ParseUint(s) ==
    LET v == Seqs!FoldLeft(LAMBDA acc, d : 10 * acc + (d - Zero), 0, s)
    IN  IF \/ s = <<>>
           \/ \E i \in DOMAIN s : s[i] \notin Zero .. Zero + 9
           \/ v >= 2^Width
        THEN <<FALSE, 0>>
        ELSE <<TRUE, v>>

(* GetAESEncrypted's padding: extendBlock = 16 - len % 16 bytes of value  *)
(* extendBlock, only when the length is not already a multiple of 16.     *)
PadBlockOffByOne(p) ==
    LET r == Len(p) % BlockSize
    IN  IF r = 0 THEN p
        ELSE p \o [i \in 1 .. (BlockSize - r + 1) |-> BlockSize - r]

PadBlock(p) ==
    LET r == Len(p) % BlockSize
    IN  IF r = 0 THEN p
        ELSE p \o [i \in 1 .. (BlockSize - r) |-> BlockSize - r]

(* base64 encoding and decoding over an alphabet.                         *)
Base64(alpha, b) == [i \in DOMAIN b |-> <<alpha, b[i]>>]
Unbase64(t) == [i \in DOMAIN t |-> t[i][2]]

(* GetAESEncrypted: pad, CryptBlocks (panics on a partial block), then    *)
(* base64.StdEncoding.  A panic is <<FALSE, _>>.                         *)
GetAESEncrypted(plaintext) ==
    LET block == PadBlock(plaintext)
    IN  IF Len(block) % BlockSize # 0 THEN <<FALSE, <<>>>>
        ELSE <<TRUE, Base64("std", [i \in DOMAIN block |-> <<Key, block[i]>>])>>

(* GetAESDecrypted: base64.StdEncoding, the whole-blocks check, then      *)
(* CryptBlocks; the padding is left in place.  An error is <<FALSE, _>>.  *)
GetAESDecrypted(encrypted) ==
    LET ciphertext == Unbase64(encrypted)
    IN  IF Len(ciphertext) % BlockSize # 0 THEN <<FALSE, <<>>>>
        ELSE <<TRUE, [i \in DOMAIN ciphertext |-> ciphertext[i][2]]>>

(* Encode(id, object, objectSalt).                                        *)
Encode(id, object, objectSalt) ==
    LET encrypted == GetAESEncrypted(Decimal(id) \o <<Slash>> \o object
                                     \o <<Slash>> \o objectSalt)
    IN  IF ~encrypted[1] THEN encrypted
        ELSE <<TRUE, Base64("url", encrypted[2])>>

(* Decode(encoded): strings.Split on '/' gives one field more than there  *)
(* are separators, so exactly three fields means exactly two slashes,     *)
(* at positions i < j.                                                    *)
Decode(encoded) ==
    LET decrypted == GetAESDecrypted(Unbase64(encoded))
        s         == decrypted[2]
        seps      == {k \in DOMAIN s : s[k] = Slash}
    IN  IF ~decrypted[1] \/ Cardinality(seps) # 2 THEN NotDecodable
        ELSE LET i  == CHOOSE k \in seps : \A q \in seps : k <= q
                 j  == CHOOSE k \in seps : k # i
                 id == ParseUint(SubSeq(s, 1, i - 1))
             IN  IF ~id[1] THEN NotDecodable
                 ELSE <<id[2], SubSeq(s, i + 1, j - 1)>>
============================================================================
