---------------------------- MODULE SettingsCipher ----------------------------
(***************************************************************************)
(* How a text is encrypted for the editor's settings (SimpleCrypt):        *)
(* compressed if that is shorter, a random byte and a check value in front,*)
(* each byte mixed with the key and with the byte written before it.       *)
(*                                                                         *)
(* A byte is the set of its bits.  The library's compression and check     *)
(* values are constants: what matters is that the one can be undone and    *)
(* how long the others are.  Base64 and UTF-8 around it are left out.      *)
(***************************************************************************)
EXTENDS Integers, Sequences

CONSTANTS
    BitsOfByte,
    KeyParts,                    \* m_keyParts, eight bytes
    Texts,                       \* the texts that may be encrypted
    Compress(_), Uncompress(_),  \* qCompress, qUncompress
    Checksum(_), Hash(_),        \* qChecksum, QCryptographicHash
    Compression,                 \* m_compressionMode
    Protection                   \* m_protectionMode

Byte == SUBSET BitsOfByte
Bodies == Texts \union {Compress(w) : w \in Texts}

ASSUME KeyAssumption == KeyParts \in Seq(Byte) /\ Len(KeyParts) = 8

ASSUME ModesAssumption ==
    /\ Compression \in {"always", "auto", "never"}
    /\ Protection \in {"checksum", "hash", "none"}

ASSUME LibraryAssumption ==
    /\ \A w \in Texts : w \in Seq(Byte)
    /\ \A w \in Texts : Compress(w) \in Seq(Byte) /\ Uncompress(Compress(w)) = w
    /\ \A b \in Bodies : /\ Checksum(b) \in Seq(Byte) /\ Len(Checksum(b)) = 2
                         /\ Hash(b) \in Seq(Byte) /\ Len(Hash(b)) = 20

Xor(a, b) == (a \ b) \union (b \ a)
NoBits == {}

\* splitKey: the key is used from its first byte to its eighth, and again.
KeyAt(i) == KeyParts[((i - 1) % 8) + 1]

\* encryptToByteArray, the loop: mixed[i] is lastChar after i bytes.
Chained(w) ==
    LET mixed[i \in 0 .. Len(w)] ==
            IF i = 0 THEN NoBits ELSE Xor(Xor(w[i], KeyAt(i)), mixed[i - 1])
    IN  [i \in 1 .. Len(w) |-> mixed[i]]

\* Mutant: lastChar is the byte as it is after mixing.
UnchainedWithPlain(c) ==
    LET mixed[i \in 0 .. Len(c)] ==
            IF i = 0 THEN NoBits ELSE Xor(Xor(c[i], mixed[i - 1]), KeyAt(i))
    IN  [i \in 1 .. Len(c) |-> mixed[i]]

\* decryptToByteArray, the loop.
Unchained(c) ==
    [i \in 1 .. Len(c) |-> Xor(Xor(c[i], IF i = 1 THEN NoBits ELSE c[i - 1]), KeyAt(i))]

CheckValue(kind, b) ==
    CASE kind = "checksum" -> Checksum(b)
      [] kind = "hash" -> Hash(b)
      [] kind = "none" -> <<>>

CheckLength(kind) ==
    CASE kind = "checksum" -> 2
      [] kind = "hash" -> 20
      [] kind = "none" -> 0

Compressed(w) ==
    \/ Compression = "always"
    \/ Compression = "auto" /\ Len(Compress(w)) < Len(w)

\* encryptToByteArray: the version, the flags, and the bytes after them.
Encrypt(w, random) ==
    LET body == IF Compressed(w) THEN Compress(w) ELSE w
    IN  [version |-> 3, compressed |-> Compressed(w), kind |-> Protection,
         bytes |-> Chained(<<random>> \o (CheckValue(Protection, body) \o body))]

\* The empty text, in place of an encrypted one.
NoCypher == [version |-> 0, compressed |-> FALSE, kind |-> "none", bytes |-> <<>>]

\* decryptToByteArray: what is too short, of another version or has a wrong
\* check value is the empty text.
Decrypt(cypher) ==
    LET w == Tail(Unchained(cypher.bytes))
        length == CheckLength(cypher.kind)
        body == SubSeq(w, length + 1, Len(w))
    IN  IF \/ cypher.bytes = <<>> \/ cypher.version # 3
           \/ Len(w) < length
           \/ SubSeq(w, 1, length) # CheckValue(cypher.kind, body)
        THEN <<>>
        ELSE IF cypher.compressed THEN Uncompress(body) ELSE body
==============================================================================
