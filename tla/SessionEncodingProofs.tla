----------------------- MODULE SessionEncodingProofs -----------------------
(***************************************************************************)
(* Proofs that the encodings of SessionEncoding are unambiguous, for all   *)
(* byte strings: a field is a prefix code, so that two messages of the     *)
(* same labels can be taken apart field by field.                          *)
(***************************************************************************)
EXTENDS SessionEncoding, SequenceTheorems, TLAPS

Labels == Names \cup Domains \cup Modes \cup Purposes

\* Byte strings and their concatenation, named so that the proofs below can use
\* the few laws of concatenation they need and nothing else about sequences.
Strings == Seq(Byte)
Cat(s, t) == s \o t

-----------------------------------------------------------------------------
\* The lengths.

LEMMA U32Type ==
    ASSUME NEW n \in Nat, n \div 65536 < 65536
    PROVE  U32(n) \in Seq(Byte) /\ Len(U32(n)) = 4
  <1>1. n \div 16777216 \in Byte
    BY DEF Byte
  <1>2. (n \div 65536) % 256 \in Byte /\ (n \div 256) % 256 \in Byte /\ n % 256 \in Byte
    BY DEF Byte
  <1> QED BY <1>1, <1>2 DEF U32

LEMMA U32Injective ==
    ASSUME NEW m \in Nat, NEW n \in Nat, U32(m) = U32(n)
    PROVE  m = n
  <1>1. /\ m \div 16777216 = n \div 16777216
        /\ (m \div 65536) % 256 = (n \div 65536) % 256
        /\ (m \div 256) % 256 = (n \div 256) % 256
        /\ m % 256 = n % 256
    BY DEF U32
  <1> QED BY <1>1

LEMMA U16Type ==
    ASSUME NEW n \in Nat, n < 65536
    PROVE  U16(n) \in Seq(Byte)
  <1>1. n \div 256 \in Byte /\ n % 256 \in Byte
    BY DEF Byte
  <1> QED BY <1>1 DEF U16

-----------------------------------------------------------------------------
\* Fields.

LEMMA FieldType ==
    ASSUME NEW name \in Labels, NEW value \in Bytes
    PROVE  Field(name, value) \in Seq(Byte)
  <1>1. Label[name] \in Seq(Byte) /\ Len(Label[name]) \in Nat /\ Len(Label[name]) < 65536
    BY LabelAssumption, LenProperties DEF Labels, Short
  <1>2. U16(Len(Label[name])) \in Seq(Byte)
    BY <1>1, U16Type
  <1>3. value \in Seq(Byte) /\ Len(value) \in Nat /\ Len(value) \div 65536 < 65536
    BY LenProperties DEF Bytes
  <1>4. U32(Len(value)) \in Seq(Byte)
    BY <1>3, U32Type
  <1>5. U32(Len(value)) \o value \in Seq(Byte)
    BY <1>3, <1>4, ConcatProperties
  <1>6. Label[name] \o (U32(Len(value)) \o value) \in Seq(Byte)
    BY <1>1, <1>5, ConcatProperties
  <1> QED BY <1>2, <1>6, ConcatProperties DEF Field

-----------------------------------------------------------------------------
\* The laws of concatenation.

LEMMA CatType ==
    ASSUME NEW s \in Strings, NEW t \in Strings
    PROVE  Cat(s, t) \in Strings
  BY ConcatProperties DEF Strings, Cat

LEMMA CatAssociates ==
    ASSUME NEW s \in Strings, NEW t \in Strings, NEW u \in Strings
    PROVE  Cat(Cat(s, t), u) = Cat(s, Cat(t, u))
  BY ConcatAssociative DEF Strings, Cat

\* Strings of the same length in front of equal strings are equal.
LEMMA CatCancels ==
    ASSUME NEW s \in Strings, NEW t \in Strings, NEW u \in Strings, NEW v \in Strings,
           Len(s) = Len(t), Cat(s, u) = Cat(t, v)
    PROVE  s = t /\ u = v
  <1> USE DEF Strings, Cat
  <1>1. Len(s) \in Nat /\ Len(t) \in Nat /\ Len(u) \in Nat /\ Len(v) \in Nat
    BY LenProperties
  <1>2. /\ \A i \in 1..(Len(s) + Len(u)) :
             (s \o u)[i] = IF i <= Len(s) THEN s[i] ELSE u[i - Len(s)]
        /\ \A i \in 1..(Len(t) + Len(v)) :
             (t \o v)[i] = IF i <= Len(t) THEN t[i] ELSE v[i - Len(t)]
    BY ConcatProperties
  <1>3. \A i \in 1..Len(s) : s[i] = t[i]
    BY <1>1, <1>2
  <1>4. s = t
    BY <1>3, SeqEqual
  <1>5. s \o u = s \o v
    BY <1>4
  <1>6. u = v
    BY <1>5, ConcatSimplifications
  <1> QED BY <1>4, <1>6

-----------------------------------------------------------------------------
\* The heart of the matter: a field says where it ends.

LEMMA FieldFirst ==
    ASSUME NEW h \in Strings, NEW l \in Strings, NEW n \in Strings,
           NEW v \in Strings, NEW r \in Strings
    PROVE  /\ Cat(n, Cat(v, r)) \in Strings
           /\ Cat(l, Cat(n, Cat(v, r))) \in Strings
           /\ Cat(v, r) \in Strings
           /\ Cat(Cat(h, Cat(l, Cat(n, v))), r) = Cat(h, Cat(l, Cat(n, Cat(v, r))))
  <1>1. Cat(n, v) \in Strings /\ Cat(v, r) \in Strings
    BY CatType
  <1>2. Cat(l, Cat(n, v)) \in Strings /\ Cat(n, Cat(v, r)) \in Strings
    BY <1>1, CatType
  <1>3. Cat(l, Cat(n, Cat(v, r))) \in Strings
    BY <1>2, CatType
  <1>4. Cat(Cat(h, Cat(l, Cat(n, v))), r) = Cat(h, Cat(Cat(l, Cat(n, v)), r))
    BY <1>2, CatAssociates
  <1>5. Cat(Cat(l, Cat(n, v)), r) = Cat(l, Cat(Cat(n, v), r))
    BY <1>1, CatAssociates
  <1>6. Cat(Cat(n, v), r) = Cat(n, Cat(v, r))
    BY CatAssociates
  <1> QED BY <1>1, <1>2, <1>3, <1>4, <1>5, <1>6

LEMMA WithType ==
    ASSUME NEW name \in Labels, NEW value \in Bytes, NEW rest \in Strings
    PROVE  With(name, value, rest) \in Strings
  BY FieldType, CatType DEF With, Strings, Cat

LEMMA WithCancels ==
    ASSUME NEW name, NEW v, NEW w, NEW r, NEW q,
           With(name, v, r) = With(name, w, q),
           name \in Labels, v \in Bytes, w \in Bytes, r \in Strings, q \in Strings
    PROVE  v = w /\ r = q
  <1> DEFINE head == U16(Len(Label[name]))
             label == Label[name]
             lv == U32(Len(v))
             lw == U32(Len(w))
  <1>1. label \in Strings /\ Len(label) \in Nat /\ Len(label) < 65536
    BY LabelAssumption, LenProperties DEF Labels, Short, Strings
  <1>2. head \in Strings
    BY <1>1, U16Type DEF Strings
  <1>3. /\ v \in Strings /\ Len(v) \in Nat /\ Len(v) \div 65536 < 65536
        /\ w \in Strings /\ Len(w) \in Nat /\ Len(w) \div 65536 < 65536
    BY LenProperties DEF Bytes, Strings
  <1>4. lv \in Strings /\ Len(lv) = 4 /\ lw \in Strings /\ Len(lw) = 4
    BY <1>3, U32Type DEF Strings
  <1>5. Cat(Cat(head, Cat(label, Cat(lv, v))), r) = Cat(Cat(head, Cat(label, Cat(lw, w))), q)
    BY DEF With, Field, Cat
  <1>6. lv = lw => Len(v) = Len(w)
    BY <1>3, U32Injective
  <1> HIDE DEF head, label, lv, lw
  <1>7. /\ Cat(lv, Cat(v, r)) \in Strings /\ Cat(label, Cat(lv, Cat(v, r))) \in Strings
        /\ Cat(v, r) \in Strings
        /\ Cat(Cat(head, Cat(label, Cat(lv, v))), r) =
               Cat(head, Cat(label, Cat(lv, Cat(v, r))))
    BY <1>1, <1>2, <1>3, <1>4, FieldFirst
  <1>8. /\ Cat(lw, Cat(w, q)) \in Strings /\ Cat(label, Cat(lw, Cat(w, q))) \in Strings
        /\ Cat(w, q) \in Strings
        /\ Cat(Cat(head, Cat(label, Cat(lw, w))), q) =
               Cat(head, Cat(label, Cat(lw, Cat(w, q))))
    BY <1>1, <1>2, <1>3, <1>4, FieldFirst
  <1>9. Cat(label, Cat(lv, Cat(v, r))) = Cat(label, Cat(lw, Cat(w, q)))
    <2>1. Cat(head, Cat(label, Cat(lv, Cat(v, r)))) =
              Cat(head, Cat(label, Cat(lw, Cat(w, q))))
      BY <1>5, <1>7, <1>8
    <2> QED BY ONLY <1>2, <1>7, <1>8, <2>1, CatCancels
  <1>10. Cat(lv, Cat(v, r)) = Cat(lw, Cat(w, q))
    BY <1>1, <1>7, <1>8, <1>9, CatCancels
  <1>11. lv = lw /\ Cat(v, r) = Cat(w, q)
    BY <1>4, <1>7, <1>8, <1>10, CatCancels
  <1>12. Len(v) = Len(w)
    BY <1>6, <1>11
  <1> QED BY <1>3, <1>11, <1>12, CatCancels

\* A field that ends a message.
LEMMA FieldCancels ==
    ASSUME NEW name \in Labels, NEW v \in Bytes, NEW w \in Bytes,
           Field(name, v) = Field(name, w)
    PROVE  v = w
  <1>1. <<>> \in Strings
    BY DEF Strings
  <1>2. With(name, v, <<>>) = With(name, w, <<>>)
    BY DEF With
  <1> QED BY <1>1, <1>2, WithCancels

-----------------------------------------------------------------------------
\* What the fields hold.

LEMMA EmptyType == <<>> \in Strings /\ <<>> \in Bytes
  BY DEF Strings, Bytes

LEMMA SmallQuotient ==
    ASSUME NEW n \in Nat, n < 65536
    PROVE  n \div 65536 < 65536
  OBVIOUS

LEMMA ShortType ==
    ASSUME NEW s \in Short
    PROVE  s \in Bytes
  <1>1. s \in Seq(Byte) /\ Len(s) \in Nat /\ Len(s) < 65536
    BY LenProperties DEF Short
  <1>2. Len(s) \div 65536 < 65536
    BY <1>1, SmallQuotient
  <1> QED BY <1>1, <1>2 DEF Bytes

LEMMA LabelType ==
    ASSUME NEW name \in Labels
    PROVE  Label[name] \in Bytes
  BY LabelAssumption, ShortType DEF Labels

LEMMA InputTypes ==
    ASSUME NEW in \in Inputs
    PROVE  /\ in.sender \in Bytes /\ in.receiver \in Bytes /\ in.context \in Bytes
           /\ in.pqc_ciphertext \in Bytes /\ in.pqc_secret \in Bytes
           /\ in.qrng_entropy \in Bytes
           /\ Text(in.qkd_secret) \in Bytes /\ Text(in.qkd_epoch) \in Bytes
           /\ Mode(in) \in Modes /\ Label[Mode(in)] \in Bytes
  <1>1. Mode(in) \in Modes
    BY DEF Mode, Modes
  <1>2. Label[Mode(in)] \in Bytes
    BY <1>1, LabelType DEF Labels
  <1> QED BY <1>1, <1>2, EmptyType DEF Inputs, Text

-----------------------------------------------------------------------------
\* Messages, taken apart three fields at a time.

LEMMA ThreeType ==
    ASSUME NEW k \in Labels, NEW l \in Labels, NEW m \in Labels,
           NEW t \in Bytes, NEW u \in Bytes, NEW v \in Bytes, NEW r \in Strings
    PROVE  With(k, t, With(l, u, With(m, v, r))) \in Strings
  <1>1. With(m, v, r) \in Strings
    BY WithType
  <1>2. With(l, u, With(m, v, r)) \in Strings
    BY <1>1, WithType
  <1> QED BY <1>2, WithType

LEMMA ThreeCancel ==
    ASSUME NEW k, NEW l, NEW m, NEW t, NEW u, NEW v, NEW r, NEW x, NEW y, NEW z, NEW q,
           With(k, t, With(l, u, With(m, v, r))) = With(k, x, With(l, y, With(m, z, q))),
           k \in Labels, l \in Labels, m \in Labels,
           t \in Bytes, u \in Bytes, v \in Bytes, r \in Strings,
           x \in Bytes, y \in Bytes, z \in Bytes, q \in Strings
    PROVE  t = x /\ u = y /\ v = z /\ r = q
  <1>1. With(m, v, r) \in Strings /\ With(m, z, q) \in Strings
    BY WithType
  <1>2. With(l, u, With(m, v, r)) \in Strings /\ With(l, y, With(m, z, q)) \in Strings
    BY <1>1, WithType
  <1>3. t = x /\ With(l, u, With(m, v, r)) = With(l, y, With(m, z, q))
    BY <1>2, WithCancels
  <1>4. u = y /\ With(m, v, r) = With(m, z, q)
    BY <1>1, <1>3, WithCancels
  <1>5. v = z /\ r = q
    BY <1>4, WithCancels
  <1> QED BY <1>3, <1>4, <1>5

-----------------------------------------------------------------------------
\* Equal transcripts: a session id fixes everything but the secrets.
LEMMA TranscriptCancels ==
    ASSUME NEW a \in Inputs, NEW b \in Inputs, Transcript(a) = Transcript(b)
    PROVE  Public(a) = Public(b)
  <1> DEFINE domain == Label["QSC-HYBRID-SESSION-KEY/v1"]
             E(x) == With("qkd-epoch", Text(x.qkd_epoch), <<>>)
             M(x) == With("mode", Label[Mode(x)],
                     With("kem-ct", x.pqc_ciphertext,
                     With("context", x.context, E(x))))
  <1>1. /\ "domain" \in Labels /\ "sender" \in Labels /\ "receiver" \in Labels
        /\ "mode" \in Labels /\ "kem-ct" \in Labels /\ "context" \in Labels
        /\ "qkd-epoch" \in Labels /\ domain \in Bytes
    BY LabelType DEF Labels, Names, Domains
  <1>2. /\ a.sender \in Bytes /\ a.receiver \in Bytes /\ Label[Mode(a)] \in Bytes
        /\ a.pqc_ciphertext \in Bytes /\ a.context \in Bytes
        /\ Text(a.qkd_epoch) \in Bytes /\ Mode(a) \in Modes
    BY InputTypes
  <1>3. /\ b.sender \in Bytes /\ b.receiver \in Bytes /\ Label[Mode(b)] \in Bytes
        /\ b.pqc_ciphertext \in Bytes /\ b.context \in Bytes
        /\ Text(b.qkd_epoch) \in Bytes /\ Mode(b) \in Modes
    BY InputTypes
  <1>4. E(a) \in Strings /\ E(b) \in Strings
    BY <1>1, <1>2, <1>3, EmptyType, WithType
  <1>5. M(a) \in Strings /\ M(b) \in Strings
    <2> HIDE DEF E
    <2> QED BY <1>1, <1>2, <1>3, <1>4, ThreeType
  <1>6. With("domain", domain, With("sender", a.sender, With("receiver", a.receiver, M(a))))
            = With("domain", domain,
                   With("sender", b.sender, With("receiver", b.receiver, M(b))))
    BY DEF Transcript
  <1>7. a.sender = b.sender /\ a.receiver = b.receiver /\ M(a) = M(b)
    <2> HIDE DEF M, domain
    <2> QED BY ONLY <1>1, <1>2, <1>3, <1>5, <1>6, ThreeCancel
  <1>8. /\ Label[Mode(a)] = Label[Mode(b)] /\ a.pqc_ciphertext = b.pqc_ciphertext
        /\ a.context = b.context /\ E(a) = E(b)
    <2> HIDE DEF E
    <2> QED BY ONLY <1>1, <1>2, <1>3, <1>4, <1>7, ThreeCancel DEF M
  <1>9. Text(a.qkd_epoch) = Text(b.qkd_epoch)
    BY ONLY <1>1, <1>2, <1>3, <1>8, EmptyType, WithCancels
  <1>10. Mode(a) = Mode(b)
    BY <1>2, <1>3, <1>8, LabelAssumption DEF Distinct
  <1> QED BY <1>7, <1>8, <1>9, <1>10 DEF Public

\* Equal signed requests.
LEMMA AuthCancels ==
    ASSUME NEW a \in Inputs, NEW b \in Inputs,
           SessionAuthMessage(a) = SessionAuthMessage(b)
    PROVE  Signed(a) = Signed(b)
  <1> DEFINE domain == Label["QSC-SESSION-AUTH/v1"]
             E(x) == With("qkd-epoch", Text(x.qkd_epoch), <<>>)
             C(x) == With("context", x.context,
                     With("kem-ct", x.pqc_ciphertext,
                     With("qrng-entropy", x.qrng_entropy, E(x))))
  <1>1. /\ "domain" \in Labels /\ "sender" \in Labels /\ "receiver" \in Labels
        /\ "context" \in Labels /\ "kem-ct" \in Labels /\ "qrng-entropy" \in Labels
        /\ "qkd-epoch" \in Labels /\ domain \in Bytes
    BY LabelType DEF Labels, Names, Domains
  <1>2. /\ a.sender \in Bytes /\ a.receiver \in Bytes /\ a.context \in Bytes
        /\ a.pqc_ciphertext \in Bytes /\ a.qrng_entropy \in Bytes
        /\ Text(a.qkd_epoch) \in Bytes
    BY InputTypes
  <1>3. /\ b.sender \in Bytes /\ b.receiver \in Bytes /\ b.context \in Bytes
        /\ b.pqc_ciphertext \in Bytes /\ b.qrng_entropy \in Bytes
        /\ Text(b.qkd_epoch) \in Bytes
    BY InputTypes
  <1>4. E(a) \in Strings /\ E(b) \in Strings
    BY <1>1, <1>2, <1>3, EmptyType, WithType
  <1>5. C(a) \in Strings /\ C(b) \in Strings
    <2> HIDE DEF E
    <2> QED BY <1>1, <1>2, <1>3, <1>4, ThreeType
  <1>6. With("domain", domain, With("sender", a.sender, With("receiver", a.receiver, C(a))))
            = With("domain", domain,
                   With("sender", b.sender, With("receiver", b.receiver, C(b))))
    BY DEF SessionAuthMessage
  <1>7. a.sender = b.sender /\ a.receiver = b.receiver /\ C(a) = C(b)
    <2> HIDE DEF C, domain
    <2> QED BY ONLY <1>1, <1>2, <1>3, <1>5, <1>6, ThreeCancel
  <1>8. /\ a.context = b.context /\ a.pqc_ciphertext = b.pqc_ciphertext
        /\ a.qrng_entropy = b.qrng_entropy /\ E(a) = E(b)
    <2> HIDE DEF E
    <2> QED BY ONLY <1>1, <1>2, <1>3, <1>4, <1>7, ThreeCancel DEF C
  <1>9. Text(a.qkd_epoch) = Text(b.qkd_epoch)
    BY ONLY <1>1, <1>2, <1>3, <1>8, EmptyType, WithCancels
  <1> QED BY <1>7, <1>8, <1>9 DEF Signed

\* What is behind the domain, which differs, does not matter.
LEMMA AuthIsNoTranscript ==
    ASSUME NEW a \in Inputs, NEW b \in Inputs
    PROVE  SessionAuthMessage(a) # Transcript(b)
  <1> DEFINE domain == Label["QSC-SESSION-AUTH/v1"]
             other == Label["QSC-HYBRID-SESSION-KEY/v1"]
             R7(x) == With("qkd-epoch", Text(x.qkd_epoch), <<>>)
             A == With("sender", a.sender,
                  With("receiver", a.receiver,
                  With("context", a.context,
                  With("kem-ct", a.pqc_ciphertext,
                  With("qrng-entropy", a.qrng_entropy, R7(a))))))
             B == With("sender", b.sender,
                  With("receiver", b.receiver,
                  With("mode", Label[Mode(b)],
                  With("kem-ct", b.pqc_ciphertext,
                  With("context", b.context, R7(b))))))
  <1>1. /\ "domain" \in Labels /\ "sender" \in Labels /\ "receiver" \in Labels
        /\ "mode" \in Labels /\ "kem-ct" \in Labels /\ "context" \in Labels
        /\ "qkd-epoch" \in Labels /\ "qrng-entropy" \in Labels
    BY DEF Labels, Names
  <1>2. domain \in Bytes /\ other \in Bytes /\ domain # other
    BY LabelType, LabelAssumption DEF Distinct, Domains, Labels
  <1>3. A \in Strings
    BY <1>1, InputTypes, EmptyType, WithType
  <1>4. B \in Strings
    BY <1>1, InputTypes, EmptyType, WithType
  <1>5. SUFFICES ASSUME SessionAuthMessage(a) = Transcript(b)
                 PROVE  FALSE
    OBVIOUS
  <1>6. With("domain", domain, A) = With("domain", other, B)
    BY <1>5 DEF SessionAuthMessage, Transcript
  <1> HIDE DEF A, B, domain, other
  <1> QED BY <1>1, <1>2, <1>3, <1>4, <1>6, WithCancels

LEMMA MaterialCancels ==
    ASSUME NEW a \in Inputs, NEW b \in Inputs, KeyMaterial(a) = KeyMaterial(b)
    PROVE  /\ a.pqc_secret = b.pqc_secret
           /\ Text(a.qkd_secret) = Text(b.qkd_secret)
           /\ a.qrng_entropy = b.qrng_entropy
  <1>1. "pqc-secret" \in Labels /\ "qkd-secret" \in Labels /\ "qrng-entropy" \in Labels
    BY DEF Labels, Names
  <1>2. /\ a.pqc_secret \in Bytes /\ Text(a.qkd_secret) \in Bytes
        /\ a.qrng_entropy \in Bytes
    BY InputTypes
  <1>3. /\ b.pqc_secret \in Bytes /\ Text(b.qkd_secret) \in Bytes
        /\ b.qrng_entropy \in Bytes
    BY InputTypes
  <1> QED BY <1>1, <1>2, <1>3, EmptyType, ThreeCancel DEF KeyMaterial

-----------------------------------------------------------------------------
\* A session key stands for everything it was derived from: the parties, the
\* mode, the ciphertext, the context, the epoch and the three secrets.
THEOREM KeysSeparateHolds == KeysSeparate
  <1>1. SUFFICES ASSUME NEW a \in Compared, NEW b \in Compared,
                        DeriveSessionKey(a).key = DeriveSessionKey(b).key
                 PROVE  Normal(a) = Normal(b)
    BY DEF KeysSeparate
  <1>2. a \in Inputs /\ b \in Inputs
    BY ComparedAssumption
  <1>3. Transcript(a) = Transcript(b) /\ KeyMaterial(a) = KeyMaterial(b)
    BY <1>1 DEF DeriveSessionKey
  <1>4. Public(a) = Public(b)
    BY <1>2, <1>3, TranscriptCancels
  <1>5. /\ a.sender = b.sender /\ a.receiver = b.receiver /\ Mode(a) = Mode(b)
        /\ a.pqc_ciphertext = b.pqc_ciphertext /\ a.context = b.context
        /\ Text(a.qkd_epoch) = Text(b.qkd_epoch)
    BY <1>4 DEF Public
  <1>6. /\ a.pqc_secret = b.pqc_secret /\ a.qrng_entropy = b.qrng_entropy
        /\ Text(a.qkd_secret) = Text(b.qkd_secret)
    BY <1>2, <1>3, MaterialCancels
  <1>7. a.qkd_secret = b.qkd_secret
    BY <1>5, <1>6 DEF Mode, Text
  <1> QED BY <1>2, <1>5, <1>6, <1>7 DEF Normal, Inputs

\* A session id, the digest of the transcript that the two ends compare, stands
\* for the parties, the mode, the ciphertext, the context and the epoch.
THEOREM SessionIdsSeparateHolds == SessionIdsSeparate
  <1>1. SUFFICES ASSUME NEW a \in Compared, NEW b \in Compared,
                        DeriveSessionKey(a).transcript_hash
                            = DeriveSessionKey(b).transcript_hash
                 PROVE  Public(a) = Public(b)
    BY DEF SessionIdsSeparate
  <1>2. Transcript(a) = Transcript(b)
    BY <1>1 DEF DeriveSessionKey
  <1> QED BY <1>2, ComparedAssumption, TranscriptCancels

\* A signature over a session request covers the request's public inputs and
\* its entropy, and cannot be taken for anything signed over a transcript.
THEOREM SignaturesSeparateHolds == SignaturesSeparate
  BY ComparedAssumption, AuthCancels, AuthIsNoTranscript DEF SignaturesSeparate

-----------------------------------------------------------------------------
\* What a bootstrap message holds behind its purpose.
Body(p, v) ==
    With(LabelsOf[p][1], v[1], With(LabelsOf[p][2], v[2], With(LabelsOf[p][3], v[3],
        IF Len(LabelsOf[p]) = 4 THEN Field(LabelsOf[p][4], v[4]) ELSE <<>>)))

LEMMA LabelsOfType ==
    ASSUME NEW p \in Purposes
    PROVE  /\ LabelsOf[p][1] \in Labels /\ LabelsOf[p][2] \in Labels
           /\ LabelsOf[p][3] \in Labels
           /\ \/ Len(LabelsOf[p]) = 3 /\ DOMAIN LabelsOf[p] = 1..3
              \/ /\ Len(LabelsOf[p]) = 4 /\ DOMAIN LabelsOf[p] = 1..4
                 /\ LabelsOf[p][4] \in Labels
  <1>1. CASE p = "worker-handshake"
    <2>1. LabelsOf[p] = <<"agent_id", "challenge", "kem_public_key", "public_key">>
      BY <1>1 DEF LabelsOf, Purposes
    <2> QED BY <2>1 DEF Labels, Names
  <1>2. CASE p = "orchestrator-registration"
    <2>1. LabelsOf[p] = <<"nonce", "public_key", "sender_id">>
      BY <1>2 DEF LabelsOf, Purposes
    <2> QED BY <2>1 DEF Labels, Names
  <1>3. CASE p = "session-teardown"
    <2>1. LabelsOf[p] = <<"nonce", "sender_id", "session_id">>
      BY <1>3 DEF LabelsOf, Purposes
    <2> QED BY <2>1 DEF Labels, Names
  <1>4. CASE p = "client-delegation"
    <2>1. LabelsOf[p] = <<"client_id", "nonce", "request_sha256">>
      BY <1>4 DEF LabelsOf, Purposes
    <2> QED BY <2>1 DEF Labels, Names
  <1> QED BY <1>1, <1>2, <1>3, <1>4 DEF Purposes

LEMMA BodyType ==
    ASSUME NEW p \in Purposes, NEW v \in Values(p, Bytes)
    PROVE  Body(p, v) \in Strings
  <1>1. v[1] \in Bytes /\ v[2] \in Bytes /\ v[3] \in Bytes
    BY LabelsOfType DEF Values
  <1>2. (IF Len(LabelsOf[p]) = 4 THEN Field(LabelsOf[p][4], v[4]) ELSE <<>>) \in Strings
    <2>1. CASE Len(LabelsOf[p]) = 4
      <3>1. v[4] \in Bytes /\ LabelsOf[p][4] \in Labels
        BY <2>1, LabelsOfType DEF Values
      <3> QED BY <2>1, <3>1, FieldType DEF Strings
    <2>2. CASE Len(LabelsOf[p]) # 4
      BY <2>2, EmptyType
    <2> QED BY <2>1, <2>2
  <1> QED BY <1>1, <1>2, LabelsOfType, ThreeType DEF Body

LEMMA BodyCancels ==
    ASSUME NEW p \in Purposes, NEW v \in Values(p, Bytes), NEW w \in Values(p, Bytes),
           Body(p, v) = Body(p, w)
    PROVE  v = w
  <1> DEFINE Last(x) == IF Len(LabelsOf[p]) = 4 THEN Field(LabelsOf[p][4], x[4]) ELSE <<>>
  <1>1. /\ v[1] \in Bytes /\ v[2] \in Bytes /\ v[3] \in Bytes
        /\ w[1] \in Bytes /\ w[2] \in Bytes /\ w[3] \in Bytes
    BY LabelsOfType DEF Values
  <1>2. ASSUME Len(LabelsOf[p]) = 4
        PROVE  v[4] \in Bytes /\ w[4] \in Bytes /\ LabelsOf[p][4] \in Labels
    BY <1>2, LabelsOfType DEF Values
  <1>3. Last(v) \in Strings /\ Last(w) \in Strings
    <2>1. CASE Len(LabelsOf[p]) = 4
      BY <1>2, <2>1, FieldType DEF Strings
    <2>2. CASE Len(LabelsOf[p]) # 4
      BY <2>2, EmptyType
    <2> QED BY <2>1, <2>2
  <1>4. v[1] = w[1] /\ v[2] = w[2] /\ v[3] = w[3] /\ Last(v) = Last(w)
    <2>1. With(LabelsOf[p][1], v[1],
              With(LabelsOf[p][2], v[2], With(LabelsOf[p][3], v[3], Last(v))))
          = With(LabelsOf[p][1], w[1],
              With(LabelsOf[p][2], w[2], With(LabelsOf[p][3], w[3], Last(w))))
      BY DEF Body
    <2> HIDE DEF Last
    <2> QED BY <1>1, <1>3, <2>1, LabelsOfType, ThreeCancel
  <1>5. ASSUME Len(LabelsOf[p]) = 4
        PROVE  v[4] = w[4]
    BY <1>2, <1>4, <1>5, FieldCancels
  <1> QED BY <1>4, <1>5, LabelsOfType DEF Values

\* A bootstrap proof is good for one purpose and one tuple of fields.
THEOREM ProofsSeparateHolds == ProofsSeparate
  <1>1. SUFFICES ASSUME NEW p \in Purposes, NEW q \in Purposes,
                        NEW v \in Values(p, Fields), NEW w \in Values(q, Fields),
                        BootstrapMessage(p, v) = BootstrapMessage(q, w)
                 PROVE  p = q /\ v = w
    BY DEF ProofsSeparate
  <1> DEFINE domain == Label["QSC-HTTP-BOOTSTRAP/v1"]
  <1>2. v \in Values(p, Bytes) /\ w \in Values(q, Bytes)
    BY ComparedAssumption DEF Values
  <1>3. Body(p, v) \in Strings /\ Body(q, w) \in Strings
    BY <1>2, BodyType
  <1>4. /\ "domain" \in Labels /\ "purpose" \in Labels /\ domain \in Bytes
        /\ Label[p] \in Bytes /\ Label[q] \in Bytes
    BY LabelType DEF Labels, Names, Domains
  <1>5. With("domain", domain, With("purpose", Label[p], Body(p, v)))
            = With("domain", domain, With("purpose", Label[q], Body(q, w)))
    BY <1>1 DEF BootstrapMessage, Body
  <1>6. /\ With("purpose", Label[p], Body(p, v)) \in Strings
        /\ With("purpose", Label[q], Body(q, w)) \in Strings
    BY <1>3, <1>4, WithType
  <1>7. With("purpose", Label[p], Body(p, v)) = With("purpose", Label[q], Body(q, w))
    BY <1>4, <1>5, <1>6, WithCancels
  <1>8. Label[p] = Label[q] /\ Body(p, v) = Body(q, w)
    BY <1>3, <1>4, <1>7, WithCancels
  <1>9. p = q
    BY <1>8, LabelAssumption DEF Distinct
  <1> QED BY <1>2, <1>8, <1>9, BodyCancels

\* Everything that is hashed, signed or proved stands for the values it was
\* built from, for all byte strings.
THEOREM UnambiguousHolds == Unambiguous
  BY KeysSeparateHolds, SessionIdsSeparateHolds, SignaturesSeparateHolds,
     ProofsSeparateHolds DEF Unambiguous

=============================================================================
