-------------------------- MODULE SessionEncoding --------------------------
(***************************************************************************)
(* The byte strings that session keys are derived from, that session       *)
(* requests are signed over and that bootstrap proofs cover                *)
(* (hybrid_session_key.py, bootstrap_auth.py).  A text stands for its      *)
(* UTF-8 encoding.  SHA-256 and HMAC are free of collisions: a digest is   *)
(* the tuple of what was digested.  Every other module relies on what is   *)
(* shown here: a transcript hash, a signature or a proof stands for all of *)
(* the values that went into it.                                           *)
(***************************************************************************)
EXTENDS Integers, Sequences, FiniteSets

CONSTANTS
    Label,      \* the labels, domains, modes and purposes below, in bytes
    Compared,   \* inputs of sessions that the properties compare with each other
    Fields,     \* ... and values of bootstrap fields
    NONE        \* Python's None

Byte == 0..255
Names == {"domain", "sender", "receiver", "mode", "kem-ct", "context", "qkd-epoch",
          "qrng-entropy", "pqc-secret", "qkd-secret", "purpose",
          "agent_id", "challenge", "kem_public_key", "public_key", "nonce",
          "sender_id", "session_id", "client_id", "request_sha256"}
Domains == {"QSC-HYBRID-SESSION-KEY/v1", "QSC-SESSION-AUTH/v1", "QSC-HTTP-BOOTSTRAP/v1"}
Modes == {"pqc+qkd+qrng", "pqc+qrng"}
Purposes == {"worker-handshake", "orchestrator-registration", "session-teardown",
             "client-delegation"}

\* What struct.pack can give a length to; it raises for anything longer.
Short == {s \in Seq(Byte) : Len(s) < 65536}
Bytes == {s \in Seq(Byte) : Len(s) \div 65536 < 65536}

Distinct(names) == \A m, n \in names : Label[m] = Label[n] => m = n

ASSUME LabelAssumption ==
    /\ Label \in [Names \cup Domains \cup Modes \cup Purposes -> Short]
    /\ Distinct(Domains) /\ Distinct(Modes) /\ Distinct(Purposes)

ASSUME NoneAssumption == NONE \notin Seq(Byte)

-----------------------------------------------------------------------------
\* _field: both lengths in big-endian order.
U16(n) == <<n \div 256, n % 256>>
U32(n) == <<n \div 16777216, (n \div 65536) % 256, (n \div 256) % 256, n % 256>>

Field(name, value) ==
    U16(Len(Label[name])) \o (Label[name] \o (U32(Len(value)) \o value))

\* A field in front of the rest of the message.
With(name, value, rest) == Field(name, value) \o rest

\* "value or empty".
Text(value) == IF value = NONE THEN <<>> ELSE value

-----------------------------------------------------------------------------
\* What goes into a session key.
Inputs == [sender : Bytes, receiver : Bytes, context : Bytes, pqc_ciphertext : Bytes,
           pqc_secret : Bytes, qrng_entropy : Bytes, qkd_secret : Bytes \cup {NONE},
           qkd_epoch : Bytes \cup {NONE}]

ASSUME ComparedAssumption == Compared \subseteq Inputs /\ Fields \subseteq Bytes

\* The inputs that derive_session_key does not refuse.
Derivable(in) ==
    /\ <<>> \notin {in.pqc_secret, in.pqc_ciphertext, in.sender, in.receiver, in.context}
    /\ in.sender # in.receiver
    /\ in.qkd_secret # NONE => Text(in.qkd_epoch) # <<>>

Mode(in) == IF in.qkd_secret # NONE THEN "pqc+qkd+qrng" ELSE "pqc+qrng"

\* Seeded fault: the session id does not depend on the ciphertext.
TranscriptOfParties(in) ==
    With("domain", Label["QSC-HYBRID-SESSION-KEY/v1"],
    With("sender", in.sender,
    With("receiver", in.receiver,
    With("mode", Label[Mode(in)],
    With("context", in.context,
    With("qkd-epoch", Text(in.qkd_epoch), <<>>))))))

Transcript(in) ==
    With("domain", Label["QSC-HYBRID-SESSION-KEY/v1"],
    With("sender", in.sender,
    With("receiver", in.receiver,
    With("mode", Label[Mode(in)],
    With("kem-ct", in.pqc_ciphertext,
    With("context", in.context,
    With("qkd-epoch", Text(in.qkd_epoch), <<>>)))))))

KeyMaterial(in) ==
    With("pqc-secret", in.pqc_secret,
    With("qkd-secret", Text(in.qkd_secret),
    With("qrng-entropy", in.qrng_entropy, <<>>)))

\* The salt of the key is a digest of the transcript.
DeriveSessionKey(in) == [key |-> <<Transcript(in), KeyMaterial(in)>>,
                         mode |-> Mode(in),
                         transcript_hash |-> <<Transcript(in)>>]

\* What the sender signs: no mode, and no secret.
SessionAuthMessage(in) ==
    With("domain", Label["QSC-SESSION-AUTH/v1"],
    With("sender", in.sender,
    With("receiver", in.receiver,
    With("context", in.context,
    With("kem-ct", in.pqc_ciphertext,
    With("qrng-entropy", in.qrng_entropy,
    With("qkd-epoch", Text(in.qkd_epoch), <<>>)))))))

-----------------------------------------------------------------------------
\* The fields that the servers pass with each purpose, in the order of sorted.
LabelsOf ==
    [p \in Purposes |->
        CASE p = "worker-handshake" ->
                <<"agent_id", "challenge", "kem_public_key", "public_key">>
          [] p = "orchestrator-registration" -> <<"nonce", "public_key", "sender_id">>
          [] p = "session-teardown" -> <<"nonce", "sender_id", "session_id">>
          [] p = "client-delegation" -> <<"client_id", "nonce", "request_sha256">>]

\* The fields are a tuple of values in that order.
Values(p, values) == [DOMAIN LabelsOf[p] -> values]

BootstrapMessage(p, v) ==
    LET labels == LabelsOf[p]
        Last == IF Len(labels) = 4 THEN Field(labels[4], v[4]) ELSE <<>>
    IN
    With("domain", Label["QSC-HTTP-BOOTSTRAP/v1"],
    With("purpose", Label[p],
    With(labels[1], v[1], With(labels[2], v[2], With(labels[3], v[3], Last)))))

-----------------------------------------------------------------------------
\* A missing and an empty epoch are encoded alike, and are the only values that
\* are.
Normal(in) == [in EXCEPT !.qkd_epoch = Text(@)]

\* Two sessions have one key only if they agree in everything the key was
\* derived from: no input can take the place of another or be left out.
KeysSeparate ==
    \A a, b \in Compared :
        /\ Derivable(a) /\ Derivable(b)
        /\ DeriveSessionKey(a).key = DeriveSessionKey(b).key
        => Normal(a) = Normal(b)

\* A session id, which the ends compare, fixes everything but the secrets.
Public(in) == [parties |-> <<in.sender, in.receiver>>, mode |-> Mode(in),
               ct |-> in.pqc_ciphertext, context |-> in.context,
               epoch |-> Text(in.qkd_epoch)]

SessionIdsSeparate ==
    \A a, b \in Compared :
        DeriveSessionKey(a).transcript_hash = DeriveSessionKey(b).transcript_hash
            => Public(a) = Public(b)

\* A signature over a session request fixes what the receiver derives from,
\* but for the QKD secret and with it the mode; and it is not a signature over
\* a transcript.
Signed(in) == [parties |-> <<in.sender, in.receiver>>, ct |-> in.pqc_ciphertext,
               context |-> in.context, entropy |-> in.qrng_entropy,
               epoch |-> Text(in.qkd_epoch)]

SignaturesSeparate ==
    \A a, b \in Compared :
        /\ SessionAuthMessage(a) = SessionAuthMessage(b) => Signed(a) = Signed(b)
        /\ SessionAuthMessage(a) # Transcript(b)

\* A bootstrap proof is a proof of one purpose and one tuple of fields.
ProofsSeparate ==
    \A p, q \in Purposes :
        \A v \in Values(p, Fields), w \in Values(q, Fields) :
            BootstrapMessage(p, v) = BootstrapMessage(q, w) => p = q /\ v = w

\* Each byte string that is hashed, signed or proved stands for the values it
\* was built from (the "unambiguous length prefix" of _field).
Unambiguous == /\ KeysSeparate
               /\ SessionIdsSeparate
               /\ SignaturesSeparate
               /\ ProofsSeparate
=============================================================================
