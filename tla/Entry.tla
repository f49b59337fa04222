------------------------------- MODULE Entry --------------------------------
(***************************************************************************)
(* The Entry of store.go and the operations of store.go and crypto.go that *)
(* make and open one.  The empty string of the code is None.               *)
(*                                                                         *)
(* Cryptography is symbolic: a key is what it was derived from, a          *)
(* ciphertext is the key and the text, a hash is the password itself, and  *)
(* decrypting with any other key fails, as AES-GCM does.                   *)
(***************************************************************************)
EXTENDS Integers

CONSTANTS
    Texts,          \* what people write
    Passwords,
    LongPasswords,  \* the passwords over 72 bytes, which bcrypt refuses to hash
    Secrets,        \* TOTP secrets; a code is named by the secret it comes from
    Salts,          \* bound: salts an entry can be given without repeating one
    None,           \* "" and nil
    Failed,         \* an error of DecryptWithPassword
    Torn            \* a string read between the two words of its assignment

CipherKey == [password : Passwords, salt : Salts]
Cipher == [key : CipherKey, text : Texts]

\* begun: the text whose first word an assignment to Text has last put there.
Entries ==
    [text : Texts \cup {None, Torn},
     begun : Texts \cup {None},
     enc : Cipher \cup {None},
     salt : Salts \cup {None},
     protected : BOOLEAN,
     password : Passwords \cup {None},
     totp : Secrets \cup {None}]

ASSUME EntryAssumption ==
    /\ LongPasswords \subseteq Passwords
    /\ None \notin Texts \cup Passwords \cup Secrets \cup Salts
    /\ {Failed, Torn} \cap (Texts \cup {None}) = {}
    /\ Passwords \cap Secrets = {}
    /\ None \notin Cipher /\ None \notin Entries

\* bcrypt reports an error for more than 72 bytes, and hashPassword then
\* returns "".
hashPassword(p) == IF p \in LongPasswords THEN None ELSE p

verifyPassword(hash, p) == hash # None /\ hash = p

ValidateTOTP(secret, code) == code = secret

deriveKey(p, salt) == [password |-> p, salt |-> salt]

encrypt(text, key) == [key |-> key, text |-> text]

decrypt(enc, key) == IF enc.key = key THEN enc.text ELSE Failed

PublicEntry(text) ==
    [text |-> text, begun |-> None, enc |-> None, salt |-> None,
     protected |-> FALSE, password |-> None, totp |-> None]

\* Mutant of PasswordEntry: the text stays in the entry.
PasswordEntryWithText(text, p, salt) ==
    [PublicEntry(text) EXCEPT
        !.enc = encrypt(text, deriveKey(p, salt)), !.salt = salt,
        !.protected = TRUE, !.password = hashPassword(p)]

\* What createEntry stores when it can encrypt, and what it falls back to.
PasswordEntry(text, p, salt) ==
    [PublicEntry(None) EXCEPT
        !.enc = encrypt(text, deriveKey(p, salt)), !.salt = salt,
        !.protected = TRUE, !.password = hashPassword(p)]

\* Mutant of UnsealedEntry: nothing protects it.
UnsealedEntryOpen(text, p) ==
    [PublicEntry(text) EXCEPT !.password = hashPassword(p)]

UnsealedEntry(text, p) ==
    [PublicEntry(text) EXCEPT !.protected = TRUE, !.password = hashPassword(p)]

TotpEntry(text, secret) ==
    [PublicEntry(text) EXCEPT !.protected = TRUE, !.totp = secret]

\* DecryptWithPassword, on a salt and a ciphertext read from an entry.
Unseal(enc, salt, p) ==
    IF None \in {enc, salt} THEN Failed ELSE decrypt(enc, deriveKey(p, salt))

\* What the page shows to someone who presents credential c (None: nothing),
\* when nobody else is at work: the order of the cases is handleView's.
OpenWith(e, c) ==
    CASE e.totp # None /\ ValidateTOTP(e.totp, c) -> e.text
      [] e.totp = None /\ verifyPassword(e.password, c) ->
            (IF e.enc # None THEN Unseal(e.enc, e.salt, c) ELSE e.text)
      [] ~e.protected -> e.text
      [] OTHER -> Failed
=============================================================================
