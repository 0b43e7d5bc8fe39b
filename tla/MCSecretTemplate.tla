-------------------------- MODULE MCSecretTemplate --------------------------
EXTENDS SecretTemplate
LOCAL INSTANCE SequencesExt

MCKeys == {"a", "b"}

MCLetters == {"x"}

Alphabet == {"{", "}"} \cup MCLetters \cup MCKeys

(* Every template of up to five characters. *)
MCTemplates == SeqOf(Alphabet, 5)

(* Field values with no placeholder syntax and no key letter. *)
PlainValues == SeqOf({"x"}, 2)

(* Field values that may contain key letters, but no braces. *)
LetterValues == SeqOf({"x", "a", "b"}, 1)

(* Field values that may contain a placeholder, itself or another. *)
BraceValues == SeqOf({"x"}, 1) \cup {<<"{", "b", "}">>, <<"x", "{", "a", "}">>}

(* Templates of up to three characters. *)
ShortTemplates == SeqOf(Alphabet, 3)

=============================================================================
