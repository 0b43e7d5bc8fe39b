--------------------------- MODULE SecretTemplate ---------------------------
(***************************************************************************)
(* BaoSecret templates (src/internal/csi/secrets.go applyTemplate,         *)
(* replaceAll, indexOf).  For one template value, the code ranges over the *)
(* source data map in Go's random order and, for each key k, replaces the  *)
(* placeholder "{{ .Data.k }}" by the value with replaceAll.  replaceAll   *)
(* rescans the whole string from the start after every replacement and    *)
(* stops only when a pass changes nothing.                                 *)
(*                                                                         *)
(* Strings are sequences over a small alphabet.  The placeholder of key k  *)
(* is <<"{", k, "}">>: "{" stands for "{{ .Data." and "}" for " }}", so    *)
(* a key is one letter of the alphabet.  Values are the %v form of the     *)
(* source fields, i.e. strings.                                            *)
(***************************************************************************)
EXTENDS Naturals, Sequences
LOCAL INSTANCE SequencesExt

CONSTANTS
  Keys,         \* source field names, letters of the alphabet
  Letters,      \* the other letters of the alphabet
  Templates,    \* the template strings to check
  Values,       \* the source field values to check
  MaxValueLen   \* bound on the length of the string being rewritten

Placeholder(k) == <<"{", k, "}">>

(* Spec 4.4: literal substitution of each placeholder by its field, with  *)
(* unmatched placeholders left verbatim: one left-to-right pass over the  *)
(* template, never rescanning substituted text.                           *)
RECURSIVE Subst(_, _)
Subst(t, src) ==
  IF t = <<>> THEN <<>>
  ELSE IF \E k \in DOMAIN src : IsPrefix(Placeholder(k), t)
       THEN LET f == CHOOSE k \in DOMAIN src : IsPrefix(Placeholder(k), t)
            IN src[f] \o Subst(SubSeq(t, 4, Len(t)), src)
       ELSE <<Head(t)>> \o Subst(Tail(t), src)

VARIABLES
  tmpl,   \* the template value being rendered
  src,    \* sourceData, restricted to string fields
  order,  \* the order in which range visits the keys of sourceData
  ki,     \* the position of the key currently being replaced
  value   \* the local `value` of applyTemplate

vars == <<tmpl, src, order, ki, value>>

Sources == UNION {[D -> Values] : D \in SUBSET Keys}

Init ==
  /\ tmpl \in Templates
  /\ src \in Sources
  /\ order \in SetToSeqs(DOMAIN src)
  /\ ki = 1
  /\ value = tmpl

(* A bug where the scan stops one position early.                         *)
IndexOfShort(s, sub) ==
  LET I == {i \in 1..Len(s) - Len(sub) : SubSeq(s, i, i + Len(sub) - 1) = sub}
  IN IF I = {} THEN 0 ELSE CHOOSE i \in I : \A j \in I : i <= j

(* indexOf: the first position of sub in s, 0 for Go's -1.                *)
IndexOf(s, sub) ==
  LET I == {i \in 1..Len(s) - Len(sub) + 1 : SubSeq(s, i, i + Len(sub) - 1) = sub}
  IN IF I = {} THEN 0 ELSE CHOOSE i \in I : \A j \in I : i <= j

(* A bug where the placeholder is not cut out of the string.              *)
ReplaceFirstKeepOld(s, old, new) ==
  LET idx == IndexOf(s, old)
  IN IF idx = 0 THEN s
     ELSE SubSeq(s, 1, idx - 1) \o new \o SubSeq(s, idx, Len(s))

(* One iteration of replaceAll's loop: newS[:idx] + new + newS[idx+len(old):] *)
ReplaceFirst(s, old, new) ==
  LET idx == IndexOf(s, old)
  IN IF idx = 0 THEN s
     ELSE SubSeq(s, 1, idx - 1) \o new \o SubSeq(s, idx + Len(old), Len(s))

Rewritten == ReplaceFirst(value, Placeholder(order[ki]), src[order[ki]])

(* replaceAll, an iteration that changed s: s = newS, and loop.  A string *)
(* that would outgrow MaxValueLen stands for a loop that never ends.      *)
Replace ==
  /\ ki <= Len(order)
  /\ Rewritten # value
  /\ Len(Rewritten) <= MaxValueLen
  /\ value' = Rewritten
  /\ UNCHANGED <<tmpl, src, order, ki>>

(* replaceAll, an iteration with newS == s: break, and applyTemplate's    *)
(* range moves to the next key.                                           *)
NextKey ==
  /\ ki <= Len(order)
  /\ Rewritten = value
  /\ ki' = ki + 1
  /\ UNCHANGED <<tmpl, src, order, value>>

Done == ki = Len(order) + 1

Next == Replace \/ NextKey

Spec == Init /\ [][Next]_vars /\ WF_vars(Next)

-----------------------------------------------------------------------------
(* Properties *)

(* applyTemplate returns: every replaceAll loop ends.                     *)
Terminates == <>Done

(* The rendered value is the literal substitution of spec 4.4, whatever  *)
(* order Go's map iteration visits the source keys in.                    *)
AgreesWithReference == Done => value = Subst(tmpl, src)

=============================================================================
