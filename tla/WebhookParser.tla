----------------------------- MODULE WebhookParser -----------------------------
(***************************************************************************)
(* What a webhook's payload becomes, as operators.                         *)
(*                                                                         *)
(*   app/integrations/webhook_parser.py   parse_webhook and its helpers    *)
(*                                                                         *)
(* A payload is [signed, items]: the envelope is as expected, and the      *)
(* items of its "messages" changes in order.  An item is a record          *)
(*   [is, id, type, from, body, more, at]                                  *)
(* of a message, a status, an account error, or junk.  An absent field is  *)
(* "none", an absent text the empty one.  Texts are those of SendRules.    *)
(*                                                                         *)
(* An operator whose name has an underscore is a plausible wrong version   *)
(* of the definition that follows it.                                      *)
(***************************************************************************)
EXTENDS Integers, Sequences, SequencesExt

Media == {"image", "document", "audio", "video", "sticker"}
Plain == {"text", "button", "reaction", "order", "system"}

(* An unknown raw type, and an interactive message that is neither kind of *)
(* reply, is UNSUPPORTED.                                                  *)
TypeOf(item) ==
  CASE item.type \in Media \cup Plain \cup {"location", "contacts"} -> item.type
    [] item.type = "button_reply" -> "interactive_button_reply"
    [] item.type = "list_reply"   -> "interactive_list_reply"
    [] OTHER                      -> "unsupported"

(* A list row without a title but with a description is called "None".     *)
TextOf(item) ==
  CASE item.type \in Plain \cup Media \cup {"button_reply"} -> item.body
    [] item.type = "list_reply" ->
         IF item.more = <<>> THEN item.body
         ELSE (IF item.body = <<>> THEN << <<"none">> >> ELSE item.body) \o item.more
    [] item.type = "location" ->
         IF item.body = <<>> THEN << <<"shared">>, <<"a">>, <<"location">> >> ELSE item.body
    [] OTHER -> <<>>

(* A message without an id is known by its content.                        *)
ParseMessage(item) ==
  [key |-> IF item.id = "none" THEN <<"msg", item>> ELSE <<item.id>>,
   from |-> item.from, type |-> TypeOf(item), text |-> TextOf(item), at |-> item.at]

(* A time of no calendar is the one thing that raises in a message; a      *)
(* garbled one counts as now.                                              *)
ItemRaises(item) == item.at = "beyond"

StatusOf(raw) ==
  CASE raw = "warning" -> "sent"
    [] raw \in {"sent", "accepted", "delivered", "read", "failed", "deleted"} -> raw
    [] OTHER -> "none"
StatusIsKnown(item) == item.id # "none" /\ StatusOf(item.type) # "none"

ParseStatus(item) == [key |-> <<item.id, ":", item.type>>, status |-> StatusOf(item.type)]

(* The code of an account error is read when str.isdigit says so, of which *)
(* some digits are none that int takes; nothing catches that.              *)
ErrorRaises(item) == item.is = "error" /\ item.type = "superscript"

(* One item after the other: a message or status that raises, or makes no  *)
(* sense, counts as malformed, and the next item is read.                  *)
Parsed(item) == item.is \in {"message", "status"} /\ ~ ItemRaises(item)
                  /\ (item.is = "status" => StatusIsKnown(item))

Unread == [messages |-> <<>>, statuses |-> <<>>, errors |-> 0, malformed |-> 0, raises |-> FALSE]

Read(result, item) ==
  CASE item.is = "message" /\ Parsed(item) ->
         [result EXCEPT !.messages = Append(@, ParseMessage(item))]
    [] item.is = "status" /\ Parsed(item) ->
         [result EXCEPT !.statuses = Append(@, ParseStatus(item))]
    [] item.is = "error" -> [result EXCEPT !.errors = @ + 1]
    [] OTHER -> [result EXCEPT !.malformed = @ + 1]

ReadEach_UpToMalformed(items) ==
  FoldLeft(LAMBDA r, i : IF r.malformed = 0 THEN Read(r, i) ELSE r, Unread, items)
ReadEach(items) == FoldLeft(LAMBDA r, i : Read(r, i), Unread, items)

(* What raises for an account error leaves parse_webhook, and with it all  *)
(* that was read before and all that was still to be read are lost.        *)
ReadAll(items) ==
  IF \E i \in ToSet(items) : ErrorRaises(i) THEN [Unread EXCEPT !.raises = TRUE]
                                           ELSE ReadEach(items)

ParseWebhook(payload) ==
  IF payload.signed THEN ReadAll(payload.items) ELSE [Unread EXCEPT !.malformed = 1]
--------------------------------------------------------------------------------
(* Whatever Meta may post in one payload.                                  *)
AllItems ==
  [is : {"message", "status", "error", "junk"}, id : STRING, type : STRING, from : BOOLEAN,
   body : Seq(Seq(STRING)), more : Seq(Seq(STRING)), at : {"past", "late", "future", "beyond"}]
AllBatches == Seq(AllItems)

KeyOf(item) == IF item.is = "message" THEN ParseMessage(item).key ELSE ParseStatus(item).key

(* "One bad item must not fail the batch": unless an account error raises, *)
(* what is made of an item does not depend on those it came with, and none *)
(* is forgotten or made two of; nothing else raises; and items that the    *)
(* ledger takes for one are the same message or the same step of a         *)
(* message's status.                                                       *)
BatchSurvives(items) ==
  LET all == ReadAll(items)
      one(i) == ReadAll(<<items[i]>>)
  IN /\ all.raises <=> \E i \in DOMAIN items : items[i].is = "error" /\ one(i).raises
     /\ ~ all.raises =>
          /\ Len(all.messages) + Len(all.statuses) + all.errors + all.malformed = Len(items)
          /\ all.messages = FlattenSeq([i \in DOMAIN items |-> one(i).messages])
          /\ all.statuses = FlattenSeq([i \in DOMAIN items |-> one(i).statuses])
     /\ \A i, j \in ToSet(items) :
          Parsed(i) /\ Parsed(j) /\ KeyOf(i) = KeyOf(j) =>
            /\ i.is = j.is /\ i.id = j.id
            /\ i.is = "status" => i.type = j.type
            /\ i.id = "none" => i = j
================================================================================
