-------------------------------- MODULE Page --------------------------------
(***************************************************************************)
(* What FetchPage (internal/manager/forum.go) and ParseNotificationPage    *)
(* (internal/manager/parser.go) make of an answer of the forum.  A         *)
(* document is the outcome of the searches in its HTML: [login, tab,       *)
(* items, links], whether it has a login form and the notifications tab,   *)
(* the items, and the pages that its links to notifications lead to.       *)
(***************************************************************************)
EXTENDS Naturals, Sequences

CONSTANTS
  NoReply,     \* a link without a reply_id
  NoTarget     \* an item without a link

-----------------------------------------------------------------------------
(* One item: [whole, kind, actor, content, time, target], where whole says *)
(* that kind, content and time are present and readable, and a target is   *)
(* NoTarget or [host, path, reply, url].                                   *)

\* resolveForumURL: the link must parse and stay on the forum.
resolveForumURL(target) == target = NoTarget \/ target.host = "forum"

Readable(item) == item.whole /\ resolveForumURL(item.target)

\* The reply that the link names, or else everything there is.
notificationID(item) ==
  IF item.target # NoTarget /\ item.target.reply # NoReply
  THEN <<"reply", item.target.path, item.target.reply, item.kind>>
  ELSE <<"hash", item.kind, item.actor, item.time, item.target, item.content>>

-----------------------------------------------------------------------------
(* The results: an error, or a page with the ids of all items, newest      *)
(* first, and HasNext.                                                     *)

Failure(e) == [error |-> e, ids |-> <<>>, more |-> FALSE]

TabBeforeLogin(doc, page) ==   \* mutant: the checks in the other order
  IF ~ doc.tab THEN Failure("structure")
  ELSE IF doc.login THEN Failure("authentication")
  ELSE [error |-> "none",
        ids |-> [i \in DOMAIN doc.items |-> notificationID(doc.items[i])],
        more |-> (page + 1) \in doc.links]

ReadableItems(doc, page) ==   \* mutant: an item that cannot be read is left out
  LET items == SelectSeq(doc.items, Readable)
  IN  IF doc.login THEN Failure("authentication")
      ELSE IF ~ doc.tab THEN Failure("structure")
      ELSE [error |-> "none",
            ids |-> [i \in DOMAIN items |-> notificationID(items[i])],
            more |-> (page + 1) \in doc.links]

ParseNotificationPage(doc, page) ==
  IF doc.login THEN Failure("authentication")
  ELSE IF ~ doc.tab \/ \E i \in DOMAIN doc.items : ~ Readable(doc.items[i])
  THEN Failure("structure")
  ELSE [error |-> "none",
        ids |-> [i \in DOMAIN doc.items |-> notificationID(doc.items[i])],
        more |-> (page + 1) \in doc.links]

\* An answer: [code, path, large, doc], where path says where the redirects
\* ended and large that the body exceeds maxForumBody.
FetchResult(a, page) ==
  IF a.code \in {401, 403} \/ a.path = "login" THEN Failure("authentication")
  ELSE IF a.code = 429 THEN Failure("rate limit")
  ELSE IF a.code # 200 \/ a.large THEN Failure("transient")
  ELSE ParseNotificationPage(a.doc, page)
=============================================================================
