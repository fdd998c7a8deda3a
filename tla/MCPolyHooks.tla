----------------------------- MODULE MCPolyHooks -----------------------------
(* Small databases for PolyHooks. *)
EXTENDS PolyHooks

Edge(child, parents, required, touch, cascade) ==
    [child |-> child, parents |-> parents, required |-> required, touch |-> touch, cascade |-> cascade]

Post1 == <<"Post", 1>>
Video1 == <<"Video", 1>>
Comment1 == <<"Comment", 2>>
Comment2 == <<"Comment", 3>>
Image1 == <<"Image", 1>>

\* Comments on posts, videos and comments, images on comments; ids repeat
\* across the types (a post, a video and an image have the id 1).  The images'
\* relation only cascades.
MediaRelation == <<Edge("Comment", {"Post", "Video", "Comment"}, TRUE, TRUE, TRUE),
                   Edge("Image", {"Comment"}, FALSE, FALSE, TRUE)>>
MediaRow == {Post1, Video1, Comment1, Comment2, Image1}
MediaLive == MediaRow \ {Comment2}
MediaRef == [x \in MediaRow |-> CASE x = Comment1 -> <<Post1, NoRow>>
                                  [] x = Image1   -> <<NoRow, Comment1>>
                                  [] OTHER        -> <<NoRow, NoRow>>]

\* Comments that are no parents of comments, and one comment.
ThreadRelation == <<Edge("Comment", {"Post", "Video"}, TRUE, TRUE, TRUE),
                    Edge("Image", {"Comment"}, FALSE, TRUE, TRUE)>>
ThreadRow == {Post1, Video1, Comment1, Image1}
ThreadLive == {Post1, Video1, Comment1}
ThreadRef == [x \in ThreadRow |-> MediaRef[x]]

\* The callers and what they call.
OneCaller == {"any"}
AnySave == [c \in OneCaller |-> {"create", "update", "updateOne", "updateOneID"}]
AnyDelete == [c \in OneCaller |-> {"delete", "deleteOne"}]
TwoCallers == {"writer", "remover"}
WriterSaves == [c \in TwoCallers |->
    IF c = "writer" THEN {"create", "update", "updateOne", "updateOneID"} ELSE {}]
RemoverDeletes == [c \in TwoCallers |-> IF c = "remover" THEN {"delete", "deleteOne"} ELSE {}]
=============================================================================
