--------------------- MODULE MCNotificationDispatcher ---------------------
\* Two handles of one and two units; notifications of one or two samples, some of a wrong size.
EXTENDS NotificationDispatcher, TLC

CONSTANTS x, y

LOCAL INSTANCE SequencesExt

TwoHandles == {x, y}
Sizes == x :> 1 @@ y :> 2

Of(handle, size) == [h |-> handle, size |-> size]
FieldsOf(j, s) ==
    [k \in 1..(s.size + 1) |-> IF k = 1 THEN [field |-> "sample", h |-> s.h, j |-> j, n |-> s.size]
                               ELSE [field |-> "data", h |-> s.h, j |-> j, n |-> k - 1]]
Laid(list) == FlattenSeq([j \in DOMAIN list |-> FieldsOf(j, list[j])])
SomeMessages == {Laid(list) : list \in
    {<<Of(x, 1)>>, <<Of(y, 2)>>, <<Of(y, 1), Of(x, 1)>>, <<Of(x, 1), Of(y, 2)>>}}
=============================================================================
