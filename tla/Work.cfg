SPECIFICATION Spec
CHECK_DEADLOCK FALSE
INVARIANTS WorkArrives OneVerdict
PROPERTIES CountedReviewsMove FeedTells
