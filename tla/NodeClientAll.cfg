\* Any four requests in any order, with one route for each way to wait: start_query
\* and ranking are like train, and free is like rank.
CONSTANTS
  Routes = {"add_trs", "train", "rank"}
  MaxRequests = 4
SPECIFICATION FairSpec
INVARIANTS AnsweredOnce OwnReplyUnlessOverlapped NeverLaterReply
PROPERTY AnsweredAtLast
\* The process may end, and requests are bounded.
CHECK_DEADLOCK FALSE
