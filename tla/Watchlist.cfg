\* Two Bolt threads edit a list while a poll matches it.
SPECIFICATION Spec
CONSTANTS
    alice = alice
    author = author
    number = number
    draft = draft
    paper = paper
    NoNumber = NoNumber
    User = {alice}
    Author = {author}
    Number = {number}
    Item = {draft, paper}
    AuthorsIn <- MCAuthorsIn
    NumberOf <- MCNumberOf
    Handler = {t1, t2}
    MaxConn = 2
INVARIANTS
    WatchersTold
    DMsJustified
    AnswersAddUp
    ListsTruthful
    ConnectionsComeBack
SYMMETRY HandlerSymmetry
