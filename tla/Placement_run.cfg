SPECIFICATION Spec
CONSTANTS
  Student = {s1, s2}
  Enrollment = {e1, e2}
  Classroom = {c1, c2}
  Enquiry = {q1}
  None = None
  Statuses = {"published", "rejected"}
  Older = {"enroll", "transfer", "withdraw", "update"}
  Request = {h1}
  MaxOpen = 1
  MaxEdits = 1
SYMMETRY Symmetry
INVARIANTS
  TypeOK
  OnePlace
  PlaceIsEnrolled
  StatusFollowsEnrollment
  EnquiryStartsOnce
